---------------------------- MODULE DispatchProofs ----------------------------
(***************************************************************************)
(* What holds of the dispatching of processes for every number of          *)
(* processes, CPUs and priority levels, every scheduling algorithm and     *)
(* every priority, with preemption, quantum and the loss of CPUs.          *)
(*                                                                         *)
(* The first theorems assume Regime: the timing assumption PromptSend, and *)
(* programs without MEM_ALLOC, without unknown mutexes and without STDIN   *)
(* of 0 bytes.  TLC refutes the properties when an eviction overtakes      *)
(* send_pid_to_execute, when a failed allocation races an eviction, and    *)
(* when a process is killed without being detached from its CPU.           *)
(*                                                                         *)
(* One invariant, IndInv, carries these.  Its heart is CpuInv(c): what may *)
(* be under way at once between the scheduler and one CPU.  It is local to *)
(* the CPU, so a step that touches one CPU leaves it true of the others    *)
(* (CpuFrame); Lists and Origins tie the CPUs to the process lists and to  *)
(* the answers that are still expected.                                    *)
(*                                                                         *)
(* The second part drops Regime.  Typed is inductive whatever the timing   *)
(* and the syscalls; it gives TypeOK.  CalmInv is inductive where nothing  *)
(* is evicted (NoEvictions), with every syscall of the module and every    *)
(* delay of the threads: it gives ListsAgree and ExitIsFinal there, the    *)
(* failed allocation, the unknown mutex and the STDOUT that cannot be read *)
(* included.                                                               *)
(***************************************************************************)
EXTENDS Dispatch, ReadyQueuesProofs, FiniteSetTheorems, TLAPS

\* Under which hypotheses IndInv is inductive.
Regime ==
    /\ PromptSend
    /\ \A p \in Proc : Program[p] \cap {"MEM_ALLOC", "MEM_ALLOC_EMPTY", "MUTEX_UNKNOWN", "STDIN_EMPTY"} = {}

\* The syscalls with which a process gives up its CPU.
Yields == {"PROCESS_END", "SEGMENTATION_FAULT", "MUTEX_CREATE", "SLEEP", "STDOUT"}
\* What the scheduler sends a CPU, and what it gets from it.
CpuOrders == [op : {"PROCESS_EXECUTE"}, pid : Proc] \cup [op : {"PROCESS_EVICT"}, pid : {NoProc}]
Reports == [op : {"PROCESS_CREATE"} \cup Yields, pid : Proc]
           \cup [op : {"CONFIRMATION"}, pid : {NoProc}]
\* The states of a process, the places of a thread, a thread at rest.
States == {"NONE", "ASSIGNED", "NEW", "READY", "EXEC", "BLOCK", "EXIT"}
Places == {"wait", "loop", "idle", "scan", "check", "send", "evict", "create", "kill", "free",
           "read", "terminate", "unlist", "release"}
Idle == Local("idle", NoProc, NoCpu)

\* The types of the process lists, ...
ProcTypes ==
    /\ state \in [Proc -> States] /\ cpu \in [Proc -> Cpu \cup {NoCpu}]
    /\ listed \in Seq(Proc) /\ exec \in Seq(Proc)
    /\ readyQ \in [Queues -> Seq(Proc)]
    /\ kmNew \subseteq Proc /\ kmRead \subseteq Proc /\ ioReq \subseteq Proc

\* ... of the CPUs' records, ...
CpuTypes ==
    /\ connected \in [Cpu -> {"no", "yes", "lost", "gone"}]
    /\ available \in [Cpu -> BOOLEAN] /\ evicting \in [Cpu -> BOOLEAN]
    /\ response \in [Cpu -> Nat] /\ waiters \in [Cpu -> Nat]
    /\ running \in [Cpu -> Proc \cup {NoProc}]

\* ... of the sockets, ...
NetTypes ==
    /\ toCpu \in [Cpu -> Seq(CpuOrders)]
    /\ fromCpu \in [Cpu -> Seq(Reports)]

\* ... and of the threads.
ThrTypes ==
    /\ thr \in [Threads -> [at : Places, pid : Proc \cup {NoProc}, cpu : Cpu \cup {NoCpu}]]
    /\ stsSem \in 0 .. MaxWakeups

\* Nobody asks Kernel Memory for memory, so nothing compacts.
Quiet ==
    /\ kmReq = {} /\ pendingMem = [p \in Proc |-> FALSE]
    /\ thr["KM"].at = "idle" /\ canSchedule = TRUE
    /\ comp = [at |-> "idle", for |-> NoProc, todo |-> <<>>, evicted |-> <<>>]

Types == ProcTypes /\ CpuTypes /\ NetTypes /\ ThrTypes /\ Quiet

\* Thread t is inside send_pid_to_execute.
Sends(t) == thr[t].at \in {"check", "send"}

\* What the short-term scheduler and the quantum manager hold in hand names
\* a process and a CPU; a CPU they are about to evict has been connected.
SchedArgs ==
    /\ thr["STS"].at \in {"wait", "loop", "check", "send", "evict"}
    /\ thr["QM"].at \in {"idle", "scan", "evict"}
    /\ Sends("STS") => thr["STS"].pid \in Proc /\ thr["STS"].cpu \in Cpu
    /\ \A t \in {"STS", "QM"} :
          thr[t].at = "evict" /\ thr[t].cpu \in Cpu => connected[thr[t].cpu] # "no"

\* The handler of c sends to c only, and works for a process.
HandlerArgs(c) ==
    /\ thr[c].at \in {"idle", "check", "send", "create", "free", "read"}
    /\ Sends(c) => thr[c].pid \in Proc /\ thr[c].cpu = c
    /\ thr[c].at \in {"create", "free", "read"} => thr[c].pid \in Proc

\* The short-term scheduler is about to send c an order.
StsSends(c) == Sends("STS") /\ thr["STS"].cpu = c
\* No order to execute, syscall, order to evict or confirmation is under way.
NoOrder(c) == \A i \in DOMAIN toCpu[c] : toCpu[c][i].op # "PROCESS_EXECUTE"
NoYield(c) == \A i \in DOMAIN fromCpu[c] : fromCpu[c][i].op \notin Yields
NoEvict(c) == \A i \in DOMAIN toCpu[c] : toCpu[c][i].op # "PROCESS_EVICT"
NoConfirm(c) == \A i \in DOMAIN fromCpu[c] : fromCpu[c][i].op # "CONFIRMATION"
\* No process is assigned to c.
Unassigned(c) == \A p \in Proc : cpu[p] # c

\* Whatever is under way for a process on c, the process is assigned to c.
\* (A disconnection takes the process away from a scheduler about to send.)
Assigned(c) ==
    /\ StsSends(c) /\ connected[c] # "gone" => cpu[thr["STS"].pid] = c
    /\ Sends(c) => cpu[thr[c].pid] = c
    /\ \A i \in DOMAIN toCpu[c] :
          toCpu[c][i].op = "PROCESS_EXECUTE" => cpu[toCpu[c][i].pid] = c
    /\ running[c] # NoProc => cpu[running[c]] = c
    /\ \A i \in DOMAIN fromCpu[c] : fromCpu[c][i].op \in Yields => cpu[fromCpu[c][i].pid] = c

\* A process assigned to c is in one place only: about to be sent, ordered,
\* running, or reported by a syscall that has not been served.
Exclusive(c) ==
    /\ StsSends(c) => ~Sends(c) /\ NoOrder(c) /\ running[c] = NoProc /\ NoYield(c)
    /\ Sends(c) => NoOrder(c) /\ running[c] = NoProc /\ NoYield(c)
    /\ ~NoOrder(c) => running[c] = NoProc /\ NoYield(c)
    /\ running[c] # NoProc => NoYield(c)
    /\ \A i, j \in DOMAIN toCpu[c] :
          toCpu[c][i].op = "PROCESS_EXECUTE" /\ toCpu[c][j].op = "PROCESS_EXECUTE" => i = j
    /\ \A i, j \in DOMAIN fromCpu[c] :
          fromCpu[c][i].op \in Yields /\ fromCpu[c][j].op \in Yields => i = j

\* What is left of a CPU that is not connected.
Connection(c) ==
    /\ connected[c] # "yes" => toCpu[c] = <<>> /\ running[c] = NoProc
    /\ connected[c] \in {"no", "gone"} =>
          thr[c].at = "idle" /\ fromCpu[c] = <<>> /\ ~available[c] /\ Unassigned(c)
    /\ connected[c] = "no" => ~evicting[c]

\* The handler of c has blocked a process and not yet released the CPU.
Frees(c) == thr[c].at \in {"free", "read"}

\* An available CPU has no process; the handler that is about to free c has
\* taken the process off it and has not made it available.
Avail(c) ==
    /\ available[c] => Unassigned(c)
    /\ Frees(c) => Unassigned(c) /\ ~available[c]

\* An eviction is in one place only: ordered, confirmed or acknowledged; it
\* is the last message of its socket, and one thread waits for it.
Eviction(c) ==
    /\ waiters[c] = IF evicting[c] THEN 1 ELSE 0
    /\ ~evicting[c] => NoEvict(c) /\ NoConfirm(c) /\ response[c] = 0
    /\ evicting[c] => ~StsSends(c) /\ thr[c].at # "send"
    /\ \A i \in DOMAIN toCpu[c] : toCpu[c][i].op = "PROCESS_EVICT" =>
          i = Len(toCpu[c]) /\ NoConfirm(c) /\ response[c] = 0
    /\ \A i \in DOMAIN fromCpu[c] : fromCpu[c][i].op = "CONFIRMATION" =>
          i = Len(fromCpu[c]) /\ toCpu[c] = <<>> /\ running[c] = NoProc /\ response[c] = 0
    /\ response[c] \in {0, 1}
    /\ response[c] = 1 =>
          fromCpu[c] = <<>> /\ toCpu[c] = <<>> /\ running[c] = NoProc /\ thr[c].at = "idle"
    /\ connected[c] = "yes" /\ evicting[c] => ~NoEvict(c) \/ ~NoConfirm(c) \/ response[c] = 1

\* What holds of one CPU.
CpuInv(c) ==
    HandlerArgs(c) /\ Assigned(c) /\ Exclusive(c) /\ Connection(c) /\ Avail(c) /\ Eviction(c)

\* exec_processes, the CPUs and the states agree: this is stronger than
\* ExecListMatchesCpus, which allows for terminate_process.
ExecList ==
    /\ \A p \in Proc : (cpu[p] # NoCpu <=> state[p] = "EXEC") /\ (InList(exec, p) <=> state[p] = "EXEC")
    /\ \A i, j \in DOMAIN exec : exec[i] = exec[j] => i = j
    /\ \A p, q \in Proc : cpu[p] = cpu[q] /\ cpu[p] # NoCpu => p = q

\* list_processes holds the processes that were created.
ListedProcs == \A p \in Proc : InList(listed, p) <=> state[p] \notin {"NONE", "ASSIGNED"}

\* The process lists.
Lists == ExecList /\ ListedProcs /\ ReadyQueuesMatchStates

\* The handler of c is between the two halves of INIT_PROC, SLEEP or STDOUT.
Held(c) == thr[c].at \in {"create", "free", "read"}

\* A device works for the process, or Kernel Memory reads for it.
Awaited == ioReq \cup kmRead

\* A process is awaited from Kernel Memory, from a device or by a handler
\* only in the state that the answer expects, and by one handler only.
Origins ==
    /\ \A p \in kmNew : state[p] \in {"ASSIGNED", "NEW"}
    /\ \A p \in Awaited : state[p] \in {"BLOCK", "EXIT"} /\ \A c \in Cpu : Frees(c) => thr[c].pid # p
    /\ ioReq \cap kmRead = {}
    /\ \A c \in Cpu : Frees(c) => state[thr[c].pid] = "BLOCK"
    /\ \A c \in Cpu : thr[c].at = "create" => state[thr[c].pid] = "ASSIGNED"
    /\ \A c, d \in Cpu : Held(c) /\ Held(d) /\ thr[c].pid = thr[d].pid => c = d

\* All CPUs.
Cpus == SchedArgs /\ \A c \in Cpu : CpuInv(c)
\* The inductive invariant.
IndInv == Types /\ Cpus /\ Lists /\ Origins

-----------------------------------------------------------------------------
\* The names of threads and CPUs differ.
LEMMA CpuNames ==
    /\ \A c \in Cpu : c # "STS" /\ c # "QM" /\ c # "KM" /\ c # NoCpu /\ c \in Threads
    /\ "STS" \in Threads /\ "QM" \in Threads /\ "KM" \in Threads
BY DispatchAssumption DEF Threads

\* Where threads continue after sending or evicting.
LEMMA HomeValues ==
    /\ Home("STS") = Local("loop", NoProc, NoCpu)
    /\ Home("QM") = Local("scan", NoProc, NoCpu)
    /\ \A c \in Cpu : Home(c) = Idle
BY CpuNames DEF Home, Idle

\* What is sent has the type of its socket.
LEMMA MessageTypes ==
    /\ \A p \in Proc : Message("PROCESS_EXECUTE", p) \in CpuOrders
    /\ Message("PROCESS_EVICT", NoProc) \in CpuOrders
    /\ \A p \in Proc, op \in {"PROCESS_CREATE"} \cup Yields : Message(op, p) \in Reports
    /\ Message("CONFIRMATION", NoProc) \in Reports
BY DEF Message, CpuOrders, Reports

\* The scheduler starts with no CPU and process0 waiting for Kernel Memory.
LEMMA Init0 == Init => IndInv
<1> SUFFICES ASSUME Init PROVE IndInv
  OBVIOUS
<1> USE DispatchAssumption, QueueAssumption, CpuNames
<1>1. ProcTypes /\ CpuTypes /\ NetTypes
  BY DEF Init, ProcTypes, CpuTypes, NetTypes, States, EmptyQueues
<1>2. ThrTypes
  BY DEF Init, ThrTypes, Places, Local
<1>3. Quiet
  BY DEF Init, Quiet, Local
<1>4. SchedArgs
  BY DEF Init, SchedArgs, Sends, Local
<1>5. ASSUME NEW c \in Cpu PROVE CpuInv(c)
  <2>1. /\ thr[c].at = "idle" /\ toCpu[c] = <<>> /\ fromCpu[c] = <<>> /\ running[c] = NoProc
        /\ connected[c] = "no" /\ ~available[c] /\ ~evicting[c] /\ response[c] = 0 /\ waiters[c] = 0
        /\ thr["STS"].at = "wait" /\ Unassigned(c)
    BY <1>5 DEF Init, Local, Unassigned
  <2> QED BY <2>1 DEF CpuInv, HandlerArgs, Assigned, Exclusive, Connection, Avail,
      Eviction, StsSends,
       Sends, NoOrder, NoYield, NoEvict, NoConfirm, Frees
<1>6. ExecList
  BY DEF Init, ExecList, InList
<1>7. ListedProcs
  BY DEF Init, ListedProcs, InList
<1>8. ReadyQueuesMatchStates
  BY DEF Init, ReadyQueuesMatchStates, NotQueued, EmptyQueues
<1>9. Origins
  BY DEF Init, Origins, Awaited, Held, Frees, Local
<1> QED BY <1>1, <1>2, <1>3, <1>4, <1>5, <1>6, <1>7, <1>8, <1>9 DEF IndInv, Types,
    Cpus, Lists

-----------------------------------------------------------------------------
\* What list_add and a sent message do to a sequence.
LEMMA ListAppend ==
    ASSUME NEW S, NEW s \in Seq(S), NEW e \in S
    PROVE  LET r == Append(s, e)
           IN  /\ r \in Seq(S) /\ Len(r) = Len(s) + 1 /\ r # <<>>
               /\ DOMAIN r = 1 .. Len(s) + 1 /\ DOMAIN s = 1 .. Len(s) /\ Len(s) \in Nat
               /\ \A i \in DOMAIN s : i \in DOMAIN r /\ r[i] = s[i] /\ i # Len(s) + 1
               /\ \A i \in DOMAIN r : i \in DOMAIN s \/ i = Len(s) + 1
               /\ Len(s) + 1 \in DOMAIN r /\ r[Len(s) + 1] = e
<1> DEFINE r == Append(s, e)
<1>1. r \in Seq(S) /\ Len(r) = Len(s) + 1 /\ Len(s) \in Nat
  OBVIOUS
<1>2. (\A i \in 1 .. Len(s) : r[i] = s[i]) /\ r[Len(s) + 1] = e
  OBVIOUS
<1> HIDE DEF r
<1>3. DOMAIN r = 1 .. Len(s) + 1 /\ DOMAIN s = 1 .. Len(s)
  BY <1>1
<1>4. r # <<>>
  BY <1>1
<1> QED BY <1>1, <1>2, <1>3, <1>4 DEF r

\* What a received message does to a sequence.
LEMMA ListTail ==
    ASSUME NEW S, NEW s \in Seq(S), s # <<>>
    PROVE  LET r == Tail(s)
           IN  /\ r \in Seq(S) /\ Len(r) = Len(s) - 1 /\ Len(s) \in Nat
               /\ 1 \in DOMAIN s /\ Head(s) = s[1] /\ s[1] \in S
               /\ \A i \in DOMAIN r : i + 1 \in DOMAIN s /\ i + 1 # 1 /\ i \in Nat /\ r[i] = s[i + 1]
               /\ \A i \in DOMAIN s : i # 1 => i - 1 \in DOMAIN r /\ r[i - 1] = s[i]
               /\ Len(s) = 1 => r = <<>>
<1> DEFINE r == Tail(s)
<1>1. r \in Seq(S) /\ Len(r) = Len(s) - 1 /\ Len(s) \in Nat /\ Len(s) > 0
  OBVIOUS
<1>2. \A i \in 1 .. Len(s) - 1 : r[i] = s[i + 1]
  OBVIOUS
<1>3. 1 \in DOMAIN s /\ Head(s) = s[1] /\ s[1] \in S
  OBVIOUS
<1> HIDE DEF r
<1>4. DOMAIN r = 1 .. Len(s) - 1 /\ DOMAIN s = 1 .. Len(s)
  BY <1>1
<1>5. Len(s) = 1 => r = <<>>
  BY <1>1
<1>6. \A i \in DOMAIN r : i + 1 \in DOMAIN s /\ i + 1 # 1 /\ i \in Nat /\ r[i] = s[i + 1]
  BY <1>1, <1>2, <1>4
<1>7. \A i \in DOMAIN s : i # 1 => i - 1 \in DOMAIN r /\ r[i - 1] = s[i]
  <2> SUFFICES ASSUME NEW i \in DOMAIN s, i # 1 PROVE i - 1 \in DOMAIN r /\ r[i - 1] = s[i]
    OBVIOUS
  <2>1. i - 1 \in 1 .. Len(s) - 1 /\ (i - 1) + 1 = i
    BY <1>1, <1>4
  <2> QED BY <1>2, <1>4, <2>1
<1> QED BY <1>1, <1>3, <1>5, <1>6, <1>7 DEF r

\* exec_processes stays free of repetitions when a process is added ...
LEMMA ExecAppend ==
    ASSUME NEW s \in Seq(Proc), NEW p \in Proc, ~InList(s, p),
           \A i, j \in DOMAIN s : s[i] = s[j] => i = j
    PROVE  LET r == Append(s, p)
           IN  /\ r \in Seq(Proc)
               /\ \A i, j \in DOMAIN r : r[i] = r[j] => i = j
               /\ \A q \in Proc : InList(r, q) <=> q = p \/ InList(s, q)
<1> DEFINE r == Append(s, p)
<1> HIDE DEF r
<1>1. /\ r \in Seq(Proc)
      /\ \A i \in DOMAIN s : i \in DOMAIN r /\ r[i] = s[i] /\ i # Len(s) + 1
      /\ \A i \in DOMAIN r : i \in DOMAIN s \/ i = Len(s) + 1
      /\ Len(s) + 1 \in DOMAIN r /\ r[Len(s) + 1] = p
  BY ListAppend DEF r
<1>2. \A i, j \in DOMAIN r : r[i] = r[j] => i = j
  BY <1>1 DEF InList
<1>3. \A q \in Proc : InList(r, q) <=> q = p \/ InList(s, q)
  BY <1>1 DEF InList
<1> QED BY <1>1, <1>2, <1>3 DEF r

\* ... and loses just the process that is removed.
LEMMA ExecRemove ==
    ASSUME NEW s \in Seq(Proc), NEW p \in Proc, \A i, j \in DOMAIN s : s[i] = s[j] => i = j
    PROVE  LET r == RemoveFirst(s, p)
           IN  /\ r \in Seq(Proc)
               /\ \A i, j \in DOMAIN r : r[i] = r[j] => i = j
               /\ \A q \in Proc : InList(r, q) <=> q # p /\ InList(s, q)
<1> DEFINE r == RemoveFirst(s, p)
<1>0. Len(s) \in Nat /\ DOMAIN s = 1 .. Len(s)
  OBVIOUS
<1>1. CASE ~InList(s, p)
  <2>1. r = s
    BY <1>0, <1>1, RemoveFirstAbsent DEF InList
  <2> QED BY <1>1, <2>1
<1>2. CASE InList(s, p)
  <2>0. \E i \in 1 .. Len(s) : s[i] = p
    BY <1>0, <1>2 DEF InList
  <2>1. PICK k \in 1 .. Len(s) :
           /\ s[k] = p /\ r \in Seq(Proc) /\ Len(r) = Len(s) - 1
           /\ \A i \in 1 .. (Len(s) - 1) : r[i] = IF i < k THEN s[i] ELSE s[i + 1]
    BY <2>0, RemoveFirstPresent
  <2> HIDE DEF r
  <2>2. DOMAIN r = 1 .. Len(s) - 1
    BY <2>1
  <2> DEFINE up(i) == IF i < k THEN i ELSE i + 1
             down(i) == IF i < k THEN i ELSE i - 1
  <2>3. \A i \in DOMAIN r : up(i) \in DOMAIN s /\ up(i) # k /\ r[i] = s[up(i)] /\ i \in Nat
    <3> SUFFICES ASSUME NEW i \in DOMAIN r
                 PROVE  up(i) \in DOMAIN s /\ up(i) # k /\ r[i] = s[up(i)] /\ i \in Nat
      OBVIOUS
    <3>1. i \in 1 .. Len(s) - 1 /\ i \in Nat /\ i \in 1 .. Len(s) /\ i + 1 \in 1 .. Len(s)
      BY <1>0, <2>2
    <3>2. CASE i < k
      BY <1>0, <2>1, <3>1, <3>2
    <3>3. CASE ~(i < k)
      BY <1>0, <2>1, <3>1, <3>3
    <3> QED BY <3>2, <3>3
  <2>4. \A i \in DOMAIN s : i # k => down(i) \in DOMAIN r /\ r[down(i)] = s[i]
    <3> SUFFICES ASSUME NEW i \in DOMAIN s, i # k PROVE down(i) \in DOMAIN r /\ r[down(i)] = s[i]
      OBVIOUS
    <3>1. CASE i < k
      BY <1>0, <2>1, <2>2, <3>1
    <3>2. CASE ~(i < k)
      <4>1. i - 1 \in 1 .. Len(s) - 1 /\ (i - 1) + 1 = i /\ ~(i - 1 < k)
        BY <1>0, <3>2
      <4> QED BY <2>1, <2>2, <3>2, <4>1
    <3> QED BY <3>1, <3>2
  <2>5. \A i, j \in DOMAIN r : r[i] = r[j] => i = j
    <3> SUFFICES ASSUME NEW i \in DOMAIN r, NEW j \in DOMAIN r, r[i] = r[j] PROVE i = j
      OBVIOUS
    <3>1. up(i) = up(j) /\ i \in Nat /\ j \in Nat
      BY <2>3
    <3> QED BY <3>1
  <2>6. \A q \in Proc : InList(r, q) => q # p /\ InList(s, q)
    BY <1>0, <2>1, <2>3 DEF InList
  <2>7. \A q \in Proc : q # p /\ InList(s, q) => InList(r, q)
    BY <2>1, <2>4 DEF InList
  <2> QED BY <2>1, <2>5, <2>6, <2>7 DEF r
<1> QED BY <1>1, <1>2

\* get_process_from_cpu finds the process of c if there is one.
LEMMA ProcessOfCpu ==
    ASSUME ProcTypes, Lists, NEW c \in Cpu
    PROVE  \/ get_process_from_cpu(c) = NoProc /\ Unassigned(c)
           \/ get_process_from_cpu(c) \in Proc /\ cpu[get_process_from_cpu(c)] = c
<1> DEFINE at == {i \in DOMAIN listed : cpu[listed[i]] = c}
           k == CHOOSE i \in at : \A j \in at : i <= j
<1>1. CASE at = {}
  <2>1. get_process_from_cpu(c) = NoProc
    BY <1>1 DEF get_process_from_cpu
  <2>2. ASSUME NEW p \in Proc, cpu[p] = c PROVE FALSE
    <3>1. InList(listed, p)
      BY <2>2, CpuNames DEF Lists, ExecList, ListedProcs
    <3> QED BY <1>1, <2>2, <3>1 DEF InList
  <2> QED BY <2>1, <2>2 DEF Unassigned
<1>2. CASE at # {}
  <2>1. at \in SUBSET Nat
    BY DEF ProcTypes
  <2>2. k \in at
    BY <1>2, <2>1, LeastNat
  <2>3. get_process_from_cpu(c) = listed[k]
    BY <1>2 DEF get_process_from_cpu
  <2> HIDE DEF k
  <2> QED BY <2>2, <2>3 DEF ProcTypes
<1> QED BY <1>1, <1>2

-----------------------------------------------------------------------------
\* The part of the state that is about c.
CpuPart(c) == <<toCpu[c], fromCpu[c], running[c], response[c], evicting[c], waiters[c],
                available[c], connected[c], thr[c]>>

\* CpuInv(c) depends on the part of c, on which processes are assigned to it
\* and on whether the short-term scheduler is about to send to it.
LEMMA CpuFrame ==
    ASSUME Types, SchedArgs, NEW c \in Cpu, CpuInv(c), UNCHANGED CpuPart(c),
           StsSends(c)' => StsSends(c) /\ thr'["STS"].pid = thr["STS"].pid,
           \A p \in Proc : cpu'[p] = c <=> cpu[p] = c
    PROVE  CpuInv(c)'
<1> USE DEF CpuPart
<1>1. /\ NoOrder(c)' = NoOrder(c) /\ NoYield(c)' = NoYield(c) /\ NoEvict(c)' = NoEvict(c)
      /\ NoConfirm(c)' = NoConfirm(c) /\ Sends(c)' = Sends(c)
  BY DEF NoOrder, NoYield, NoEvict, NoConfirm, Sends
<1>2. Unassigned(c)' = Unassigned(c)
  BY DEF Unassigned
<1>3. HandlerArgs(c)' /\ Exclusive(c)' /\ Connection(c)' /\ Avail(c)'
  BY <1>1, <1>2 DEF CpuInv, HandlerArgs, Exclusive, Connection, Avail, Frees
<1>4. Eviction(c)'
  BY <1>1 DEF CpuInv, Eviction
<1>5. /\ \A i \in DOMAIN toCpu[c] : toCpu[c][i].op = "PROCESS_EXECUTE" => toCpu[c][i].pid \in Proc
      /\ \A i \in DOMAIN fromCpu[c] : fromCpu[c][i].op \in Yields => fromCpu[c][i].pid \in Proc
      /\ running[c] # NoProc => running[c] \in Proc
      /\ Sends(c) => thr[c].pid \in Proc
      /\ StsSends(c) => thr["STS"].pid \in Proc
  BY DEF Types, NetTypes, CpuTypes, CpuOrders, Reports, Yields, CpuInv, HandlerArgs,
      SchedArgs, StsSends
<1>6. Assigned(c)'
  BY <1>1, <1>5 DEF CpuInv, Assigned
<1> QED BY <1>3, <1>4, <1>6 DEF CpuInv

\* Lists depends on the lists and on the states only.
LEMMA ListsFrame ==
    ASSUME Lists, UNCHANGED <<state, cpu, listed, exec, readyQ>>
    PROVE  Lists'
BY DEF Lists, ExecList, ListedProcs, ReadyQueuesMatchStates, InList

\* Origins survives when no handler takes up a process.
LEMMA OriginsFrame ==
    ASSUME Origins, UNCHANGED <<state, kmNew, kmRead, ioReq>>,
           \A c \in Cpu : Held(c)' => thr'[c] = thr[c]
    PROVE  Origins'
<1>1. \A c \in Cpu : Held(c)' => Held(c)
  BY DEF Held, Frees
<1> QED BY <1>1 DEF Origins, Awaited, Held, Frees

\* One process changes state, together with its CPU and the lists it is in.
LEMMA ListsMove ==
    ASSUME ProcTypes, Lists, NEW p \in Proc, NEW s \in States, state' = [state EXCEPT ![p] = s],
           NEW c \in Cpu \cup {NoCpu}, cpu' = [cpu EXCEPT ![p] = c], c # NoCpu <=> s = "EXEC",
           c # NoCpu => Unassigned(c),
           \A q \in Proc : InList(exec', q) <=> IF q = p THEN s = "EXEC" ELSE InList(exec, q),
           \A i, j \in DOMAIN exec' : exec'[i] = exec'[j] => i = j,
           \A q \in Proc : InList(listed', q) <=>
               IF q = p THEN s \notin {"NONE", "ASSIGNED"} ELSE InList(listed, q),
           IF s = "READY" THEN QueuedOnceAt(readyQ', p, Priority[p]) ELSE NotQueued(readyQ', p),
           \A q \in Proc : q # p =>
               /\ NotQueued(readyQ, q) => NotQueued(readyQ', q)
               /\ QueuedOnceAt(readyQ, q, Priority[q]) => QueuedOnceAt(readyQ', q, Priority[q])
    PROVE  Lists'
<1>1. state'[p] = s /\ cpu'[p] = c /\ \A q \in Proc : q # p => state'[q] = state[q] /\ cpu'[q] = cpu[q]
  BY DEF ProcTypes
<1>2. \A q \in Proc : (cpu'[q] # NoCpu <=> state'[q] = "EXEC") /\ (InList(exec', q) <=> state'[q] = "EXEC")
  BY <1>1 DEF Lists, ExecList
<1>3. \A q, r \in Proc : cpu'[q] = cpu'[r] /\ cpu'[q] # NoCpu => q = r
  BY <1>1 DEF Lists, ExecList, Unassigned
<1>4. ListedProcs'
  BY <1>1 DEF Lists, ListedProcs
<1>5. ReadyQueuesMatchStates'
  BY <1>1 DEF Lists, ReadyQueuesMatchStates
<1> QED BY <1>2, <1>3, <1>4, <1>5 DEF Lists, ExecList

\* A process that nobody awaits changes state.
LEMMA OriginsMove ==
    ASSUME Origins, NEW p \in Proc, \A q \in Proc : q # p => state'[q] = state[q],
           kmNew \subseteq Proc, Awaited \subseteq Proc,
           kmNew' \subseteq kmNew \ {p}, ioReq' \subseteq ioReq \ {p} /\ kmRead' \subseteq kmRead \ {p},
           \A c \in Cpu : Held(c)' => thr'[c] = thr[c] /\ thr[c].pid \in Proc \ {p}
    PROVE  Origins'
<1>1. \A c \in Cpu : Held(c)' => Held(c)
  BY DEF Held, Frees
<1> QED BY <1>1 DEF Origins, Awaited, Held, Frees

\* sem_post respects the bound on short_term_scheduler_sem.
LEMMA SemPost == ThrTypes /\ sem_post => stsSem' \in 0 .. MaxWakeups
BY DispatchAssumption DEF ThrTypes, sem_post

\* A thread goes to a place; the others stay where they are.
LEMMA GotoType ==
    ASSUME ThrTypes, NEW t \in Threads, NEW at \in Places, NEW p \in Proc \cup {NoProc},
           NEW c \in Cpu \cup {NoCpu}, Goto(t, Local(at, p, c))
    PROVE  /\ thr' \in [Threads -> [at : Places, pid : Proc \cup {NoProc}, cpu : Cpu \cup {NoCpu}]]
           /\ thr'[t].at = at /\ thr'[t].pid = p /\ thr'[t].cpu = c
           /\ \A u \in Threads : u # t => thr'[u] = thr[u]
<1>1. Local(at, p, c) \in [at : Places, pid : Proc \cup {NoProc}, cpu : Cpu \cup {NoCpu}]
  BY DEF Local
<1>2. /\ thr' \in [Threads -> [at : Places, pid : Proc \cup {NoProc}, cpu : Cpu \cup {NoCpu}]]
      /\ thr'[t] = Local(at, p, c) /\ \A u \in Threads : u # t => thr'[u] = thr[u]
  BY <1>1 DEF Goto, ThrTypes
<1> QED BY <1>2 DEF Local

\* Only the short-term scheduler or the quantum manager moves.
LEMMA SchedulerFrame ==
    ASSUME IndInv, ThrTypes', SchedArgs', NEW t \in {"STS", "QM"},
           \A u \in Threads : u # t => thr'[u] = thr[u],
           t = "STS" /\ Sends(t)' =>
               Sends(t) /\ thr'[t].pid = thr[t].pid /\ thr'[t].cpu = thr[t].cpu,
           UNCHANGED <<procVars, cpuVars, netVars, canSchedule, comp, extVars>>
    PROVE  IndInv'
<1> USE CpuNames DEF procVars, cpuVars, netVars, extVars
<1>1. Types'
  BY DEF IndInv, Types, ProcTypes, CpuTypes, NetTypes, Quiet
<1>2. ASSUME NEW c \in Cpu PROVE CpuInv(c)'
  <2>1. StsSends(c)' => StsSends(c) /\ thr'["STS"].pid = thr["STS"].pid
    BY DEF StsSends, Sends
  <2>2. thr'[c] = thr[c]
    OBVIOUS
  <2> QED BY <2>1, <2>2, CpuFrame DEF IndInv, Cpus, CpuPart
<1>3. Lists'
  BY ListsFrame DEF IndInv
<1>4. Origins'
  BY OriginsFrame DEF IndInv
<1> QED BY <1>1, <1>2, <1>3, <1>4 DEF IndInv, Cpus

-----------------------------------------------------------------------------
\* A process in EXEC has a CPU that is still known to the scheduler.
LEMMA AssignedIsConnected ==
    ASSUME IndInv, NEW p \in Proc, state[p] = "EXEC"
    PROVE  cpu[p] \in Cpu /\ connected[cpu[p]] \notin {"no", "gone"}
<1>1. cpu[p] \in Cpu
  BY DEF IndInv, Lists, ExecList, Types, ProcTypes
<1> QED BY <1>1 DEF IndInv, Cpus, CpuInv, Connection, Unassigned

\* short_term_scheduler_main: waking up, ...
LEMMA KeepStsWake == IndInv /\ StsWake => IndInv'
<1> SUFFICES ASSUME IndInv, StsWake PROVE IndInv'
  OBVIOUS
<1> USE CpuNames, QueueAssumption
<1>0. stsSem > 0 /\ stsSem' = stsSem - 1 /\ stsSem \in 0 .. MaxWakeups
  BY DEF StsWake, IndInv, Types, ThrTypes
<1>1. /\ Goto("STS", Local("loop", NoProc, NoCpu)) /\ stsSem' \in 0 .. MaxWakeups
      /\ UNCHANGED <<procVars, cpuVars, netVars, canSchedule, comp, extVars>>
  <2>1. Goto("STS", Home("STS"))
    BY DEF StsWake, IndInv, Types, Quiet
  <2>2. stsSem' \in 0 .. MaxWakeups
    BY <1>0, DispatchAssumption
  <2> QED BY <2>1, <2>2, HomeValues DEF StsWake
<1>2. /\ thr' \in [Threads -> [at : Places, pid : Proc \cup {NoProc}, cpu : Cpu \cup {NoCpu}]]
      /\ thr'["STS"].at = "loop" /\ \A u \in Threads : u # "STS" => thr'[u] = thr[u]
  BY <1>1, GotoType DEF IndInv, Types, Places
<1>3. SchedArgs'
  BY <1>1, <1>2 DEF IndInv, Cpus, SchedArgs, Sends, cpuVars
<1> QED BY <1>1, <1>2, <1>3, SchedulerFrame DEF ThrTypes, Sends

\* ... finding nothing to dispatch, or a process to preempt; its victim is a
\* process of exec_processes by LowestIsListed.
LEMMA KeepStsNothing == IndInv /\ StsNothingToDispatch => IndInv'
<1> SUFFICES ASSUME IndInv, StsNothingToDispatch PROVE IndInv'
  OBVIOUS
<1> USE CpuNames, QueueAssumption
<1> DEFINE low == get_lowest_priority_process(exec, Priority)
<1>1. UNCHANGED <<procVars, cpuVars, netVars, stsSem, canSchedule, comp, extVars>>
  BY DEF StsNothingToDispatch
<1>2. CASE Goto("STS", Local("wait", NoProc, NoCpu))
  <2>1. /\ thr' \in [Threads -> [at : Places, pid : Proc \cup {NoProc}, cpu : Cpu \cup {NoCpu}]]
        /\ thr'["STS"].at = "wait" /\ \A u \in Threads : u # "STS" => thr'[u] = thr[u]
    BY <1>2, GotoType DEF IndInv, Types, Places
  <2>2. SchedArgs'
    BY <1>1, <2>1 DEF IndInv, Cpus, SchedArgs, Sends, cpuVars
  <2> QED BY <1>1, <2>1, <2>2, SchedulerFrame DEF ThrTypes, Sends, IndInv, Types
<1>3. CASE low # NoProc /\ Goto("STS", Local("evict", low, cpu[low]))
  <2>1. exec # <<>>
    BY <1>3 DEF get_lowest_priority_process
  <2>2. PICK i \in DOMAIN exec : low = exec[i]
    BY <2>1, LowestIsListed, DispatchAssumption DEF IndInv, Types, ProcTypes
  <2> HIDE DEF low
  <2>3. low \in Proc /\ state[low] = "EXEC"
    BY <2>2 DEF IndInv, Types, ProcTypes, Lists, ExecList, InList
  <2>4. cpu[low] \in Cpu /\ connected[cpu[low]] # "no"
    BY <2>3, AssignedIsConnected
  <2>5. /\ thr' \in [Threads -> [at : Places, pid : Proc \cup {NoProc}, cpu : Cpu \cup {NoCpu}]]
        /\ thr'["STS"].at = "evict" /\ thr'["STS"].cpu = cpu[low]
        /\ \A u \in Threads : u # "STS" => thr'[u] = thr[u]
    BY <1>3, <2>3, <2>4, GotoType DEF IndInv, Types, Places
  <2>6. SchedArgs'
    BY <1>1, <2>4, <2>5 DEF IndInv, Cpus, SchedArgs, Sends, cpuVars
  <2> QED BY <1>1, <2>5, <2>6, SchedulerFrame DEF ThrTypes, Sends, IndInv, Types
<1> QED BY <1>2, <1>3 DEF StsNothingToDispatch

\* quantum_manager: the process whose quantum expired still has its CPU.
LEMMA KeepQuantum == IndInv /\ QuantumStep => IndInv'
<1> SUFFICES ASSUME IndInv, QuantumStep PROVE IndInv'
  OBVIOUS
<1> USE CpuNames, QueueAssumption
<1>1. UNCHANGED <<procVars, cpuVars, netVars, stsSem, canSchedule, comp, extVars>>
  BY DEF QuantumStep, QuantumWake, QuantumExpired, QuantumScanned
<1>2. ASSUME NEW at \in {"idle", "scan"}, Goto("QM", Local(at, NoProc, NoCpu)) PROVE IndInv'
  <2>1. /\ thr' \in [Threads -> [at : Places, pid : Proc \cup {NoProc}, cpu : Cpu \cup {NoCpu}]]
        /\ thr'["QM"].at = at /\ \A u \in Threads : u # "QM" => thr'[u] = thr[u]
    BY <1>2, GotoType DEF IndInv, Types, Places
  <2>2. SchedArgs'
    BY <1>1, <2>1 DEF IndInv, Cpus, SchedArgs, Sends, cpuVars
  <2> QED BY <1>1, <2>1, <2>2, SchedulerFrame DEF ThrTypes, Sends, IndInv, Types
<1>3. ASSUME NEW p \in Proc, QuantumExpired(p) PROVE IndInv'
  <2>1. state[p] = "EXEC" /\ Goto("QM", Local("evict", p, cpu[p]))
    BY <1>3 DEF QuantumExpired
  <2>2. cpu[p] \in Cpu /\ connected[cpu[p]] # "no"
    BY <2>1, AssignedIsConnected
  <2>3. /\ thr' \in [Threads -> [at : Places, pid : Proc \cup {NoProc}, cpu : Cpu \cup {NoCpu}]]
        /\ thr'["QM"].at = "evict" /\ thr'["QM"].cpu = cpu[p]
        /\ \A u \in Threads : u # "QM" => thr'[u] = thr[u]
    BY <2>1, <2>2, GotoType DEF IndInv, Types, Places
  <2>4. SchedArgs'
    BY <1>1, <2>2, <2>3 DEF IndInv, Cpus, SchedArgs, Sends, cpuVars
  <2> QED BY <1>1, <2>3, <2>4, SchedulerFrame DEF ThrTypes, Sends, IndInv, Types
<1> QED BY <1>2, <1>3 DEF QuantumStep, QuantumWake, QuantumScanned

-----------------------------------------------------------------------------
\* A step that concerns c leaves the other CPUs alone.
LEMMA OtherCpus ==
    ASSUME IndInv, NEW c \in Cpu, NEW d \in Cpu, d # c, UNCHANGED CpuPart(d),
           UNCHANGED cpu, UNCHANGED thr["STS"]
    PROVE  CpuInv(d)'
BY CpuFrame DEF IndInv, Cpus, StsSends, Sends

\* A CPU connects.
LEMMA KeepConnect ==
    ASSUME IndInv, NEW c \in Cpu, CpuConnect(c)
    PROVE  IndInv'
<1> USE CpuNames DEF procVars, cpuVars, netVars, extVars
<1>1. /\ connected[c] = "no" /\ connected' = [connected EXCEPT ![c] = "yes"]
      /\ available' = [available EXCEPT ![c] = TRUE] /\ stsSem' \in 0 .. MaxWakeups
      /\ UNCHANGED <<procVars, evicting, response, waiters, netVars, thr, canSchedule, comp, extVars>>
  BY SemPost DEF CpuConnect, IndInv, Types
<1>2. /\ connected'[c] = "yes" /\ available'[c] = TRUE
      /\ \A d \in Cpu : d # c => connected'[d] = connected[d] /\ available'[d] = available[d]
  BY <1>1 DEF IndInv, Types, CpuTypes
<1>3. Types'
  BY <1>1 DEF IndInv, Types, ProcTypes, CpuTypes, NetTypes, ThrTypes, Quiet
<1>4. SchedArgs'
  BY <1>1, <1>2 DEF IndInv, Cpus, SchedArgs, Sends, Types, ThrTypes
<1>5. ASSUME NEW d \in Cpu, d # c PROVE CpuInv(d)'
  BY <1>1, <1>2, <1>5, OtherCpus DEF CpuPart
<1>6. CpuInv(c)'
  BY <1>1, <1>2 DEF IndInv, Cpus, CpuInv, HandlerArgs, Assigned, Exclusive,
      Connection, Avail, Eviction,
     StsSends, Sends, NoOrder, NoYield, NoEvict, NoConfirm, Unassigned, Frees
<1>7. Lists' /\ Origins'
  BY <1>1, ListsFrame, OriginsFrame DEF IndInv
<1> QED BY <1>3, <1>4, <1>5, <1>6, <1>7 DEF IndInv, Cpus

\* A CPU is lost: the orders it did not read are lost with it.
LEMMA KeepCrash ==
    ASSUME IndInv, NEW c \in Cpu, CpuCrash(c)
    PROVE  IndInv'
<1> USE CpuNames DEF procVars, cpuVars, netVars, extVars
<1>1. /\ connected[c] = "yes" /\ connected' = [connected EXCEPT ![c] = "lost"]
      /\ running' = [running EXCEPT ![c] = NoProc] /\ toCpu' = [toCpu EXCEPT ![c] = <<>>]
      /\ UNCHANGED <<procVars, available, evicting, response, waiters, fromCpu, thr, stsSem,
                     canSchedule, comp, extVars>>
  BY DEF CpuCrash
<1>2. /\ connected'[c] = "lost" /\ running'[c] = NoProc /\ toCpu'[c] = <<>>
      /\ \A d \in Cpu : d # c => connected'[d] = connected[d] /\ running'[d] = running[d]
                                 /\ toCpu'[d] = toCpu[d]
  BY <1>1 DEF IndInv, Types, CpuTypes, NetTypes
<1>3. Types'
  BY <1>1 DEF IndInv, Types, ProcTypes, CpuTypes, NetTypes, ThrTypes, Quiet
<1>4. SchedArgs'
  BY <1>1, <1>2 DEF IndInv, Cpus, SchedArgs, Sends, Types, ThrTypes
<1>5. ASSUME NEW d \in Cpu, d # c PROVE CpuInv(d)'
  BY <1>1, <1>2, <1>5, OtherCpus DEF CpuPart
<1>6. CpuInv(c)'
  BY <1>1, <1>2 DEF IndInv, Cpus, CpuInv, HandlerArgs, Assigned, Exclusive,
      Connection, Avail, Eviction,
     StsSends, Sends, NoOrder, NoYield, NoEvict, NoConfirm, Unassigned, Frees
<1>7. Lists' /\ Origins'
  BY <1>1, ListsFrame, OriginsFrame DEF IndInv
<1> QED BY <1>3, <1>4, <1>5, <1>6, <1>7 DEF IndInv, Cpus

-----------------------------------------------------------------------------
\* Steps of the CPU itself touch its socket and what it runs only.
LEMMA CpuSideFrame ==
    ASSUME IndInv, NEW c \in Cpu, NetTypes', running' \in [Cpu -> Proc \cup {NoProc}],
           \A d \in Cpu : d # c => /\ toCpu'[d] = toCpu[d] /\ fromCpu'[d] = fromCpu[d]
                                   /\ running'[d] = running[d],
           UNCHANGED <<procVars, cpuVars, thr, stsSem, canSchedule, comp, extVars>>,
           Assigned(c)', Exclusive(c)', Eviction(c)',
           connected[c] = "yes"
    PROVE  IndInv'
<1> USE CpuNames DEF procVars, cpuVars, extVars
<1>1. Types'
  BY DEF IndInv, Types, ProcTypes, CpuTypes, ThrTypes, Quiet
<1>2. SchedArgs'
  BY DEF IndInv, Cpus, SchedArgs, Sends
<1>3. ASSUME NEW d \in Cpu, d # c PROVE CpuInv(d)'
  BY <1>3, OtherCpus DEF CpuPart
<1>4. CpuInv(c)'
  BY DEF IndInv, Cpus, CpuInv, HandlerArgs, Connection, Avail, Sends, Unassigned, Frees
<1>5. Lists' /\ Origins'
  BY ListsFrame, OriginsFrame DEF IndInv
<1> QED BY <1>1, <1>2, <1>3, <1>4, <1>5 DEF IndInv, Cpus

\* The CPU obeys PROCESS_EXECUTE.
LEMMA KeepExecute ==
    ASSUME IndInv, NEW c \in Cpu, CpuExecute(c)
    PROVE  IndInv'
<1> USE CpuNames DEF procVars, cpuVars, netVars, extVars
<1> DEFINE s == toCpu[c]
<1>1. /\ s # <<>> /\ Head(s).op = "PROCESS_EXECUTE" /\ running[c] = NoProc
      /\ running' = [running EXCEPT ![c] = Head(s).pid] /\ toCpu' = [toCpu EXCEPT ![c] = Tail(s)]
      /\ UNCHANGED <<procVars, cpuVars, fromCpu, thr, stsSem, canSchedule, comp, extVars>>
  BY DEF CpuExecute
<1>2. s \in Seq(CpuOrders)
  BY DEF IndInv, Types, NetTypes
<1>3. /\ Tail(s) \in Seq(CpuOrders) /\ Len(Tail(s)) = Len(s) - 1 /\ Len(s) \in Nat
      /\ 1 \in DOMAIN s /\ Head(s) = s[1] /\ s[1] \in CpuOrders
      /\ \A i \in DOMAIN Tail(s) : i + 1 \in DOMAIN s /\ i + 1 # 1 /\ i \in Nat /\ Tail(s)[i] = s[i + 1]
      /\ \A i \in DOMAIN s : i # 1 => i - 1 \in DOMAIN Tail(s) /\ Tail(s)[i - 1] = s[i]
  BY <1>1, <1>2, ListTail
<1>4. s[1].op = "PROCESS_EXECUTE" /\ s[1].pid \in Proc
  BY <1>1, <1>3 DEF CpuOrders
<1>5. /\ toCpu' \in [Cpu -> Seq(CpuOrders)] /\ running' \in [Cpu -> Proc \cup {NoProc}]
      /\ toCpu'[c] = Tail(s) /\ running'[c] = s[1].pid
      /\ \A d \in Cpu : d # c => toCpu'[d] = toCpu[d] /\ running'[d] = running[d]
  BY <1>1, <1>3, <1>4 DEF IndInv, Types, CpuTypes, NetTypes
<1> HIDE DEF s
<1>6. CpuInv(c) /\ s = toCpu[c]
  BY DEF IndInv, Cpus, s
<1>7. connected[c] = "yes"
  BY <1>1, <1>6 DEF CpuInv, Connection
<1>8. /\ ~StsSends(c) /\ ~Sends(c) /\ NoYield(c) /\ cpu[s[1].pid] = c
      /\ NoConfirm(c) /\ response[c] = 0
  <2>1. ~NoOrder(c)
    BY <1>3, <1>4, <1>6 DEF NoOrder
  <2> QED BY <1>1, <1>3, <1>4, <1>6, <2>1 DEF CpuInv, Exclusive, Assigned, Eviction,
      NoConfirm
<1>9. NoOrder(c)'
  BY <1>3, <1>4, <1>5, <1>6 DEF NoOrder, CpuInv, Exclusive
<1>10. StsSends(c)' = StsSends(c) /\ Sends(c)' = Sends(c) /\ NoYield(c)' = NoYield(c)
       /\ NoConfirm(c)' = NoConfirm(c)
  BY <1>1 DEF StsSends, Sends, NoYield, NoConfirm
<1>11. Assigned(c)'
  BY <1>1, <1>5, <1>8, <1>9, <1>10 DEF Assigned, NoOrder, NoYield
<1>12. Exclusive(c)'
  BY <1>1, <1>8, <1>9, <1>10 DEF Exclusive, NoOrder, NoYield
<1>13. /\ NoEvict(c)' = NoEvict(c)
       /\ \A i \in DOMAIN toCpu'[c] : toCpu'[c][i].op = "PROCESS_EVICT" => i = Len(toCpu'[c])
  <2>1. \A i \in DOMAIN toCpu'[c] : toCpu'[c][i].op = "PROCESS_EVICT" => i = Len(toCpu'[c])
    BY <1>3, <1>5, <1>6 DEF CpuInv, Eviction
  <2>2. ASSUME NEW i \in DOMAIN s, s[i].op = "PROCESS_EVICT"
        PROVE  ~NoEvict(c)'
    <3>1. i # 1
      BY <1>4, <2>2
    <3>2. i - 1 \in DOMAIN toCpu'[c] /\ toCpu'[c][i - 1].op = "PROCESS_EVICT"
      BY <1>3, <1>5, <2>2, <3>1
    <3> QED BY <3>2 DEF NoEvict
  <2>3. NoEvict(c) => NoEvict(c)'
    BY <1>3, <1>5, <1>6 DEF NoEvict
  <2> QED BY <1>6, <2>1, <2>2, <2>3 DEF NoEvict
<1>14. Eviction(c)'
  BY <1>1, <1>6, <1>8, <1>10, <1>13 DEF CpuInv, Eviction, NoConfirm
<1> QED BY <1>1, <1>5, <1>7, <1>11, <1>12, <1>14, CpuSideFrame DEF IndInv, Types,
    NetTypes

\* The CPU obeys PROCESS_EVICT, which is the last order it was sent.
LEMMA KeepEvict ==
    ASSUME IndInv, NEW c \in Cpu, CpuEvict(c)
    PROVE  IndInv'
<1> USE CpuNames DEF procVars, cpuVars, netVars, extVars
<1> DEFINE s == toCpu[c]
           m == Message("CONFIRMATION", NoProc)
           f == fromCpu[c]
<1>1. /\ s # <<>> /\ Head(s).op = "PROCESS_EVICT"
      /\ running' = [running EXCEPT ![c] = NoProc] /\ toCpu' = [toCpu EXCEPT ![c] = Tail(s)]
      /\ fromCpu' = [fromCpu EXCEPT ![c] = Append(f, m)]
      /\ UNCHANGED <<procVars, cpuVars, thr, stsSem, canSchedule, comp, extVars>>
  BY DEF CpuEvict, ToScheduler
<1>2. s \in Seq(CpuOrders) /\ f \in Seq(Reports)
  BY DEF IndInv, Types, NetTypes
<1>3. /\ Tail(s) \in Seq(CpuOrders) /\ Len(s) \in Nat
      /\ 1 \in DOMAIN s /\ Head(s) = s[1] /\ (Len(s) = 1 => Tail(s) = <<>>)
  BY <1>1, <1>2, ListTail
<1>4. m.op = "CONFIRMATION" /\ m \in Reports
  BY MessageTypes DEF Message
<1> HIDE DEF m
<1>5. /\ Append(f, m) \in Seq(Reports) /\ Len(Append(f, m)) = Len(f) + 1
      /\ \A i \in DOMAIN f : i \in DOMAIN Append(f, m) /\ Append(f, m)[i] = f[i] /\ i # Len(f) + 1
      /\ \A i \in DOMAIN Append(f, m) : i \in DOMAIN f \/ i = Len(f) + 1
      /\ Len(f) + 1 \in DOMAIN Append(f, m) /\ Append(f, m)[Len(f) + 1] = m
  BY <1>2, <1>4, ListAppend
<1>6. /\ toCpu' \in [Cpu -> Seq(CpuOrders)] /\ running' \in [Cpu -> Proc \cup {NoProc}]
      /\ fromCpu' \in [Cpu -> Seq(Reports)]
      /\ toCpu'[c] = Tail(s) /\ running'[c] = NoProc /\ fromCpu'[c] = Append(f, m)
      /\ \A d \in Cpu : d # c => toCpu'[d] = toCpu[d] /\ running'[d] = running[d]
                                 /\ fromCpu'[d] = fromCpu[d]
  BY <1>1, <1>3, <1>5 DEF IndInv, Types, CpuTypes, NetTypes
<1> HIDE DEF s, f
<1>7. CpuInv(c) /\ s = toCpu[c] /\ f = fromCpu[c]
  BY DEF IndInv, Cpus, s, f
<1>8. connected[c] = "yes"
  BY <1>1, <1>7 DEF CpuInv, Connection
<1>9. Len(s) = 1 /\ NoConfirm(c) /\ response[c] = 0 /\ evicting[c]
  BY <1>1, <1>3, <1>7 DEF CpuInv, Eviction, NoEvict
<1>10. toCpu'[c] = <<>> /\ NoOrder(c)' /\ NoEvict(c)'
  BY <1>3, <1>6, <1>9 DEF NoOrder, NoEvict
<1>11. StsSends(c)' = StsSends(c) /\ Sends(c)' = Sends(c)
  BY <1>1 DEF StsSends, Sends
<1>12. \A i \in DOMAIN fromCpu'[c] : fromCpu'[c][i].op \in Yields =>
          i \in DOMAIN f /\ fromCpu'[c][i] = f[i]
  BY <1>4, <1>5, <1>6 DEF Yields
<1>13. NoYield(c) => NoYield(c)'
  BY <1>7, <1>12 DEF NoYield
<1>14. Assigned(c)'
  BY <1>1, <1>6, <1>7, <1>10, <1>11, <1>12 DEF CpuInv, Assigned
<1>15. Exclusive(c)'
  BY <1>1, <1>6, <1>7, <1>10, <1>11, <1>12, <1>13 DEF CpuInv, Exclusive
<1>16. /\ ~NoConfirm(c)'
       /\ \A i \in DOMAIN fromCpu'[c] : fromCpu'[c][i].op = "CONFIRMATION" => i = Len(fromCpu'[c])
  <2>1. fromCpu'[c][Len(f) + 1].op = "CONFIRMATION" /\ Len(f) + 1 \in DOMAIN fromCpu'[c]
    BY <1>4, <1>5, <1>6
  <2>2. \A i \in DOMAIN f : f[i].op # "CONFIRMATION"
    BY <1>7, <1>9 DEF NoConfirm
  <2> QED BY <1>5, <1>6, <2>1, <2>2 DEF NoConfirm
<1>17. Eviction(c)'
  BY <1>1, <1>6, <1>7, <1>9, <1>10, <1>11, <1>16 DEF CpuInv, Eviction
<1> QED BY <1>1, <1>6, <1>8, <1>14, <1>15, <1>17, CpuSideFrame DEF NetTypes

\* The process makes a syscall: it runs, so no other syscall of the CPU and no
\* confirmation is under way.
LEMMA KeepSyscall ==
    ASSUME Regime, IndInv, NEW c \in Cpu, NEW op \in AllSyscalls, CpuSyscall(c, op)
    PROVE  IndInv'
<1> USE CpuNames DEF procVars, cpuVars, netVars, extVars
<1> DEFINE p == running[c]
           m == Message(op, p)
           f == fromCpu[c]
<1>1. /\ p # NoProc /\ op \in Program[p] /\ fromCpu' = [fromCpu EXCEPT ![c] = Append(f, m)]
      /\ running' = IF op = "PROCESS_CREATE" THEN running ELSE [running EXCEPT ![c] = NoProc]
      /\ UNCHANGED <<procVars, cpuVars, toCpu, thr, stsSem, canSchedule, comp, extVars>>
  BY DEF CpuSyscall, ToScheduler
<1>2. f \in Seq(Reports) /\ p \in Proc
  BY <1>1 DEF IndInv, Types, NetTypes, CpuTypes
<1>3. op \in Yields \cup {"PROCESS_CREATE"}
  BY <1>1, <1>2 DEF Regime, AllSyscalls, Yields
<1>4. m.op = op /\ m.pid = p /\ m \in Reports
  BY <1>2, <1>3, MessageTypes DEF Message
<1> HIDE DEF m
<1>5. /\ Append(f, m) \in Seq(Reports) /\ Len(Append(f, m)) = Len(f) + 1
      /\ \A i \in DOMAIN f : i \in DOMAIN Append(f, m) /\ Append(f, m)[i] = f[i] /\ i # Len(f) + 1
      /\ \A i \in DOMAIN Append(f, m) : i \in DOMAIN f \/ i = Len(f) + 1
      /\ Len(f) + 1 \in DOMAIN Append(f, m) /\ Append(f, m)[Len(f) + 1] = m
  BY <1>2, <1>4, ListAppend
<1>6. /\ running' \in [Cpu -> Proc \cup {NoProc}] /\ fromCpu' \in [Cpu -> Seq(Reports)]
      /\ running'[c] = (IF op = "PROCESS_CREATE" THEN p ELSE NoProc) /\ fromCpu'[c] = Append(f, m)
      /\ \A d \in Cpu : d # c => running'[d] = running[d] /\ fromCpu'[d] = fromCpu[d]
  BY <1>1, <1>5 DEF IndInv, Types, CpuTypes, NetTypes
<1> HIDE DEF f, p
<1>7. CpuInv(c) /\ f = fromCpu[c] /\ p = running[c]
  BY DEF IndInv, Cpus, f, p
<1>8. connected[c] = "yes"
  BY <1>1, <1>7 DEF CpuInv, Connection
<1>9. /\ NoYield(c) /\ NoOrder(c) /\ ~StsSends(c) /\ ~Sends(c) /\ cpu[p] = c
      /\ NoConfirm(c) /\ response[c] = 0
  <2>1. NoYield(c) /\ NoOrder(c) /\ ~StsSends(c) /\ ~Sends(c) /\ cpu[p] = c
    BY <1>1, <1>7 DEF CpuInv, Exclusive, Assigned
  <2>2. NoConfirm(c) /\ response[c] = 0
    BY <1>1, <1>7 DEF CpuInv, Eviction, NoConfirm
  <2> QED BY <2>1, <2>2
<1>10. /\ StsSends(c)' = StsSends(c) /\ Sends(c)' = Sends(c) /\ NoOrder(c)' = NoOrder(c)
       /\ NoEvict(c)' = NoEvict(c)
  BY <1>1 DEF StsSends, Sends, NoOrder, NoEvict
<1>11. \A i \in DOMAIN fromCpu'[c] : fromCpu'[c][i].op \in Yields =>
          i = Len(f) + 1 /\ fromCpu'[c][i] = m /\ op # "PROCESS_CREATE"
  BY <1>4, <1>5, <1>6, <1>7, <1>9 DEF NoYield, Yields
<1>12. NoConfirm(c)'
  BY <1>3, <1>4, <1>5, <1>6, <1>7, <1>9 DEF NoConfirm, Yields
<1>13. running'[c] # NoProc => NoYield(c)'
  BY <1>6, <1>11 DEF NoYield
<1>14. Assigned(c)'
  BY <1>1, <1>4, <1>6, <1>7, <1>9, <1>10, <1>11 DEF CpuInv, Assigned, NoOrder
<1>15. Exclusive(c)'
  BY <1>1, <1>6, <1>7, <1>9, <1>10, <1>11, <1>13 DEF CpuInv, Exclusive
<1>16. Eviction(c)'
  BY <1>1, <1>7, <1>9, <1>10, <1>12 DEF CpuInv, Eviction, NoConfirm
<1> QED BY <1>1, <1>6, <1>8, <1>14, <1>15, <1>16, CpuSideFrame DEF NetTypes, IndInv,
    Types

-----------------------------------------------------------------------------
\* Who may be about to send an order, and who about to evict.
LEMMA Senders ==
    ASSUME IndInv, NEW t \in Threads
    PROVE  /\ Sends(t) => /\ t = "STS" \/ t \in Cpu
                          /\ thr[t].pid \in Proc /\ thr[t].cpu \in Cpu
                          /\ t \in Cpu => thr[t].cpu = t
           /\ thr[t].at = "evict" => t \in {"STS", "QM"}
BY CpuNames DEF Threads, IndInv, Cpus, SchedArgs, CpuInv, HandlerArgs, Sends, Types,
    Quiet

\* A step touches one CPU and the thread of its handler only.
LEMMA OneCpuFrame ==
    ASSUME IndInv, NEW c \in Cpu, Types', CpuInv(c)', Lists', Origins',
           thr'["STS"] = thr["STS"], thr'["QM"] = thr["QM"],
           \A d \in Cpu : connected[d] # "no" => connected'[d] # "no",
           \A d \in Cpu : d # c => UNCHANGED CpuPart(d),
           \A d \in Cpu : \A p \in Proc : d # c => (cpu'[p] = d <=> cpu[p] = d)
    PROVE  IndInv'
<1>1. SchedArgs'
  BY DEF IndInv, Cpus, SchedArgs, Sends
<1>2. ASSUME NEW d \in Cpu, d # c PROVE CpuInv(d)'
  <2>1. StsSends(d)' => StsSends(d) /\ thr'["STS"].pid = thr["STS"].pid
    BY DEF StsSends, Sends
  <2> QED BY <1>2, <2>1, CpuFrame DEF IndInv, Cpus
<1> QED BY <1>1, <1>2 DEF IndInv, Cpus

\* The test of is_evicting, by the short-term scheduler ...
LEMMA KeepSendCheckSts == IndInv /\ SendCheck("STS") => IndInv'
<1> SUFFICES ASSUME IndInv, SendCheck("STS") PROVE IndInv'
  OBVIOUS
<1> USE CpuNames DEF procVars, cpuVars, netVars, extVars
<1> DEFINE c == thr["STS"].cpu
           loc == IF evicting[c] THEN Home("STS") ELSE [thr["STS"] EXCEPT !.at = "send"]
<1>1. thr["STS"].at = "check" /\ UNCHANGED <<procVars, cpuVars, netVars, stsSem, canSchedule, comp, extVars>>
  BY DEF SendCheck
<1>2. thr["STS"].pid \in Proc /\ c \in Cpu
  BY <1>1, Senders DEF Sends
<1>3. thr' = [thr EXCEPT !["STS"] = loc]
  BY <1>2 DEF SendCheck, Goto
<1>4. loc \in [at : Places, pid : Proc \cup {NoProc}, cpu : Cpu \cup {NoCpu}]
  BY <1>2, HomeValues DEF Places, Local, Idle, IndInv, Types, ThrTypes
<1>5. /\ thr' \in [Threads -> [at : Places, pid : Proc \cup {NoProc}, cpu : Cpu \cup {NoCpu}]]
      /\ thr'["STS"] = loc /\ \A u \in Threads : u # "STS" => thr'[u] = thr[u]
  BY <1>3, <1>4 DEF IndInv, Types, ThrTypes
<1>6. /\ ~evicting[c] => /\ thr'["STS"].at = "send" /\ thr'["STS"].pid = thr["STS"].pid
                         /\ thr'["STS"].cpu = c
      /\ evicting[c] => thr'["STS"] = Home("STS")
  BY <1>5 DEF IndInv, Types, ThrTypes
<1> HIDE DEF loc, c
<1>7. /\ thr'["STS"].at \in {"send", "loop"}
      /\ thr'["STS"].at = "send" => thr'["STS"].pid = thr["STS"].pid /\ thr'["STS"].cpu = c
  BY <1>6, HomeValues DEF Local
<1>8. SchedArgs'
  BY <1>1, <1>2, <1>5, <1>7 DEF IndInv, Cpus, SchedArgs, Sends
<1> QED BY <1>1, <1>5, <1>7, <1>8, SchedulerFrame DEF ThrTypes, IndInv, Types, Sends, c

\* ... and by a handler.
LEMMA KeepSendCheckHandler ==
    ASSUME IndInv, NEW c \in Cpu, SendCheck(c)
    PROVE  IndInv'
<1> USE CpuNames DEF procVars, cpuVars, netVars, extVars
<1> DEFINE loc == IF evicting[c] THEN Home(c) ELSE [thr[c] EXCEPT !.at = "send"]
<1>1. thr[c].at = "check" /\ UNCHANGED <<procVars, cpuVars, netVars, stsSem, canSchedule, comp, extVars>>
  BY DEF SendCheck
<1>2. thr[c].pid \in Proc /\ thr[c].cpu = c
  BY <1>1, Senders DEF Sends
<1>3. thr' = [thr EXCEPT ![c] = loc]
  BY <1>2 DEF SendCheck, Goto
<1>4. loc \in [at : Places, pid : Proc \cup {NoProc}, cpu : Cpu \cup {NoCpu}]
  BY <1>2, HomeValues DEF Places, Local, Idle, IndInv, Types, ThrTypes
<1>5. /\ thr' \in [Threads -> [at : Places, pid : Proc \cup {NoProc}, cpu : Cpu \cup {NoCpu}]]
      /\ thr'[c] = loc /\ \A u \in Threads : u # c => thr'[u] = thr[u]
  BY <1>3, <1>4 DEF IndInv, Types, ThrTypes
<1>6. /\ ~evicting[c] => thr'[c].at = "send" /\ thr'[c].pid = thr[c].pid /\ thr'[c].cpu = c
      /\ evicting[c] => thr'[c] = Home(c)
  BY <1>2, <1>5 DEF IndInv, Types, ThrTypes
<1> HIDE DEF loc
<1>7. thr'["STS"] = thr["STS"] /\ thr'["QM"] = thr["QM"] /\ thr'["KM"] = thr["KM"]
  BY <1>5
<1>8. /\ thr'[c].at \in {"idle", "send"}
      /\ thr'[c].at = "send" => ~evicting[c] /\ thr'[c].pid = thr[c].pid /\ thr'[c].cpu = c
  <2>1. CASE evicting[c]
    BY <1>6, <2>1, HomeValues DEF Idle, Local
  <2>2. CASE ~evicting[c]
    BY <1>6, <2>2
  <2> QED BY <2>1, <2>2
<1>9. Types'
  BY <1>1, <1>5, <1>7 DEF IndInv, Types, ProcTypes, CpuTypes, NetTypes, ThrTypes, Quiet
<1>10. CpuInv(c) /\ Sends(c)
  BY <1>1 DEF IndInv, Cpus, Sends
<1>11. /\ StsSends(c)' = StsSends(c) /\ NoOrder(c)' = NoOrder(c) /\ NoYield(c)' = NoYield(c)
       /\ NoEvict(c)' = NoEvict(c) /\ NoConfirm(c)' = NoConfirm(c) /\ Unassigned(c)' = Unassigned(c)
       /\ Sends(c)' => thr'[c].at = "send"
  BY <1>1, <1>7, <1>8 DEF StsSends, Sends, NoOrder, NoYield, NoEvict, NoConfirm,
      Unassigned
<1>12. HandlerArgs(c)' /\ Assigned(c)' /\ Exclusive(c)'
  BY <1>1, <1>2, <1>7, <1>8, <1>10, <1>11 DEF CpuInv, HandlerArgs, Assigned, Exclusive
<1>13. Connection(c)' /\ Avail(c)'
  BY <1>1, <1>8, <1>10, <1>11 DEF CpuInv, Connection, Avail, Frees
<1>14. Eviction(c)'
  BY <1>1, <1>8, <1>10, <1>11 DEF CpuInv, Eviction
<1>15. Lists'
  BY <1>1, ListsFrame DEF IndInv
<1>16. Origins'
  <2>1. \A d \in Cpu : Held(d)' => thr'[d] = thr[d]
    BY <1>5, <1>8 DEF Held, Frees
  <2> QED BY <1>1, <2>1, OriginsFrame DEF IndInv
<1>17. CpuInv(c)'
  BY <1>12, <1>13, <1>14 DEF CpuInv
<1>18. \A d \in Cpu : d # c => UNCHANGED CpuPart(d)
  BY <1>1, <1>5 DEF CpuPart
<1> QED BY <1>1, <1>7, <1>9, <1>15, <1>16, <1>17, <1>18, OneCpuFrame

\* PROCESS_EXECUTE reaches a connected CPU that runs nothing.
LEMMA OrderSent ==
    ASSUME IndInv, NEW c \in Cpu, NEW p \in Proc, cpu[p] = c, connected[c] = "yes", NoOrder(c),
           running[c] = NoProc, NoYield(c), ~evicting[c],
           toCpu' = [toCpu EXCEPT ![c] = Append(@, Message("PROCESS_EXECUTE", p))],
           ~StsSends(c)', ~Sends(c)', thr'[c] = thr[c] \/ thr'[c].at = "idle",
           UNCHANGED <<cpu, connected, available, evicting, response, waiters, fromCpu, running>>
    PROVE  /\ CpuInv(c)'
           /\ toCpu' \in [Cpu -> Seq(CpuOrders)] /\ \A d \in Cpu : d # c => toCpu'[d] = toCpu[d]
<1> DEFINE s == toCpu[c]
           m == Message("PROCESS_EXECUTE", p)
<1>1. s \in Seq(CpuOrders) /\ m \in CpuOrders /\ m.op = "PROCESS_EXECUTE" /\ m.pid = p
  BY MessageTypes DEF IndInv, Types, NetTypes, Message
<1> HIDE DEF m
<1>2. /\ Append(s, m) \in Seq(CpuOrders) /\ Len(Append(s, m)) = Len(s) + 1
      /\ \A i \in DOMAIN s : i \in DOMAIN Append(s, m) /\ Append(s, m)[i] = s[i] /\ i # Len(s) + 1
      /\ \A i \in DOMAIN Append(s, m) : i \in DOMAIN s \/ i = Len(s) + 1
      /\ Len(s) + 1 \in DOMAIN Append(s, m) /\ Append(s, m)[Len(s) + 1] = m
  BY <1>1, ListAppend
<1>3. /\ toCpu' \in [Cpu -> Seq(CpuOrders)] /\ \A d \in Cpu : d # c => toCpu'[d] = toCpu[d]
      /\ toCpu'[c] = Append(s, m)
  BY <1>2 DEF IndInv, Types, NetTypes, m
<1> HIDE DEF s
<1>4. CpuInv(c) /\ s = toCpu[c]
  BY DEF IndInv, Cpus, s
<1>5. \A i \in DOMAIN toCpu'[c] : toCpu'[c][i].op = "PROCESS_EXECUTE" => i = Len(s) + 1 /\ toCpu'[c][i] = m
  BY <1>2, <1>3, <1>4 DEF NoOrder
<1>6. NoEvict(c) /\ NoConfirm(c) /\ response[c] = 0
  BY <1>4 DEF CpuInv, Eviction
<1>7. NoEvict(c)' /\ NoYield(c)' /\ NoConfirm(c)'
  BY <1>1, <1>2, <1>3, <1>4, <1>6 DEF NoEvict, NoYield, NoConfirm
<1>8. HandlerArgs(c)' /\ Connection(c)'
  BY <1>4 DEF CpuInv, HandlerArgs, Connection, Sends, Unassigned
<1>9. Avail(c)'
  BY <1>4 DEF CpuInv, Avail, Unassigned, Frees
<1>10. Assigned(c)' /\ Exclusive(c)'
  BY <1>1, <1>3, <1>5, <1>7 DEF Assigned, Exclusive, NoYield
<1>11. Eviction(c)'
  BY <1>4, <1>6, <1>7 DEF CpuInv, Eviction, NoEvict, NoConfirm
<1> QED BY <1>3, <1>8, <1>9, <1>10, <1>11 DEF CpuInv

\* PROCESS_EXECUTE leaves, whether the CPU is still there or not.
LEMMA OrderEffect ==
    ASSUME IndInv, NEW c \in Cpu, NEW p \in Proc, StsSends(c) \/ Sends(c), ~evicting[c],
           connected[c] = "yes" => cpu[p] = c,
           Transmit(c, Message("PROCESS_EXECUTE", p)),
           ~StsSends(c)', ~Sends(c)', thr'[c] = thr[c] \/ thr'[c].at = "idle",
           UNCHANGED <<cpu, connected, available, evicting, response, waiters, fromCpu, running>>
    PROVE  /\ CpuInv(c)'
           /\ toCpu' \in [Cpu -> Seq(CpuOrders)] /\ \A d \in Cpu : d # c => toCpu'[d] = toCpu[d]
<1>1. CpuInv(c)
  BY DEF IndInv, Cpus
<1>2. NoOrder(c) /\ running[c] = NoProc /\ NoYield(c)
  BY <1>1 DEF CpuInv, Exclusive
<1>3. CASE connected[c] = "yes"
  <2>1. toCpu' = [toCpu EXCEPT ![c] = Append(@, Message("PROCESS_EXECUTE", p))]
    BY <1>3 DEF Transmit
  <2> QED BY <1>2, <1>3, <2>1, OrderSent
<1>4. CASE connected[c] # "yes"
  <2>1. toCpu' = toCpu
    BY <1>4 DEF Transmit
  <2>2. /\ NoOrder(c)' = NoOrder(c) /\ NoYield(c)' = NoYield(c)
        /\ NoEvict(c)' = NoEvict(c) /\ NoConfirm(c)' = NoConfirm(c) /\ Unassigned(c)' = Unassigned(c)
    BY <2>1 DEF NoOrder, NoYield, NoEvict, NoConfirm, Unassigned
  <2>3. HandlerArgs(c)'
    BY <1>1 DEF CpuInv, HandlerArgs, Sends
  <2>4. Assigned(c)'
    BY <1>1, <2>1 DEF CpuInv, Assigned
  <2>5. Exclusive(c)'
    BY <1>1, <2>1, <2>2 DEF CpuInv, Exclusive
  <2>6. Connection(c)' /\ Avail(c)'
    BY <1>1, <2>1, <2>2 DEF CpuInv, Connection, Avail, Frees
  <2>7. Eviction(c)'
    BY <1>1, <2>1, <2>2 DEF CpuInv, Eviction
  <2> QED BY <2>1, <2>3, <2>4, <2>5, <2>6, <2>7 DEF CpuInv, IndInv, Types, NetTypes
<1> QED BY <1>3, <1>4

\* The order is sent, by the short-term scheduler ...
LEMMA KeepSendExecuteSts == IndInv /\ SendExecute("STS") => IndInv'
<1> SUFFICES ASSUME IndInv, SendExecute("STS") PROVE IndInv'
  OBVIOUS
<1> USE CpuNames, QueueAssumption DEF procVars, cpuVars, netVars, extVars
<1>0. thr["STS"].pid \in Proc /\ thr["STS"].cpu \in Cpu /\ thr["STS"].at = "send"
  BY Senders DEF Sends, SendExecute
<1>1. PICK c \in Cpu, p \in Proc : c = thr["STS"].cpu /\ p = thr["STS"].pid
  BY <1>0
<1>2. /\ Transmit(c, Message("PROCESS_EXECUTE", p)) /\ Goto("STS", Local("loop", NoProc, NoCpu))
      /\ UNCHANGED <<procVars, cpuVars, fromCpu, running, stsSem, canSchedule, comp, extVars>>
  BY <1>1, HomeValues DEF SendExecute
<1>3. /\ thr' \in [Threads -> [at : Places, pid : Proc \cup {NoProc}, cpu : Cpu \cup {NoCpu}]]
      /\ thr'["STS"].at = "loop" /\ \A u \in Threads : u # "STS" => thr'[u] = thr[u]
  BY <1>2, GotoType DEF IndInv, Types, Places
<1>4. CpuInv(c) /\ StsSends(c)
  BY <1>0, <1>1 DEF IndInv, Cpus, StsSends, Sends
<1>5. ~evicting[c] /\ ~Sends(c) /\ (connected[c] = "yes" => cpu[p] = c)
  BY <1>1, <1>4 DEF CpuInv, Eviction, Exclusive, Assigned
<1>6. thr'[c] = thr[c] /\ thr'["QM"] = thr["QM"] /\ thr'["KM"] = thr["KM"]
  BY <1>3
<1>7. ~StsSends(c)' /\ ~Sends(c)'
  BY <1>3, <1>5, <1>6 DEF StsSends, Sends
<1>8. /\ CpuInv(c)' /\ toCpu' \in [Cpu -> Seq(CpuOrders)]
      /\ \A d \in Cpu : d # c => toCpu'[d] = toCpu[d]
  BY <1>2, <1>4, <1>5, <1>6, <1>7, OrderEffect
<1>9. Types'
  BY <1>2, <1>3, <1>6, <1>8 DEF IndInv, Types, ProcTypes, CpuTypes, NetTypes,
      ThrTypes, Quiet
<1>10. SchedArgs'
  BY <1>2, <1>3, <1>6 DEF IndInv, Cpus, SchedArgs, Sends
<1>11. ASSUME NEW d \in Cpu, d # c PROVE CpuInv(d)'
  <2>1. UNCHANGED CpuPart(d)
    BY <1>2, <1>3, <1>8, <1>11 DEF CpuPart
  <2>2. ~StsSends(d)'
    BY <1>3 DEF StsSends, Sends
  <2> QED BY <1>2, <2>1, <2>2, CpuFrame DEF IndInv, Cpus
<1>12. Lists' /\ Origins'
  BY <1>2, <1>3, ListsFrame, OriginsFrame DEF IndInv
<1> QED BY <1>8, <1>9, <1>10, <1>11, <1>12 DEF IndInv, Cpus

\* ... and by a handler.
LEMMA KeepSendExecuteHandler ==
    ASSUME IndInv, NEW c \in Cpu, SendExecute(c)
    PROVE  IndInv'
<1> USE CpuNames, QueueAssumption DEF procVars, cpuVars, netVars, extVars
<1>0. thr[c].pid \in Proc /\ thr[c].cpu = c /\ thr[c].at = "send"
  BY Senders DEF Sends, SendExecute
<1>1. PICK p \in Proc : p = thr[c].pid
  BY <1>0
<1>2. /\ Transmit(c, Message("PROCESS_EXECUTE", p)) /\ Goto(c, Local("idle", NoProc, NoCpu))
      /\ UNCHANGED <<procVars, cpuVars, fromCpu, running, stsSem, canSchedule, comp, extVars>>
  BY <1>0, <1>1, HomeValues DEF SendExecute, Idle
<1>3. /\ thr' \in [Threads -> [at : Places, pid : Proc \cup {NoProc}, cpu : Cpu \cup {NoCpu}]]
      /\ thr'[c].at = "idle" /\ \A u \in Threads : u # c => thr'[u] = thr[u]
  BY <1>2, GotoType DEF IndInv, Types, Places
<1>4. CpuInv(c) /\ Sends(c)
  BY <1>0 DEF IndInv, Cpus, Sends
<1>5. ~evicting[c] /\ ~StsSends(c) /\ cpu[p] = c
  BY <1>0, <1>1, <1>4 DEF CpuInv, Eviction, Exclusive, Assigned
<1>6. thr'["STS"] = thr["STS"] /\ thr'["QM"] = thr["QM"] /\ thr'["KM"] = thr["KM"]
  BY <1>3
<1>7. ~StsSends(c)' /\ ~Sends(c)'
  BY <1>3, <1>5, <1>6 DEF StsSends, Sends
<1>8. /\ CpuInv(c)' /\ toCpu' \in [Cpu -> Seq(CpuOrders)]
      /\ \A d \in Cpu : d # c => toCpu'[d] = toCpu[d]
  BY <1>2, <1>3, <1>4, <1>5, <1>7, OrderEffect
<1>9. Types'
  BY <1>2, <1>3, <1>6, <1>8 DEF IndInv, Types, ProcTypes, CpuTypes, NetTypes,
      ThrTypes, Quiet
<1>10. Lists'
  BY <1>2, ListsFrame DEF IndInv
<1>11. Origins'
  <2>1. \A d \in Cpu : Held(d)' => thr'[d] = thr[d]
    BY <1>3 DEF Held, Frees
  <2> QED BY <1>2, <2>1, OriginsFrame DEF IndInv
<1>12. \A d \in Cpu : d # c => UNCHANGED CpuPart(d)
  BY <1>2, <1>3, <1>8 DEF CpuPart
<1> QED BY <1>2, <1>6, <1>8, <1>9, <1>10, <1>11, <1>12, OneCpuFrame

\* send_pid_to_execute, whoever calls it.
LEMMA KeepSend ==
    ASSUME IndInv, NEW t \in Threads, SendCheck(t) \/ SendExecute(t)
    PROVE  IndInv'
<1>1. Sends(t)
  BY DEF SendCheck, SendExecute, Sends
<1>2. t = "STS" \/ t \in Cpu
  BY <1>1, Senders
<1> QED BY <1>2, KeepSendCheckSts, KeepSendCheckHandler, KeepSendExecuteSts,
    KeepSendExecuteHandler

-----------------------------------------------------------------------------
\* PROCESS_EVICT is sent while nobody sends the CPU an order to execute.
LEMMA EvictOrdered ==
    ASSUME IndInv, NEW c \in Cpu, ~evicting[c], ~StsSends(c), ~Sends(c), connected[c] # "no",
           Transmit(c, Message("PROCESS_EVICT", NoProc)),
           evicting'[c] = TRUE, waiters'[c] = waiters[c] + 1, thr'[c] = thr[c], ~StsSends(c)',
           UNCHANGED <<cpu, connected, available, response, fromCpu, running>>
    PROVE  /\ CpuInv(c)'
           /\ toCpu' \in [Cpu -> Seq(CpuOrders)] /\ \A d \in Cpu : d # c => toCpu'[d] = toCpu[d]
<1> DEFINE s == toCpu[c]
           m == Message("PROCESS_EVICT", NoProc)
<1>1. s \in Seq(CpuOrders) /\ m \in CpuOrders /\ m.op = "PROCESS_EVICT"
  BY MessageTypes DEF IndInv, Types, NetTypes, Message
<1> HIDE DEF m
<1>2. /\ Append(s, m) \in Seq(CpuOrders) /\ Len(Append(s, m)) = Len(s) + 1
      /\ \A i \in DOMAIN s : i \in DOMAIN Append(s, m) /\ Append(s, m)[i] = s[i] /\ i # Len(s) + 1
      /\ \A i \in DOMAIN Append(s, m) : i \in DOMAIN s \/ i = Len(s) + 1
      /\ Len(s) + 1 \in DOMAIN Append(s, m) /\ Append(s, m)[Len(s) + 1] = m
  BY <1>1, ListAppend
<1>3. /\ toCpu' \in [Cpu -> Seq(CpuOrders)] /\ \A d \in Cpu : d # c => toCpu'[d] = toCpu[d]
      /\ connected[c] = "yes" => toCpu'[c] = Append(s, m)
      /\ connected[c] # "yes" => toCpu'[c] = s
  BY <1>2 DEF IndInv, Types, NetTypes, m, Transmit
<1> HIDE DEF s
<1>4. CpuInv(c) /\ s = toCpu[c]
  BY DEF IndInv, Cpus, s
<1>5. NoEvict(c) /\ NoConfirm(c) /\ response[c] = 0 /\ waiters[c] = 0
  BY <1>4 DEF CpuInv, Eviction
<1>6. /\ NoYield(c)' = NoYield(c) /\ NoConfirm(c)' = NoConfirm(c) /\ Unassigned(c)' = Unassigned(c)
      /\ Sends(c)' = Sends(c)
  BY DEF NoYield, NoConfirm, Unassigned, Sends
<1>7. \A i \in DOMAIN toCpu'[c] : toCpu'[c][i].op = "PROCESS_EXECUTE" =>
          i \in DOMAIN s /\ toCpu'[c][i] = s[i]
  BY <1>1, <1>2, <1>3
<1>8. \A i \in DOMAIN toCpu'[c] : toCpu'[c][i].op = "PROCESS_EVICT" =>
          i = Len(toCpu'[c]) /\ connected[c] = "yes"
  BY <1>1, <1>2, <1>3, <1>4, <1>5 DEF NoEvict
<1>9. connected[c] = "yes" => ~NoEvict(c)'
  BY <1>1, <1>2, <1>3 DEF NoEvict
<1>10. NoOrder(c) => NoOrder(c)'
  BY <1>4, <1>7 DEF NoOrder
<1>11. HandlerArgs(c)' /\ Avail(c)'
  BY <1>4, <1>6 DEF CpuInv, HandlerArgs, Avail, Frees
<1>12. Connection(c)'
  BY <1>3, <1>4, <1>6 DEF CpuInv, Connection
<1>13. Assigned(c)'
  BY <1>4, <1>6, <1>7 DEF CpuInv, Assigned
<1>14. Exclusive(c)'
  BY <1>4, <1>6, <1>7, <1>10 DEF CpuInv, Exclusive
<1>15. Eviction(c)'
  BY <1>4, <1>5, <1>6, <1>8, <1>9 DEF CpuInv, Eviction, NoConfirm, Sends
<1> QED BY <1>3, <1>11, <1>12, <1>13, <1>14, <1>15 DEF CpuInv

\* evict_process: here PromptSend is needed.
LEMMA KeepEvictProcess ==
    ASSUME Regime, IndInv, NEW t \in Threads, evict_process(t)
    PROVE  IndInv'
<1> USE CpuNames, QueueAssumption DEF procVars, cpuVars, netVars, extVars
<1> DEFINE at == IF t = "STS" THEN "wait" ELSE "scan"
<1>1. t \in {"STS", "QM"} /\ thr[t].at = "evict"
  BY Senders DEF evict_process
<1>2. /\ Goto(t, Local(at, NoProc, NoCpu)) /\ send_process_evict(thr[t].cpu)
      /\ UNCHANGED <<procVars, connected, available, response, fromCpu, running,
                   stsSem, canSchedule, comp, extVars>>
  BY <1>1, HomeValues DEF evict_process
<1>3. /\ thr' \in [Threads -> [at : Places, pid : Proc \cup {NoProc}, cpu : Cpu \cup {NoCpu}]]
      /\ thr'[t].at = at /\ \A u \in Threads : u # t => thr'[u] = thr[u]
  <2>1. at \in Places
    BY DEF Places
  <2> HIDE DEF at
  <2> QED BY <1>2, <2>1, GotoType DEF IndInv, Types
<1>4. \A d \in Cpu : waiters'[d] = IF d = thr[t].cpu /\ ~evicting[d] THEN waiters[d] + 1 ELSE waiters[d]
  BY DEF evict_process
<1>5. SchedArgs'
  BY <1>1, <1>2, <1>3 DEF IndInv, Cpus, SchedArgs, Sends
<1>6. ~Sends(t)'
  BY <1>3 DEF Sends
<1>7. CASE thr[t].cpu = NoCpu \/ (thr[t].cpu \in Cpu /\ evicting[thr[t].cpu])
  <2>1. UNCHANGED <<evicting, toCpu>>
    BY <1>2, <1>7 DEF send_process_evict
  <2>2. waiters' = waiters
    <3>1. waiters' = [d \in Cpu |-> waiters[d]]
      BY <1>7 DEF evict_process
    <3> QED BY <3>1 DEF IndInv, Types, CpuTypes
  <2> QED BY <1>1, <1>2, <1>3, <1>5, <1>6, <2>1, <2>2, SchedulerFrame DEF IndInv,
      Types, ThrTypes
<1>8. CASE thr[t].cpu \in Cpu /\ ~evicting[thr[t].cpu]
  <2>1. PICK c \in Cpu : c = thr[t].cpu
    BY <1>8
  <2>2. /\ ~evicting[c] /\ ~SendUnderWay(c) /\ evicting' = [evicting EXCEPT ![c] = TRUE]
        /\ Transmit(c, Message("PROCESS_EVICT", NoProc)) /\ connected[c] # "no"
    BY <1>1, <1>2, <1>8, <2>1 DEF send_process_evict, IndInv, Cpus, SchedArgs
  <2>3. ~StsSends(c)
    BY <2>2 DEF Regime, SendUnderWay, StsSends, Sends
  <2>4. ~Sends(c)
    <3>1. Sends(c) => thr[c].cpu = c
      BY Senders
    <3> QED BY <2>2, <3>1 DEF Regime, SendUnderWay, Sends
  <2>5. /\ evicting' \in [Cpu -> BOOLEAN] /\ evicting'[c] = TRUE
        /\ \A d \in Cpu : d # c => evicting'[d] = evicting[d]
    BY <2>2 DEF IndInv, Types, CpuTypes
  <2>6. waiters' \in [Cpu -> Nat] /\ waiters'[c] = waiters[c] + 1 /\ \A d \in Cpu : d # c => waiters'[d] = waiters[d]
    <3>1. \A d \in Cpu : waiters[d] \in Nat
      BY DEF IndInv, Types, CpuTypes
    <3>2. waiters' = [d \in Cpu |-> waiters'[d]]
      BY DEF evict_process
    <3>3. \A d \in Cpu : waiters'[d] \in Nat
      BY <1>4, <3>1
    <3>4. waiters' \in [Cpu -> Nat]
      BY <3>2, <3>3
    <3> QED BY <1>4, <2>1, <2>2, <3>4
  <2>7. thr'[c] = thr[c] /\ thr'["KM"] = thr["KM"]
    BY <1>1, <1>3
  <2>8. ~StsSends(c)'
    BY <1>1, <1>3, <1>6, <2>3 DEF StsSends, Sends
  <2>9. /\ CpuInv(c)' /\ toCpu' \in [Cpu -> Seq(CpuOrders)]
        /\ \A d \in Cpu : d # c => toCpu'[d] = toCpu[d]
    BY <1>2, <2>2, <2>3, <2>4, <2>5, <2>6, <2>7, <2>8, EvictOrdered
  <2>10. Types'
    BY <1>2, <1>3, <2>5, <2>6, <2>7, <2>9 DEF IndInv, Types, ProcTypes, CpuTypes,
        NetTypes, ThrTypes, Quiet
  <2>11. ASSUME NEW d \in Cpu, d # c PROVE CpuInv(d)'
    <3>1. thr'[d] = thr[d]
      BY <1>1, <1>3
    <3>2. UNCHANGED CpuPart(d)
      BY <1>2, <2>5, <2>6, <2>9, <2>11, <3>1 DEF CpuPart
    <3>3. StsSends(d)' => StsSends(d) /\ thr'["STS"].pid = thr["STS"].pid
      BY <1>1, <1>3, <1>6 DEF StsSends, Sends
    <3> QED BY <1>2, <3>2, <3>3, CpuFrame DEF IndInv, Cpus
  <2>12. Lists'
    BY <1>2, ListsFrame DEF IndInv
  <2>13. Origins'
    BY <1>1, <1>2, <1>3, OriginsFrame DEF IndInv
  <2> QED BY <1>5, <2>9, <2>10, <2>11, <2>12, <2>13 DEF IndInv, Cpus
<1>9. thr[t].cpu \in Cpu \cup {NoCpu}
  BY DEF IndInv, Types, ThrTypes
<1> QED BY <1>7, <1>8, <1>9

-----------------------------------------------------------------------------
\* The handler takes the first message of the socket.
LEMMA Received ==
    ASSUME IndInv, NEW c \in Cpu, NEW op, NEW p, Receive(c, op, p)
    PROVE  /\ fromCpu' \in [Cpu -> Seq(Reports)] /\ \A d \in Cpu : d # c => fromCpu'[d] = fromCpu[d]
           /\ Len(fromCpu'[c]) = Len(fromCpu[c]) - 1 /\ Len(fromCpu[c]) \in Nat
           /\ 1 \in DOMAIN fromCpu[c] /\ fromCpu[c][1].op = op /\ fromCpu[c][1].pid = p
           /\ \A i \in DOMAIN fromCpu'[c] : /\ i + 1 \in DOMAIN fromCpu[c] /\ i + 1 # 1 /\ i \in Nat
                                            /\ fromCpu'[c][i] = fromCpu[c][i + 1]
           /\ \A i \in DOMAIN fromCpu[c] : i # 1 => /\ i - 1 \in DOMAIN fromCpu'[c]
                                                    /\ fromCpu'[c][i - 1] = fromCpu[c][i]
           /\ Len(fromCpu[c]) = 1 => fromCpu'[c] = <<>>
           /\ op = "CONFIRMATION" \/ p \in Proc
<1> DEFINE s == fromCpu[c]
<1>1. s \in Seq(Reports) /\ s # <<>> /\ Head(s) = Message(op, p) /\ fromCpu' = [fromCpu EXCEPT ![c] = Tail(s)]
  BY DEF IndInv, Types, NetTypes, Receive
<1>2. /\ Tail(s) \in Seq(Reports) /\ Len(Tail(s)) = Len(s) - 1 /\ Len(s) \in Nat
      /\ 1 \in DOMAIN s /\ Head(s) = s[1] /\ s[1] \in Reports
      /\ \A i \in DOMAIN Tail(s) : i + 1 \in DOMAIN s /\ i + 1 # 1 /\ i \in Nat /\ Tail(s)[i] = s[i + 1]
      /\ \A i \in DOMAIN s : i # 1 => i - 1 \in DOMAIN Tail(s) /\ Tail(s)[i - 1] = s[i]
      /\ Len(s) = 1 => Tail(s) = <<>>
  BY <1>1, ListTail
<1>3. s[1].op = op /\ s[1].pid = p
  BY <1>1, <1>2 DEF Message
<1>4. op = "CONFIRMATION" \/ p \in Proc
  BY <1>2, <1>3 DEF Reports
<1>5. /\ fromCpu' \in [Cpu -> Seq(Reports)] /\ fromCpu'[c] = Tail(s)
      /\ \A d \in Cpu : d # c => fromCpu'[d] = fromCpu[d]
  BY <1>1, <1>2 DEF IndInv, Types, NetTypes
<1> QED BY <1>2, <1>3, <1>4, <1>5

\* What the handler may conclude from a message: the process of a syscall is
\* still assigned to the CPU, and a confirmation is the last message.
LEMMA ReceivedState ==
    ASSUME IndInv, NEW c \in Cpu, NEW op, NEW p, Receive(c, op, p)
    PROVE  /\ CpuInv(c) /\ thr[c].at = "idle" /\ response[c] = 0 /\ connected[c] \in {"yes", "lost"}
           /\ op \in Yields => /\ cpu[p] = c /\ running[c] = NoProc /\ NoOrder(c) /\ ~StsSends(c)
                               /\ NoYield(c)'
           /\ NoYield(c) => NoYield(c)'
           /\ op # "CONFIRMATION" => NoConfirm(c)' = NoConfirm(c)
           /\ op = "CONFIRMATION" => fromCpu'[c] = <<>> /\ ~NoConfirm(c)
<1> USE Received
<1>1. CpuInv(c) /\ thr[c].at = "idle" /\ fromCpu[c] # <<>> /\ connected[c] \in {"no", "yes", "lost", "gone"}
  BY DEF IndInv, Cpus, Receive, Types, CpuTypes
<1>2. response[c] = 0 /\ connected[c] \in {"yes", "lost"}
  BY <1>1 DEF CpuInv, Eviction, Connection
<1>3. ASSUME op \in Yields
      PROVE  cpu[p] = c /\ running[c] = NoProc /\ NoOrder(c) /\ ~StsSends(c) /\ NoYield(c)'
  <2>1. ~NoYield(c) /\ fromCpu[c][1].op \in Yields
    BY <1>3 DEF NoYield
  <2>2. cpu[p] = c
    BY <1>1, <2>1 DEF CpuInv, Assigned
  <2>3. running[c] = NoProc /\ NoOrder(c) /\ ~StsSends(c)
    BY <1>1, <2>1 DEF CpuInv, Exclusive
  <2>4. \A i \in DOMAIN fromCpu[c] : fromCpu[c][i].op \in Yields => i = 1
    BY <1>1, <2>1 DEF CpuInv, Exclusive
  <2>5. NoYield(c)'
    BY <2>4 DEF NoYield
  <2> QED BY <2>2, <2>3, <2>5
<1>4. NoYield(c) => NoYield(c)'
  BY DEF NoYield
<1>5. op # "CONFIRMATION" => NoConfirm(c)' = NoConfirm(c)
  <2> SUFFICES ASSUME op # "CONFIRMATION" PROVE NoConfirm(c)' = NoConfirm(c)
    OBVIOUS
  <2>1. NoConfirm(c) => NoConfirm(c)'
    BY DEF NoConfirm
  <2>2. ASSUME NEW i \in DOMAIN fromCpu[c], fromCpu[c][i].op = "CONFIRMATION" PROVE ~NoConfirm(c)'
    <3>1. i # 1
      BY <2>2
    <3> QED BY <2>2, <3>1 DEF NoConfirm
  <2>3. NoConfirm(c) \in BOOLEAN /\ NoConfirm(c)' \in BOOLEAN
    BY DEF NoConfirm
  <2> QED BY <2>1, <2>2, <2>3 DEF NoConfirm
<1>6. op = "CONFIRMATION" => fromCpu'[c] = <<>> /\ ~NoConfirm(c)
  BY <1>1 DEF CpuInv, Eviction, NoConfirm
<1> QED BY <1>1, <1>2, <1>3, <1>4, <1>5, <1>6

\* Serving a message other than a confirmation leaves an eviction under way.
LEMMA ReceivedFrame ==
    ASSUME IndInv, NEW c \in Cpu, NEW op, NEW p, Receive(c, op, p), op # "CONFIRMATION",
           thr'["STS"] = thr["STS"], thr'[c].at # "send",
           UNCHANGED <<connected, evicting, response, waiters, toCpu, running>>
    PROVE  /\ Eviction(c)' /\ Connection(c)'
           /\ StsSends(c)' = StsSends(c) /\ NoOrder(c)' = NoOrder(c)
<1>1. CpuInv(c) /\ response[c] = 0 /\ connected[c] \in {"yes", "lost"}
  BY ReceivedState
<1>2. NoConfirm(c)' = NoConfirm(c)
  BY ReceivedState
<1>3. StsSends(c)' = StsSends(c) /\ NoOrder(c)' = NoOrder(c) /\ NoEvict(c)' = NoEvict(c)
  BY DEF StsSends, Sends, NoOrder, NoEvict
<1>4. \A i \in DOMAIN fromCpu'[c] : fromCpu'[c][i].op = "CONFIRMATION" =>
          i = Len(fromCpu'[c]) /\ toCpu'[c] = <<>> /\ running'[c] = NoProc /\ response'[c] = 0
  <2> SUFFICES ASSUME NEW i \in DOMAIN fromCpu'[c], fromCpu'[c][i].op = "CONFIRMATION"
               PROVE  i = Len(fromCpu'[c]) /\ toCpu[c] = <<>> /\ running[c] = NoProc /\ response[c] = 0
    OBVIOUS
  <2>1. i + 1 \in DOMAIN fromCpu[c] /\ fromCpu[c][i + 1].op = "CONFIRMATION" /\ i \in Nat
    BY Received
  <2>2. i + 1 = Len(fromCpu[c]) /\ toCpu[c] = <<>> /\ running[c] = NoProc
    BY <1>1, <2>1 DEF CpuInv, Eviction
  <2> QED BY <1>1, <2>1, <2>2, Received
<1>5. Eviction(c)'
  BY <1>1, <1>2, <1>3, <1>4 DEF CpuInv, Eviction
<1>6. Connection(c)'
  BY <1>1 DEF CpuInv, Connection
<1> QED BY <1>3, <1>5, <1>6

\* CONFIRMATION posts response_sem once.
LEMMA KeepConfirmation ==
    ASSUME IndInv, NEW c \in Cpu, HandleConfirmation(c)
    PROVE  IndInv'
<1> USE CpuNames DEF procVars, cpuVars, netVars, extVars
<1>1. /\ Receive(c, "CONFIRMATION", NoProc) /\ response' = [response EXCEPT ![c] = @ + 1]
      /\ UNCHANGED <<procVars, connected, available, evicting, waiters, toCpu, running, thr, stsSem,
                     canSchedule, comp, extVars>>
  BY DEF HandleConfirmation
<1>2. /\ CpuInv(c) /\ thr[c].at = "idle" /\ response[c] = 0 /\ connected[c] \in {"yes", "lost"}
      /\ fromCpu'[c] = <<>> /\ ~NoConfirm(c)
  BY <1>1, ReceivedState
<1>3. fromCpu' \in [Cpu -> Seq(Reports)] /\ \A d \in Cpu : d # c => fromCpu'[d] = fromCpu[d]
  BY <1>1, Received
<1>4. /\ response' \in [Cpu -> Nat] /\ response'[c] = 1
      /\ \A d \in Cpu : d # c => response'[d] = response[d]
  BY <1>1, <1>2 DEF IndInv, Types, CpuTypes
<1>5. toCpu[c] = <<>> /\ running[c] = NoProc /\ evicting[c]
  BY <1>2 DEF CpuInv, Eviction, NoConfirm
<1>6. NoYield(c)' /\ NoConfirm(c)'
  BY <1>2 DEF NoYield, NoConfirm
<1>7. NoOrder(c)' /\ NoEvict(c)' /\ StsSends(c)' = StsSends(c) /\ ~Sends(c)' /\ Unassigned(c)' = Unassigned(c)
  BY <1>1, <1>2, <1>5 DEF NoOrder, NoEvict, StsSends, Sends, Unassigned
<1>8. HandlerArgs(c)' /\ Assigned(c)'
  BY <1>1, <1>2, <1>5, <1>7 DEF CpuInv, HandlerArgs, Assigned
<1>9. Exclusive(c)'
  BY <1>1, <1>2, <1>5, <1>6, <1>7 DEF Exclusive
<1>10. Connection(c)' /\ Avail(c)'
  BY <1>1, <1>2, <1>5, <1>7 DEF CpuInv, Connection, Avail, Frees
<1>11. Eviction(c)'
  BY <1>1, <1>2, <1>4, <1>5, <1>6, <1>7 DEF CpuInv, Eviction
<1>12. CpuInv(c)'
  BY <1>8, <1>9, <1>10, <1>11 DEF CpuInv
<1>13. Types'
  BY <1>1, <1>3, <1>4 DEF IndInv, Types, ProcTypes, CpuTypes, NetTypes, ThrTypes, Quiet
<1>14. Lists' /\ Origins'
  BY <1>1, ListsFrame, OriginsFrame DEF IndInv
<1>15. \A d \in Cpu : d # c => UNCHANGED CpuPart(d)
  BY <1>1, <1>3, <1>4 DEF CpuPart
<1> QED BY <1>1, <1>12, <1>13, <1>14, <1>15, OneCpuFrame

\* MUTEX_CREATE: the process is to be sent again.
LEMMA KeepMutexCreate ==
    ASSUME IndInv, NEW c \in Cpu, HandleMutexCreate(c)
    PROVE  IndInv'
<1> USE CpuNames, QueueAssumption DEF procVars, cpuVars, netVars, extVars
<1>1. PICK p \in Proc :
         /\ Receive(c, "MUTEX_CREATE", p) /\ Goto(c, Local("check", p, c))
         /\ UNCHANGED <<procVars, cpuVars, toCpu, running, stsSem, canSchedule, comp, extVars>>
  BY DEF HandleMutexCreate
<1>2. /\ thr' \in [Threads -> [at : Places, pid : Proc \cup {NoProc}, cpu : Cpu \cup {NoCpu}]]
      /\ thr'[c].at = "check" /\ thr'[c].pid = p /\ thr'[c].cpu = c
      /\ \A u \in Threads : u # c => thr'[u] = thr[u]
  BY <1>1, GotoType DEF IndInv, Types, Places
<1>3. thr'["STS"] = thr["STS"] /\ thr'["QM"] = thr["QM"] /\ thr'["KM"] = thr["KM"]
  BY <1>2
<1>4. fromCpu' \in [Cpu -> Seq(Reports)] /\ \A d \in Cpu : d # c => fromCpu'[d] = fromCpu[d]
  BY <1>1, Received
<1>5. /\ CpuInv(c) /\ response[c] = 0 /\ connected[c] \in {"yes", "lost"}
      /\ cpu[p] = c /\ running[c] = NoProc /\ NoOrder(c) /\ ~StsSends(c) /\ NoYield(c)'
  BY <1>1, ReceivedState DEF Yields
<1>6. /\ Eviction(c)' /\ Connection(c)' /\ StsSends(c)' = StsSends(c) /\ NoOrder(c)' = NoOrder(c)
  BY <1>1, <1>2, <1>3, ReceivedFrame
<1>7. HandlerArgs(c)' /\ Avail(c)'
  BY <1>1, <1>2, <1>5 DEF CpuInv, HandlerArgs, Avail, Unassigned, Frees
<1>8. Assigned(c)' /\ Exclusive(c)'
  BY <1>1, <1>2, <1>5, <1>6 DEF Assigned, Exclusive, NoOrder, NoYield
<1>9. CpuInv(c)'
  BY <1>6, <1>7, <1>8 DEF CpuInv
<1>10. Types'
  BY <1>1, <1>2, <1>3, <1>4 DEF IndInv, Types, ProcTypes, CpuTypes, NetTypes,
      ThrTypes, Quiet
<1>11. Lists'
  BY <1>1, ListsFrame DEF IndInv
<1>12. Origins'
  <2>1. \A d \in Cpu : Held(d)' => thr'[d] = thr[d]
    BY <1>2 DEF Held, Frees
  <2> QED BY <1>1, <2>1, OriginsFrame DEF IndInv
<1>13. \A d \in Cpu : d # c => UNCHANGED CpuPart(d)
  BY <1>1, <1>2, <1>4 DEF CpuPart
<1> QED BY <1>1, <1>3, <1>9, <1>10, <1>11, <1>12, <1>13, OneCpuFrame

-----------------------------------------------------------------------------
\* The process of c is taken off c and out of exec_processes.
LEMMA LeavesCpu ==
    ASSUME IndInv, NEW c \in Cpu, NEW p \in Proc, cpu[p] = c, cpu' = [cpu EXCEPT ![p] = NoCpu],
           exec' = RemoveFirst(exec, p)
    PROVE  /\ state[p] = "EXEC" /\ InList(listed, p) /\ NotQueued(readyQ, p)
           /\ cpu' \in [Proc -> Cpu \cup {NoCpu}] /\ exec' \in Seq(Proc)
           /\ \A i, j \in DOMAIN exec' : exec'[i] = exec'[j] => i = j
           /\ \A q \in Proc : InList(exec', q) <=> q # p /\ InList(exec, q)
           /\ Unassigned(c)' /\ \A d \in Cpu : \A q \in Proc : d # c => (cpu'[q] = d <=> cpu[q] = d)
<1> USE CpuNames
<1>1. state[p] = "EXEC"
  BY DEF IndInv, Lists, ExecList
<1>2. InList(listed, p) /\ NotQueued(readyQ, p)
  BY <1>1 DEF IndInv, Lists, ListedProcs, ReadyQueuesMatchStates
<1>3. /\ exec' \in Seq(Proc)
      /\ \A i, j \in DOMAIN exec' : exec'[i] = exec'[j] => i = j
      /\ \A q \in Proc : InList(exec', q) <=> q # p /\ InList(exec, q)
  BY ExecRemove DEF IndInv, Lists, ExecList, Types, ProcTypes
<1>4. /\ cpu' \in [Proc -> Cpu \cup {NoCpu}] /\ cpu'[p] = NoCpu
      /\ \A q \in Proc : q # p => cpu'[q] = cpu[q]
  BY DEF IndInv, Types, ProcTypes
<1>5. Unassigned(c)'
  BY <1>4 DEF IndInv, Lists, ExecList, Unassigned
<1>6. \A d \in Cpu : \A q \in Proc : d # c => (cpu'[q] = d <=> cpu[q] = d)
  BY <1>4
<1> QED BY <1>1, <1>2, <1>3, <1>4, <1>5, <1>6

\* A process in EXEC ends or blocks.
LEMMA ListsLeave ==
    ASSUME IndInv, NEW c \in Cpu, NEW p \in Proc, cpu[p] = c, NEW s \in {"EXIT", "BLOCK"},
           state' = [state EXCEPT ![p] = s], cpu' = [cpu EXCEPT ![p] = NoCpu],
           exec' = RemoveFirst(exec, p), UNCHANGED <<listed, readyQ>>
    PROVE  Lists'
<1>1. s \in States /\ NoCpu \in Cpu \cup {NoCpu} /\ s # "EXEC" /\ s # "READY" /\ s \notin {"NONE", "ASSIGNED"}
  BY DEF States
<1>2. /\ InList(listed, p) /\ NotQueued(readyQ, p)
      /\ \A i, j \in DOMAIN exec' : exec'[i] = exec'[j] => i = j
      /\ \A q \in Proc : InList(exec', q) <=> q # p /\ InList(exec, q)
  BY LeavesCpu
<1>3. NoCpu # NoCpu <=> s = "EXEC"
  BY <1>1
<1>4. \A q \in Proc : InList(exec', q) <=> IF q = p THEN s = "EXEC" ELSE InList(exec, q)
  BY <1>1, <1>2
<1>5. \A q \in Proc : InList(listed', q) <=>
          IF q = p THEN s \notin {"NONE", "ASSIGNED"} ELSE InList(listed, q)
  BY <1>1, <1>2
<1>6. IF s = "READY" THEN QueuedOnceAt(readyQ', p, Priority[p]) ELSE NotQueued(readyQ', p)
  BY <1>1, <1>2
<1>7. \A q \in Proc : q # p =>
          /\ NotQueued(readyQ, q) => NotQueued(readyQ', q)
          /\ QueuedOnceAt(readyQ, q, Priority[q]) => QueuedOnceAt(readyQ', q, Priority[q])
  OBVIOUS
<1>8. ProcTypes /\ Lists
  BY DEF IndInv, Types
<1>9. NoCpu # NoCpu => Unassigned(NoCpu)
  OBVIOUS
<1> QED BY <1>1, <1>2, <1>3, <1>4, <1>5, <1>6, <1>7, <1>8, <1>9, ListsMove

\* Nobody waits for a process in READY, EXEC or NONE.
LEMMA NotAwaited ==
    ASSUME IndInv, NEW p \in Proc, state[p] \notin {"ASSIGNED", "NEW", "BLOCK", "EXIT"}
    PROVE  /\ p \notin kmNew /\ p \notin Awaited
           /\ \A c \in Cpu : Held(c) => thr[c].pid \in Proc \ {p}
BY DEF IndInv, Origins, Awaited, Held, Frees, Cpus, CpuInv, HandlerArgs

\* EXIT and SEGMENTATION_FAULT.
LEMMA KeepProcessEnd ==
    ASSUME IndInv, NEW c \in Cpu, HandleProcessEnd(c)
    PROVE  IndInv'
<1> USE CpuNames, QueueAssumption DEF procVars, cpuVars, netVars, extVars
<1>1. PICK p \in Proc, op \in {"PROCESS_END", "SEGMENTATION_FAULT"} :
        /\ Receive(c, op, p) /\ state' = [state EXCEPT ![p] = "EXIT"]
        /\ cpu' = [cpu EXCEPT ![p] = NoCpu] /\ exec' = RemoveFirst(exec, p)
        /\ available' = [available EXCEPT ![c] = TRUE] /\ sem_post
        /\ UNCHANGED <<listed, readyQ, pendingMem, connected, evicting, response, waiters, toCpu,
                       running, thr, canSchedule, comp, extVars>>
  BY DEF HandleProcessEnd
<1>2. fromCpu' \in [Cpu -> Seq(Reports)] /\ \A d \in Cpu : d # c => fromCpu'[d] = fromCpu[d]
  BY <1>1, Received
<1>3. /\ CpuInv(c) /\ response[c] = 0 /\ connected[c] \in {"yes", "lost"} /\ thr[c].at = "idle"
      /\ cpu[p] = c /\ running[c] = NoProc /\ NoOrder(c) /\ ~StsSends(c) /\ NoYield(c)'
  BY <1>1, ReceivedState DEF Yields
<1>4. /\ Eviction(c)' /\ StsSends(c)' = StsSends(c) /\ NoOrder(c)' = NoOrder(c)
  BY <1>1, <1>3, ReceivedFrame
<1>5. /\ state[p] = "EXEC" /\ InList(listed, p) /\ NotQueued(readyQ, p)
      /\ cpu' \in [Proc -> Cpu \cup {NoCpu}] /\ exec' \in Seq(Proc)
      /\ \A i, j \in DOMAIN exec' : exec'[i] = exec'[j] => i = j
      /\ \A q \in Proc : InList(exec', q) <=> q # p /\ InList(exec, q)
      /\ Unassigned(c)' /\ \A d \in Cpu : \A q \in Proc : d # c => (cpu'[q] = d <=> cpu[q] = d)
  BY <1>1, <1>3, LeavesCpu
<1>6. /\ available' \in [Cpu -> BOOLEAN] /\ available'[c] = TRUE
      /\ \A d \in Cpu : d # c => available'[d] = available[d]
  BY <1>1 DEF IndInv, Types, CpuTypes
<1>7. HandlerArgs(c)' /\ Avail(c)' /\ Connection(c)'
  BY <1>1, <1>3, <1>5 DEF CpuInv, HandlerArgs, Avail, Connection, Sends, Frees
<1>8. Assigned(c)' /\ Exclusive(c)'
  BY <1>1, <1>3, <1>4 DEF Assigned, Exclusive, NoOrder, NoYield, Sends
<1>9. CpuInv(c)'
  BY <1>4, <1>7, <1>8 DEF CpuInv
<1>10. state' \in [Proc -> States] /\ \A q \in Proc : q # p => state'[q] = state[q]
  BY <1>1 DEF IndInv, Types, ProcTypes, States
<1>11. Types'
  <2>1. stsSem' \in 0 .. MaxWakeups
    BY <1>1, SemPost DEF IndInv, Types
  <2> QED BY <1>1, <1>2, <1>5, <1>6, <1>10, <2>1 DEF IndInv, Types, ProcTypes,
      CpuTypes, NetTypes, ThrTypes, Quiet
<1>12. Lists'
  BY <1>1, <1>3, ListsLeave
<1>13. Origins'
  <2>1. p \notin kmNew /\ p \notin Awaited /\ \A d \in Cpu : Held(d) => thr[d].pid \in Proc \ {p}
    BY <1>5, NotAwaited
  <2>2. \A d \in Cpu : Held(d)' => thr'[d] = thr[d] /\ thr[d].pid \in Proc \ {p}
    BY <1>1, <2>1 DEF Held, Frees
  <2> QED BY <1>1, <1>10, <2>1, <2>2, OriginsMove DEF IndInv, Types, ProcTypes, Awaited
<1>14. \A d \in Cpu : d # c => UNCHANGED CpuPart(d)
  BY <1>1, <1>2, <1>6 DEF CpuPart
<1> QED BY <1>1, <1>5, <1>9, <1>11, <1>12, <1>13, <1>14, OneCpuFrame

\* SLEEP: first the process blocks ...
LEMMA KeepSleep ==
    ASSUME IndInv, NEW c \in Cpu, HandleSleep(c)
    PROVE  IndInv'
<1> USE CpuNames, QueueAssumption DEF procVars, cpuVars, netVars, extVars
<1>1. PICK p \in Proc, op \in {"SLEEP", "STDOUT"}, at \in {"free", "read"} :
        /\ Receive(c, op, p) /\ state' = [state EXCEPT ![p] = "BLOCK"]
        /\ cpu' = [cpu EXCEPT ![p] = NoCpu] /\ exec' = RemoveFirst(exec, p)
        /\ Goto(c, Local(at, p, c))
        /\ UNCHANGED <<listed, readyQ, pendingMem, cpuVars, toCpu, running, stsSem, canSchedule,
                       comp, extVars>>
  BY DEF HandleSleep
<1>2. fromCpu' \in [Cpu -> Seq(Reports)] /\ \A d \in Cpu : d # c => fromCpu'[d] = fromCpu[d]
  BY <1>1, Received
<1>3. /\ CpuInv(c) /\ response[c] = 0 /\ connected[c] \in {"yes", "lost"} /\ thr[c].at = "idle"
      /\ cpu[p] = c /\ running[c] = NoProc /\ NoOrder(c) /\ ~StsSends(c) /\ NoYield(c)'
  BY <1>1, ReceivedState DEF Yields
<1>4. /\ thr' \in [Threads -> [at : Places, pid : Proc \cup {NoProc}, cpu : Cpu \cup {NoCpu}]]
      /\ thr'[c].at \in {"free", "read"} /\ thr'[c].pid = p
      /\ \A u \in Threads : u # c => thr'[u] = thr[u]
  BY <1>1, GotoType DEF IndInv, Types, Places
<1>5. thr'["STS"] = thr["STS"] /\ thr'["QM"] = thr["QM"] /\ thr'["KM"] = thr["KM"]
  BY <1>4
<1>6. /\ Eviction(c)' /\ Connection(c)' /\ StsSends(c)' = StsSends(c) /\ NoOrder(c)' = NoOrder(c)
  BY <1>1, <1>3, <1>4, <1>5, ReceivedFrame
<1>7. /\ state[p] = "EXEC" /\ InList(listed, p) /\ NotQueued(readyQ, p)
      /\ cpu' \in [Proc -> Cpu \cup {NoCpu}] /\ exec' \in Seq(Proc)
      /\ \A i, j \in DOMAIN exec' : exec'[i] = exec'[j] => i = j
      /\ \A q \in Proc : InList(exec', q) <=> q # p /\ InList(exec, q)
      /\ Unassigned(c)' /\ \A d \in Cpu : \A q \in Proc : d # c => (cpu'[q] = d <=> cpu[q] = d)
  BY <1>1, <1>3, LeavesCpu
<1>8. ~available[c]
  BY <1>3 DEF CpuInv, Avail, Unassigned, Frees
<1>9. HandlerArgs(c)' /\ Avail(c)'
  BY <1>1, <1>4, <1>7, <1>8 DEF HandlerArgs, Avail, Sends, Frees
<1>10. Assigned(c)' /\ Exclusive(c)'
  BY <1>1, <1>3, <1>4, <1>6 DEF Assigned, Exclusive, NoOrder, NoYield, Sends
<1>11. CpuInv(c)'
  BY <1>6, <1>9, <1>10 DEF CpuInv
<1>12. state' \in [Proc -> States] /\ state'[p] = "BLOCK" /\ \A q \in Proc : q # p => state'[q] = state[q]
  BY <1>1 DEF IndInv, Types, ProcTypes, States
<1>13. Types'
  BY <1>1, <1>2, <1>4, <1>5, <1>7, <1>12 DEF IndInv, Types, ProcTypes, CpuTypes,
      NetTypes, ThrTypes, Quiet
<1>14. Lists'
  BY <1>1, <1>3, ListsLeave
<1>15. Origins'
  <2>1. p \notin kmNew /\ p \notin Awaited /\ \A d \in Cpu : Held(d) => thr[d].pid \in Proc \ {p}
    BY <1>7, NotAwaited
  <2>2. \A d \in Cpu : d # c => thr'[d] = thr[d]
    BY <1>4
  <2>3. \A d \in Cpu : d # c /\ Held(d)' => Held(d) /\ thr'[d].pid # p
    BY <2>1, <2>2 DEF Held, Frees
  <2>4. kmNew' = kmNew /\ Awaited' = Awaited /\ ioReq' = ioReq /\ kmRead' = kmRead /\ kmNew \subseteq Proc /\ Awaited \subseteq Proc
    BY <1>1 DEF IndInv, Types, ProcTypes, Awaited
  <2>5. \A q \in kmNew' : state'[q] \in {"ASSIGNED", "NEW"}
    BY <1>12, <2>1, <2>4 DEF IndInv, Origins, Awaited, Frees
  <2>6. \A q \in Awaited' : state'[q] \in {"BLOCK", "EXIT"} /\ \A d \in Cpu : Frees(d)' => thr'[d].pid # q
    BY <1>4, <1>12, <2>1, <2>2, <2>4 DEF IndInv, Origins, Awaited, Frees
  <2>7. \A d \in Cpu : thr[d].at \in {"create", "free", "read"} => thr[d].pid \in Proc
    BY DEF IndInv, Cpus, CpuInv, HandlerArgs
  <2>8. /\ \A d \in Cpu : Frees(d)' => state'[thr'[d].pid] = "BLOCK"
        /\ \A d \in Cpu : thr'[d].at = "create" => state'[thr'[d].pid] = "ASSIGNED"
    BY <1>4, <1>12, <2>1, <2>2, <2>7 DEF IndInv, Origins, Awaited, Held, Frees
  <2>9. \A d, e \in Cpu : Held(d)' /\ Held(e)' /\ thr'[d].pid = thr'[e].pid => d = e
    BY <1>4, <2>2, <2>3 DEF IndInv, Origins, Awaited, Frees
  <2> QED BY <2>4, <2>5, <2>6, <2>8, <2>9 DEF IndInv, Origins
<1>16. \A d \in Cpu : d # c => UNCHANGED CpuPart(d)
  BY <1>1, <1>2, <1>4 DEF CpuPart
<1> QED BY <1>1, <1>5, <1>7, <1>11, <1>13, <1>14, <1>15, <1>16, OneCpuFrame

\* ... then the CPU is made available and the device is asked.
LEMMA KeepFreeCpu ==
    ASSUME IndInv, NEW c \in Cpu, FreeCpu(c) \/ send_memory_read(c)
    PROVE  IndInv'
<1> USE CpuNames, QueueAssumption DEF procVars, cpuVars, netVars, extVars
<1>1. /\ Frees(c) /\ available' = [available EXCEPT ![c] = TRUE]
      /\ \/ ioReq' = ioReq \cup {thr[c].pid} /\ kmRead' = kmRead
         \/ kmRead' = kmRead \cup {thr[c].pid} /\ ioReq' = ioReq
      /\ Goto(c, Local("idle", NoProc, NoCpu)) /\ (sem_post \/ stsSem' = stsSem)
      /\ UNCHANGED <<procVars, connected, evicting, response, waiters, netVars, canSchedule, comp,
                     kmNew, kmReq>>
  BY HomeValues DEF FreeCpu, send_memory_read, Idle, Frees
<1>2. /\ thr' \in [Threads -> [at : Places, pid : Proc \cup {NoProc}, cpu : Cpu \cup {NoCpu}]]
      /\ thr'[c].at = "idle" /\ \A u \in Threads : u # c => thr'[u] = thr[u]
  BY <1>1, GotoType DEF IndInv, Types, Places
<1>3. thr'["STS"] = thr["STS"] /\ thr'["QM"] = thr["QM"] /\ thr'["KM"] = thr["KM"]
  BY <1>2
<1>4. CpuInv(c) /\ thr[c].pid \in Proc /\ Unassigned(c) /\ connected[c] \notin {"no", "gone"} /\ ~Sends(c)
  BY <1>1 DEF IndInv, Cpus, CpuInv, HandlerArgs, Avail, Connection, Sends, Frees
<1>5. /\ available' \in [Cpu -> BOOLEAN] /\ available'[c] = TRUE
      /\ \A d \in Cpu : d # c => available'[d] = available[d]
  BY <1>1 DEF IndInv, Types, CpuTypes
<1>6. /\ StsSends(c)' = StsSends(c) /\ ~Sends(c)' /\ NoOrder(c)' = NoOrder(c) /\ NoYield(c)' = NoYield(c)
      /\ NoEvict(c)' = NoEvict(c) /\ NoConfirm(c)' = NoConfirm(c) /\ Unassigned(c)' = Unassigned(c)
  BY <1>1, <1>2, <1>3 DEF StsSends, Sends, NoOrder, NoYield, NoEvict, NoConfirm,
      Unassigned
<1>7. HandlerArgs(c)' /\ Avail(c)' /\ Connection(c)'
  BY <1>1, <1>2, <1>4, <1>6 DEF CpuInv, HandlerArgs, Avail, Connection, Frees
<1>8. Assigned(c)' /\ Exclusive(c)'
  BY <1>1, <1>3, <1>4, <1>6 DEF CpuInv, Assigned, Exclusive
<1>9. Eviction(c)'
  BY <1>1, <1>2, <1>4, <1>6 DEF CpuInv, Eviction
<1>10. CpuInv(c)'
  BY <1>7, <1>8, <1>9 DEF CpuInv
<1>11. Types'
  <2>1. stsSem' \in 0 .. MaxWakeups
    BY <1>1, SemPost DEF IndInv, Types, ThrTypes
  <2> QED BY <1>1, <1>2, <1>3, <1>4, <1>5, <2>1 DEF IndInv, Types, ProcTypes,
      CpuTypes, NetTypes, ThrTypes, Quiet
<1>12. Lists'
  BY <1>1, ListsFrame DEF IndInv
<1>13. Origins'
  <2>1. \A d \in Cpu : Held(d)' => d # c /\ thr'[d] = thr[d] /\ Held(d)
    BY <1>2 DEF Held, Frees
  <2>2. Held(c) /\ state[thr[c].pid] = "BLOCK"
    BY <1>1 DEF Held, Frees, IndInv, Origins, Awaited
  <2>3. \A q \in Awaited' : state'[q] \in {"BLOCK", "EXIT"} /\ \A d \in Cpu : Frees(d)' => thr'[d].pid # q
    BY <1>1, <2>1, <2>2 DEF IndInv, Origins, Awaited, Held, Frees
  <2> QED BY <1>1, <2>1, <2>3 DEF IndInv, Origins, Awaited, Held, Frees
<1>14. \A d \in Cpu : d # c => UNCHANGED CpuPart(d)
  BY <1>1, <1>2, <1>5 DEF CpuPart
<1> QED BY <1>1, <1>3, <1>10, <1>11, <1>12, <1>13, <1>14, OneCpuFrame

-----------------------------------------------------------------------------
\* A process becomes READY and joins its queue.
LEMMA ListsEnqueue ==
    ASSUME ProcTypes, Lists, NEW p \in Proc, state[p] \notin {"READY", "NONE", "ASSIGNED"},
           state' = [state EXCEPT ![p] = "READY"], cpu' = [cpu EXCEPT ![p] = NoCpu],
           readyQ' = add_process_to_ready_queue(readyQ, p, Priority[p]),
           \A q \in Proc : InList(exec', q) <=> q # p /\ InList(exec, q),
           \A i, j \in DOMAIN exec' : exec'[i] = exec'[j] => i = j,
           UNCHANGED listed
    PROVE  Lists' /\ state' \in [Proc -> States] /\ readyQ' \in [Queues -> Seq(Proc)]
<1>1. "READY" \in States /\ NoCpu \in Cpu \cup {NoCpu}
  BY DEF States
<1>2. InList(listed, p) /\ NotQueued(readyQ, p)
  BY DEF Lists, ListedProcs, ReadyQueuesMatchStates
<1>3. Priority[p] \in Nat /\ \A q \in Proc : Priority[q] \in Nat
  BY DispatchAssumption
<1>4. /\ readyQ' \in [Queues -> Seq(Proc)] /\ QueuedOnceAt(readyQ', p, Priority[p])
      /\ \A q \in Proc : q # p =>
            /\ NotQueued(readyQ, q) => NotQueued(readyQ', q)
            /\ QueuedOnceAt(readyQ, q, Priority[q]) => QueuedOnceAt(readyQ', q, Priority[q])
  BY <1>2, <1>3, AddToQueue DEF ProcTypes
<1>5. NoCpu # NoCpu <=> "READY" = "EXEC"
  OBVIOUS
<1>6. \A q \in Proc : InList(exec', q) <=> IF q = p THEN "READY" = "EXEC" ELSE InList(exec, q)
  OBVIOUS
<1>7. \A q \in Proc : InList(listed', q) <=>
          IF q = p THEN "READY" \notin {"NONE", "ASSIGNED"} ELSE InList(listed, q)
  BY <1>2
<1>8. IF "READY" = "READY" THEN QueuedOnceAt(readyQ', p, Priority[p]) ELSE NotQueued(readyQ', p)
  BY <1>4
<1>9. Lists'
  BY <1>1, <1>4, <1>5, <1>6, <1>7, <1>8, ListsMove
<1> QED BY <1>1, <1>4, <1>9 DEF ProcTypes

\* The process of c, if any, goes back to its ready queue.
LEMMA Detached ==
    ASSUME IndInv, NEW c \in Cpu, Detach(get_process_from_cpu(c)), UNCHANGED <<kmNew, kmRead, ioReq, thr>>
    PROVE  /\ ProcTypes' /\ Lists' /\ Origins' /\ Unassigned(c)' /\ pendingMem' = pendingMem
           /\ \A d \in Cpu : \A q \in Proc : d # c => (cpu'[q] = d <=> cpu[q] = d)
<1> USE CpuNames, QueueAssumption DEF procVars
<1>0. \/ get_process_from_cpu(c) = NoProc /\ Unassigned(c)
      \/ get_process_from_cpu(c) \in Proc /\ cpu[get_process_from_cpu(c)] = c
  BY ProcessOfCpu DEF IndInv, Types
<1>1. CASE get_process_from_cpu(c) = NoProc /\ Unassigned(c)
  <2>1. UNCHANGED procVars
    BY <1>1 DEF Detach
  <2> QED BY <1>1, <2>1, ListsFrame, OriginsFrame DEF IndInv, Types, ProcTypes,
      Unassigned
<1>2. CASE get_process_from_cpu(c) \in Proc /\ cpu[get_process_from_cpu(c)] = c
  <2>1. PICK p \in Proc : p = get_process_from_cpu(c) /\ cpu[p] = c
    BY <1>2
  <2>2. /\ state' = [state EXCEPT ![p] = "READY"] /\ cpu' = [cpu EXCEPT ![p] = NoCpu]
        /\ readyQ' = add_process_to_ready_queue(readyQ, p, Priority[p])
        /\ exec' = RemoveFirst(exec, p) /\ UNCHANGED <<listed, pendingMem>>
    BY <2>1 DEF Detach
  <2>3. /\ state[p] = "EXEC" /\ cpu' \in [Proc -> Cpu \cup {NoCpu}] /\ exec' \in Seq(Proc)
        /\ \A i, j \in DOMAIN exec' : exec'[i] = exec'[j] => i = j
        /\ \A q \in Proc : InList(exec', q) <=> q # p /\ InList(exec, q)
        /\ Unassigned(c)' /\ \A d \in Cpu : \A q \in Proc : d # c => (cpu'[q] = d <=> cpu[q] = d)
    <3>1. cpu[p] = c /\ cpu' = [cpu EXCEPT ![p] = NoCpu] /\ exec' = RemoveFirst(exec, p)
      BY <2>1, <2>2
    <3> QED BY ONLY IndInv, c \in Cpu, p \in Proc, <3>1, LeavesCpu
  <2>4. Lists' /\ state' \in [Proc -> States] /\ readyQ' \in [Queues -> Seq(Proc)]
    BY <2>2, <2>3, ListsEnqueue DEF IndInv, Types
  <2>5. p \notin kmNew /\ p \notin Awaited /\ \A d \in Cpu : Held(d) => thr[d].pid \in Proc \ {p}
    BY <2>3, NotAwaited
  <2>6. \A q \in Proc : q # p => state'[q] = state[q]
    BY <2>2 DEF IndInv, Types, ProcTypes
  <2>7. Origins'
    <3>1. \A d \in Cpu : Held(d)' => thr'[d] = thr[d] /\ thr[d].pid \in Proc \ {p}
      BY <2>5 DEF Held, Frees
    <3> QED BY <2>5, <2>6, <3>1, OriginsMove DEF IndInv, Types, ProcTypes, Awaited
  <2> QED BY <2>2, <2>3, <2>4, <2>7 DEF IndInv, Types, ProcTypes
<1> QED BY <1>0, <1>1, <1>2

\* handle_cpu_disconnection.
LEMMA KeepDisconnection ==
    ASSUME IndInv, NEW c \in Cpu, handle_cpu_disconnection(c)
    PROVE  IndInv'
<1> USE CpuNames DEF cpuVars, netVars, extVars
<1>1. /\ connected[c] = "lost" /\ fromCpu[c] = <<>> /\ thr[c].at = "idle"
      /\ connected' = [connected EXCEPT ![c] = "gone"] /\ available' = [available EXCEPT ![c] = FALSE]
      /\ Detach(get_process_from_cpu(c)) /\ sem_post
      /\ UNCHANGED <<evicting, response, waiters, netVars, thr, canSchedule, comp, extVars>>
  BY DEF handle_cpu_disconnection
<1>2. /\ ProcTypes' /\ Lists' /\ Origins' /\ Unassigned(c)' /\ pendingMem' = pendingMem
      /\ \A d \in Cpu : \A q \in Proc : d # c => (cpu'[q] = d <=> cpu[q] = d)
  BY <1>1, Detached
<1>3. /\ connected' \in [Cpu -> {"no", "yes", "lost", "gone"}] /\ available' \in [Cpu -> BOOLEAN]
      /\ connected'[c] = "gone" /\ available'[c] = FALSE
      /\ \A d \in Cpu : d # c => connected'[d] = connected[d] /\ available'[d] = available[d]
  BY <1>1 DEF IndInv, Types, CpuTypes
<1>4. CpuInv(c) /\ toCpu[c] = <<>> /\ running[c] = NoProc /\ ~Sends(c)
  BY <1>1 DEF IndInv, Cpus, CpuInv, Connection, Sends
<1>5. /\ StsSends(c)' = StsSends(c) /\ ~Sends(c)' /\ NoOrder(c)' /\ NoYield(c)' /\ NoEvict(c)' /\ NoConfirm(c)'
  BY <1>1, <1>4 DEF StsSends, Sends, NoOrder, NoYield, NoEvict, NoConfirm
<1>6. HandlerArgs(c)' /\ Avail(c)' /\ Connection(c)'
  BY <1>1, <1>2, <1>3, <1>4, <1>5 DEF HandlerArgs, Avail, Connection, Frees
<1>7. Assigned(c)' /\ Exclusive(c)'
  BY <1>1, <1>3, <1>4, <1>5 DEF Assigned, Exclusive
<1>8. Eviction(c)'
  <2>1. /\ waiters[c] = IF evicting[c] THEN 1 ELSE 0
        /\ ~evicting[c] => response[c] = 0
        /\ evicting[c] => ~StsSends(c)
        /\ response[c] \in {0, 1}
    BY <1>4 DEF CpuInv, Eviction
  <2> QED BY <1>1, <1>3, <1>4, <1>5, <2>1 DEF Eviction
<1>9. CpuInv(c)'
  BY <1>6, <1>7, <1>8 DEF CpuInv
<1>10. Types'
  <2>1. stsSem' \in 0 .. MaxWakeups
    BY <1>1, SemPost DEF IndInv, Types
  <2> QED BY <1>1, <1>2, <1>3, <2>1 DEF IndInv, Types, CpuTypes, NetTypes, ThrTypes,
      Quiet
<1>11. \A d \in Cpu : d # c => UNCHANGED CpuPart(d)
  BY <1>1, <1>3 DEF CpuPart
<1>12. \A d \in Cpu : connected[d] # "no" => connected'[d] # "no"
  BY <1>3
<1> QED BY <1>1, <1>2, <1>9, <1>10, <1>11, <1>12, OneCpuFrame

\* wait_confirmation_thread_and_handle_state: the confirmation it consumed
\* says that nothing is under way on the CPU.
LEMMA KeepWaitConfirmation ==
    ASSUME IndInv, NEW c \in Cpu, wait_confirmation_thread_and_handle_state(c)
    PROVE  IndInv'
<1> USE CpuNames DEF cpuVars, netVars, extVars
<1>1. /\ waiters[c] > 0 /\ response[c] > 0 /\ response' = [response EXCEPT ![c] = @ - 1]
      /\ waiters' = [waiters EXCEPT ![c] = @ - 1] /\ EndEviction(c)
      /\ Requeue(get_process_from_cpu(c)) /\ sem_post
      /\ UNCHANGED <<connected, netVars, thr, canSchedule, comp, extVars>>
  BY DEF wait_confirmation_thread_and_handle_state, WaitResponse
<1>2. Detach(get_process_from_cpu(c))
  <2>1. get_process_from_cpu(c) = NoProc \/ get_process_from_cpu(c) \in Proc
    BY ProcessOfCpu DEF IndInv, Types
  <2>2. get_process_from_cpu(c) \in Proc => pendingMem[get_process_from_cpu(c)] = FALSE
    BY DEF IndInv, Types, Quiet
  <2> QED BY <1>1, <2>1, <2>2 DEF Requeue, Detach
<1>3. /\ ProcTypes' /\ Lists' /\ Origins' /\ Unassigned(c)' /\ pendingMem' = pendingMem
      /\ \A d \in Cpu : \A q \in Proc : d # c => (cpu'[q] = d <=> cpu[q] = d)
  BY <1>1, <1>2, Detached
<1>4. /\ available' = [available EXCEPT ![c] = connected[c] # "gone"]
      /\ evicting' = [evicting EXCEPT ![c] = FALSE]
  BY <1>1 DEF EndEviction
<1>5. CpuInv(c) /\ waiters[c] \in Nat /\ response[c] \in Nat
  BY DEF IndInv, Cpus, Types, CpuTypes
<1>6. /\ evicting[c] /\ waiters[c] = 1 /\ response[c] = 1 /\ ~StsSends(c) /\ connected[c] # "no"
      /\ toCpu[c] = <<>> /\ fromCpu[c] = <<>> /\ running[c] = NoProc /\ thr[c].at = "idle"
  BY <1>1, <1>5 DEF CpuInv, Eviction, Connection
<1>7. /\ response' \in [Cpu -> Nat] /\ waiters' \in [Cpu -> Nat] /\ available' \in [Cpu -> BOOLEAN]
      /\ evicting' \in [Cpu -> BOOLEAN]
      /\ response'[c] = 0 /\ waiters'[c] = 0 /\ available'[c] = (connected[c] # "gone") /\ evicting'[c] = FALSE
      /\ \A d \in Cpu : d # c => /\ response'[d] = response[d] /\ waiters'[d] = waiters[d]
                                 /\ available'[d] = available[d] /\ evicting'[d] = evicting[d]
  <2>1. /\ response' \in [Cpu -> Nat] /\ waiters' \in [Cpu -> Nat] /\ response'[c] = 0 /\ waiters'[c] = 0
        /\ \A d \in Cpu : d # c => response'[d] = response[d] /\ waiters'[d] = waiters[d]
    BY <1>1, <1>6 DEF IndInv, Types, CpuTypes
  <2>2. /\ available' \in [Cpu -> BOOLEAN] /\ evicting' \in [Cpu -> BOOLEAN]
        /\ available'[c] = (connected[c] # "gone") /\ evicting'[c] = FALSE
        /\ \A d \in Cpu : d # c => available'[d] = available[d] /\ evicting'[d] = evicting[d]
    BY <1>4 DEF IndInv, Types, CpuTypes
  <2> QED BY <2>1, <2>2
<1>8. ~StsSends(c)' /\ ~Sends(c)' /\ NoOrder(c)' /\ NoYield(c)' /\ NoEvict(c)' /\ NoConfirm(c)'
  BY <1>1, <1>6 DEF StsSends, Sends, NoOrder, NoYield, NoEvict, NoConfirm
<1>9. HandlerArgs(c)' /\ Avail(c)' /\ Connection(c)'
  BY <1>1, <1>3, <1>6, <1>7, <1>8 DEF HandlerArgs, Avail, Connection, Frees
<1>10. Assigned(c)' /\ Exclusive(c)'
  BY <1>1, <1>6, <1>8 DEF Assigned, Exclusive
<1>11. Eviction(c)'
  BY <1>1, <1>6, <1>7, <1>8 DEF Eviction
<1>12. CpuInv(c)'
  BY <1>9, <1>10, <1>11 DEF CpuInv
<1>13. Types'
  <2>1. stsSem' \in 0 .. MaxWakeups
    BY <1>1, SemPost DEF IndInv, Types
  <2> QED BY <1>1, <1>3, <1>7, <2>1 DEF IndInv, Types, CpuTypes, NetTypes, ThrTypes,
      Quiet
<1>14. \A d \in Cpu : d # c => UNCHANGED CpuPart(d)
  BY <1>1, <1>7 DEF CpuPart
<1> QED BY <1>1, <1>3, <1>12, <1>13, <1>14, OneCpuFrame

-----------------------------------------------------------------------------
\* A process that is not in EXEC has no CPU.
LEMMA SameCpu ==
    ASSUME ProcTypes, Lists, NEW p \in Proc, state[p] # "EXEC"
    PROVE  cpu = [cpu EXCEPT ![p] = NoCpu] /\ cpu[p] = NoCpu /\ ~InList(exec, p)
<1>1. cpu[p] = NoCpu /\ ~InList(exec, p)
  BY DEF Lists, ExecList
<1> QED BY <1>1 DEF ProcTypes

\* A process that is neither ready nor executing changes state, and stays so.
LEMMA ListsRelabel ==
    ASSUME ProcTypes, Lists, NEW p \in Proc, NEW s \in States, state[p] \notin {"EXEC", "READY"},
           s \notin {"EXEC", "READY"}, state' = [state EXCEPT ![p] = s],
           \A q \in Proc : InList(listed', q) <=>
               IF q = p THEN s \notin {"NONE", "ASSIGNED"} ELSE InList(listed, q),
           UNCHANGED <<cpu, exec, readyQ>>
    PROVE  Lists'
<1>1. cpu' = [cpu EXCEPT ![p] = NoCpu] /\ ~InList(exec, p) /\ NoCpu \in Cpu \cup {NoCpu}
  BY SameCpu
<1>2. NotQueued(readyQ, p)
  BY DEF Lists, ReadyQueuesMatchStates
<1>3. NoCpu # NoCpu <=> s = "EXEC"
  OBVIOUS
<1>4. /\ \A q \in Proc : InList(exec', q) <=> IF q = p THEN s = "EXEC" ELSE InList(exec, q)
      /\ \A i, j \in DOMAIN exec' : exec'[i] = exec'[j] => i = j
  BY <1>1 DEF Lists, ExecList
<1>5. IF s = "READY" THEN QueuedOnceAt(readyQ', p, Priority[p]) ELSE NotQueued(readyQ', p)
  BY <1>2
<1>6. \A q \in Proc : q # p =>
          /\ NotQueued(readyQ, q) => NotQueued(readyQ', q)
          /\ QueuedOnceAt(readyQ, q, Priority[q]) => QueuedOnceAt(readyQ', q, Priority[q])
  OBVIOUS
<1> QED BY <1>1, <1>3, <1>4, <1>5, <1>6, ListsMove

\* INIT_PROC: the PID is assigned and Kernel Memory asked ...
LEMMA KeepProcessCreate ==
    ASSUME IndInv, NEW c \in Cpu, HandleProcessCreate(c)
    PROVE  IndInv'
<1> USE CpuNames, QueueAssumption DEF procVars, cpuVars, netVars, extVars
<1>1. PICK p \in Proc, q \in Proc :
        /\ Receive(c, "PROCESS_CREATE", p) /\ state[q] = "NONE"
        /\ state' = [state EXCEPT ![q] = "ASSIGNED"] /\ kmNew' = kmNew \cup {q}
        /\ Goto(c, Local("create", q, NoCpu))
        /\ UNCHANGED <<cpu, listed, exec, readyQ, pendingMem, cpuVars, toCpu, running, stsSem,
                       canSchedule, comp, kmReq, kmRead, ioReq>>
  BY DEF HandleProcessCreate
<1>2. fromCpu' \in [Cpu -> Seq(Reports)] /\ \A d \in Cpu : d # c => fromCpu'[d] = fromCpu[d]
  BY <1>1, Received
<1>3. /\ CpuInv(c) /\ response[c] = 0 /\ connected[c] \in {"yes", "lost"} /\ thr[c].at = "idle"
      /\ NoYield(c) => NoYield(c)'
  BY <1>1, ReceivedState
<1>4. /\ thr' \in [Threads -> [at : Places, pid : Proc \cup {NoProc}, cpu : Cpu \cup {NoCpu}]]
      /\ thr'[c].at = "create" /\ thr'[c].pid = q
      /\ \A u \in Threads : u # c => thr'[u] = thr[u]
  BY <1>1, GotoType DEF IndInv, Types, Places
<1>5. thr'["STS"] = thr["STS"] /\ thr'["QM"] = thr["QM"] /\ thr'["KM"] = thr["KM"]
  BY <1>4
<1>6. /\ Eviction(c)' /\ Connection(c)' /\ StsSends(c)' = StsSends(c) /\ NoOrder(c)' = NoOrder(c)
  BY <1>1, <1>3, <1>4, <1>5, ReceivedFrame
<1>7. HandlerArgs(c)' /\ Avail(c)'
  BY <1>1, <1>3, <1>4 DEF CpuInv, HandlerArgs, Avail, Sends, Unassigned, Frees
<1>8. \A i \in DOMAIN fromCpu'[c] : i + 1 \in DOMAIN fromCpu[c] /\ i \in Nat /\ fromCpu'[c][i] = fromCpu[c][i + 1]
  BY <1>1, Received
<1>9. Assigned(c)'
  BY <1>1, <1>3, <1>4, <1>5, <1>6, <1>8 DEF CpuInv, Assigned, Sends
<1>10. Exclusive(c)'
  <2>1. ~Sends(c)'
    BY <1>4 DEF Sends
  <2>2. \A i, j \in DOMAIN fromCpu'[c] :
          fromCpu'[c][i].op \in Yields /\ fromCpu'[c][j].op \in Yields => i = j
    <3> SUFFICES ASSUME NEW i \in DOMAIN fromCpu'[c], NEW j \in DOMAIN fromCpu'[c],
                        fromCpu'[c][i].op \in Yields, fromCpu'[c][j].op \in Yields
                 PROVE  i = j
      OBVIOUS
    <3>1. i + 1 = j + 1 /\ i \in Nat /\ j \in Nat
      BY <1>3, <1>8 DEF CpuInv, Exclusive
    <3> QED BY <3>1
  <2> QED BY <1>1, <1>3, <1>6, <2>1, <2>2 DEF CpuInv, Exclusive
<1>11. CpuInv(c)'
  BY <1>6, <1>7, <1>9, <1>10 DEF CpuInv
<1>12. state' \in [Proc -> States] /\ state'[q] = "ASSIGNED" /\ \A r \in Proc : r # q => state'[r] = state[r]
  BY <1>1 DEF IndInv, Types, ProcTypes, States
<1>13. Types'
  BY <1>1, <1>2, <1>4, <1>5, <1>12 DEF IndInv, Types, ProcTypes, CpuTypes, NetTypes,
      ThrTypes, Quiet
<1>14. Lists'
  <2>1. PICK s \in States : s = "ASSIGNED"
    BY DEF States
  <2>2. \A r \in Proc : InList(listed', r) <=>
            IF r = q THEN s \notin {"NONE", "ASSIGNED"} ELSE InList(listed, r)
    BY <1>1, <2>1 DEF IndInv, Lists, ListedProcs
  <2>3. /\ state[q] \notin {"EXEC", "READY"} /\ s \notin {"EXEC", "READY"}
        /\ state' = [state EXCEPT ![q] = s] /\ UNCHANGED <<cpu, exec, readyQ>>
    BY <1>1, <2>1
  <2>4. ProcTypes /\ Lists
    BY DEF IndInv, Types
  <2> QED BY <2>2, <2>3, <2>4, ListsRelabel
<1>15. Origins'
  <2>1. q \notin kmNew /\ q \notin Awaited /\ \A d \in Cpu : Held(d) => thr[d].pid \in Proc \ {q}
    BY <1>1, NotAwaited
  <2>2. \A d \in Cpu : d # c => thr'[d] = thr[d]
    BY <1>4
  <2>3. \A d \in Cpu : d # c /\ Held(d)' => Held(d) /\ thr'[d].pid # q
    BY <2>1, <2>2 DEF Held, Frees
  <2>4. Awaited' = Awaited /\ ioReq' = ioReq /\ kmRead' = kmRead /\ kmNew \subseteq Proc /\ Awaited \subseteq Proc
    BY <1>1 DEF IndInv, Types, ProcTypes, Awaited
  <2>5. \A r \in kmNew' : state'[r] \in {"ASSIGNED", "NEW"}
    BY <1>1, <1>12, <2>1, <2>4 DEF IndInv, Origins, Awaited, Frees
  <2>6. \A r \in Awaited' : state'[r] \in {"BLOCK", "EXIT"} /\ \A d \in Cpu : Frees(d)' => thr'[d].pid # r
    BY <1>4, <1>12, <2>1, <2>2, <2>4 DEF IndInv, Origins, Awaited, Frees
  <2>7. \A d \in Cpu : thr[d].at \in {"create", "free", "read"} => thr[d].pid \in Proc
    BY DEF IndInv, Cpus, CpuInv, HandlerArgs
  <2>8. /\ \A d \in Cpu : Frees(d)' => state'[thr'[d].pid] = "BLOCK"
        /\ \A d \in Cpu : thr'[d].at = "create" => state'[thr'[d].pid] = "ASSIGNED"
    BY <1>4, <1>12, <2>1, <2>2, <2>7 DEF IndInv, Origins, Awaited, Held, Frees
  <2>9. \A d, e \in Cpu : Held(d)' /\ Held(e)' /\ thr'[d].pid = thr'[e].pid => d = e
    BY <1>4, <2>2, <2>3 DEF IndInv, Origins, Awaited, Frees
  <2> QED BY <2>4, <2>5, <2>6, <2>8, <2>9 DEF IndInv, Origins
<1>16. \A d \in Cpu : d # c => UNCHANGED CpuPart(d)
  BY <1>1, <1>2, <1>4 DEF CpuPart
<1> QED BY <1>1, <1>5, <1>11, <1>13, <1>14, <1>15, <1>16, OneCpuFrame

\* ... and then the process is listed.
LEMMA KeepListProcess ==
    ASSUME IndInv, NEW c \in Cpu, ListProcess(c)
    PROVE  IndInv'
<1> USE CpuNames, QueueAssumption DEF procVars, cpuVars, netVars, extVars
<1>0. thr[c].at = "create" /\ thr[c].pid \in Proc
  BY DEF ListProcess, IndInv, Cpus, CpuInv, HandlerArgs
<1>1. PICK q \in Proc : q = thr[c].pid
  BY <1>0
<1>2. /\ state' = [state EXCEPT ![q] = "NEW"] /\ listed' = Append(listed, q)
      /\ Goto(c, Local("idle", NoProc, NoCpu))
      /\ UNCHANGED <<cpu, exec, readyQ, pendingMem, cpuVars, netVars, stsSem, canSchedule, comp, extVars>>
  BY <1>1, HomeValues DEF ListProcess, Idle
<1>3. /\ thr' \in [Threads -> [at : Places, pid : Proc \cup {NoProc}, cpu : Cpu \cup {NoCpu}]]
      /\ thr'[c].at = "idle" /\ \A u \in Threads : u # c => thr'[u] = thr[u]
  BY <1>2, GotoType DEF IndInv, Types, Places
<1>4. thr'["STS"] = thr["STS"] /\ thr'["QM"] = thr["QM"] /\ thr'["KM"] = thr["KM"]
  BY <1>3
<1>5. CpuInv(c) /\ ~Sends(c) /\ state[q] = "ASSIGNED"
  BY <1>0, <1>1 DEF IndInv, Cpus, Sends, Origins, Awaited, Frees
<1>6. /\ StsSends(c)' = StsSends(c) /\ ~Sends(c)' /\ NoOrder(c)' = NoOrder(c) /\ NoYield(c)' = NoYield(c)
      /\ NoEvict(c)' = NoEvict(c) /\ NoConfirm(c)' = NoConfirm(c) /\ Unassigned(c)' = Unassigned(c)
  BY <1>2, <1>3, <1>4 DEF StsSends, Sends, NoOrder, NoYield, NoEvict, NoConfirm,
      Unassigned
<1>7. HandlerArgs(c)' /\ Avail(c)' /\ Connection(c)'
  BY <1>0, <1>2, <1>3, <1>5, <1>6 DEF CpuInv, HandlerArgs, Avail, Connection, Frees
<1>8. Assigned(c)' /\ Exclusive(c)'
  BY <1>2, <1>4, <1>5, <1>6 DEF CpuInv, Assigned, Exclusive
<1>9. Eviction(c)'
  BY <1>2, <1>3, <1>5, <1>6 DEF CpuInv, Eviction
<1>10. CpuInv(c)'
  BY <1>7, <1>8, <1>9 DEF CpuInv
<1>11. /\ listed' \in Seq(Proc) /\ \A r \in Proc : InList(listed', r) <=> r = q \/ InList(listed, r)
  <2>1. listed \in Seq(Proc)
    BY DEF IndInv, Types, ProcTypes
  <2>2. /\ listed' \in Seq(Proc)
        /\ \A i \in DOMAIN listed : i \in DOMAIN listed' /\ listed'[i] = listed[i]
        /\ \A i \in DOMAIN listed' : i \in DOMAIN listed \/ i = Len(listed) + 1
        /\ Len(listed) + 1 \in DOMAIN listed' /\ listed'[Len(listed) + 1] = q
    BY <1>2, <2>1, ListAppend
  <2> QED BY <2>2 DEF InList
<1>12. state' \in [Proc -> States] /\ state'[q] = "NEW" /\ \A r \in Proc : r # q => state'[r] = state[r]
  BY <1>2 DEF IndInv, Types, ProcTypes, States
<1>13. Types'
  BY <1>2, <1>3, <1>4, <1>11, <1>12 DEF IndInv, Types, ProcTypes, CpuTypes, NetTypes,
      ThrTypes, Quiet
<1>14. Lists'
  <2>1. "NEW" \in States
    BY DEF States
  <2>2. \A r \in Proc : InList(listed', r) <=>
            IF r = q THEN "NEW" \notin {"NONE", "ASSIGNED"} ELSE InList(listed, r)
    BY <1>11
  <2> QED BY <1>2, <1>5, <2>1, <2>2, ListsRelabel DEF IndInv, Types
<1>15. Origins'
  <2>1. \A d \in Cpu : Held(d)' => d # c /\ thr'[d] = thr[d] /\ Held(d)
    BY <1>3 DEF Held, Frees
  <2>2. Held(c)
    BY <1>0 DEF Held, Frees
  <2>3. \A d \in Cpu : Held(d) => thr[d].pid \in Proc
    BY DEF Held, Frees, IndInv, Cpus, CpuInv, HandlerArgs
  <2>4. \A d \in Cpu : Held(d)' => thr'[d].pid \in Proc /\ thr'[d].pid # q
    BY <1>1, <2>1, <2>2, <2>3 DEF IndInv, Origins, Awaited, Frees
  <2>5. kmNew' = kmNew /\ Awaited' = Awaited /\ ioReq' = ioReq /\ kmRead' = kmRead /\ kmNew \subseteq Proc /\ Awaited \subseteq Proc /\ q \notin Awaited
    BY <1>2, <1>5 DEF IndInv, Types, ProcTypes, Origins, Awaited, Frees, Awaited
  <2>6. \A r \in kmNew' : state'[r] \in {"ASSIGNED", "NEW"}
    BY <1>12, <2>5 DEF IndInv, Origins, Awaited, Frees
  <2>7. \A r \in Awaited' : state'[r] \in {"BLOCK", "EXIT"} /\ \A d \in Cpu : Frees(d)' => thr'[d].pid # r
    BY <1>12, <2>1, <2>5 DEF IndInv, Origins, Awaited, Held, Frees
  <2>8. /\ \A d \in Cpu : Frees(d)' => state'[thr'[d].pid] = "BLOCK"
        /\ \A d \in Cpu : thr'[d].at = "create" => state'[thr'[d].pid] = "ASSIGNED"
    BY <1>12, <2>1, <2>4 DEF IndInv, Origins, Awaited, Held, Frees
  <2>9. \A d, e \in Cpu : Held(d)' /\ Held(e)' /\ thr'[d].pid = thr'[e].pid => d = e
    BY <2>1 DEF IndInv, Origins, Awaited, Frees
  <2> QED BY <2>5, <2>6, <2>7, <2>8, <2>9 DEF IndInv, Origins
<1>16. \A d \in Cpu : d # c => UNCHANGED CpuPart(d)
  BY <1>2, <1>3 DEF CpuPart
<1> QED BY <1>2, <1>4, <1>10, <1>13, <1>14, <1>15, <1>16, OneCpuFrame

\* Nothing about any CPU changes.
LEMMA CpusFrame ==
    ASSUME IndInv, UNCHANGED <<cpu, cpuVars, netVars, thr>>
    PROVE  Cpus'
<1> USE DEF cpuVars, netVars
<1>1. SchedArgs'
  BY DEF IndInv, Cpus, SchedArgs, Sends
<1>2. ASSUME NEW c \in Cpu PROVE CpuInv(c)'
  <2>1. StsSends(c)' => StsSends(c) /\ thr'["STS"].pid = thr["STS"].pid
    BY DEF StsSends, Sends
  <2>2. UNCHANGED CpuPart(c)
    BY DEF CpuPart
  <2> QED BY <2>1, <2>2, CpuFrame DEF IndInv, Cpus
<1> QED BY <1>1, <1>2 DEF Cpus

\* A process that was created or served by a device becomes ready.
LEMMA BecomesReady ==
    ASSUME IndInv, NEW p \in Proc, state[p] \in {"NEW", "BLOCK", "EXIT"}, state' = [state EXCEPT ![p] = "READY"],
           readyQ' = add_process_to_ready_queue(readyQ, p, Priority[p]), sem_post,
           kmNew' \subseteq kmNew \ {p}, ioReq' \subseteq ioReq \ {p} /\ kmRead' \subseteq kmRead \ {p},
           \A d \in Cpu : Frees(d) => thr[d].pid # p,
           UNCHANGED <<cpu, listed, exec, pendingMem, cpuVars, netVars, thr, canSchedule, comp, kmReq>>
    PROVE  IndInv'
<1> USE DEF cpuVars, netVars
<1>1. cpu' = [cpu EXCEPT ![p] = NoCpu] /\ ~InList(exec, p)
  BY SameCpu DEF IndInv, Types
<1>2. Lists' /\ state' \in [Proc -> States] /\ readyQ' \in [Queues -> Seq(Proc)]
  <2>1. \A q \in Proc : InList(exec', q) <=> q # p /\ InList(exec, q)
    BY <1>1
  <2>2. \A i, j \in DOMAIN exec' : exec'[i] = exec'[j] => i = j
    BY DEF IndInv, Lists, ExecList
  <2> QED BY <1>1, <2>1, <2>2, ListsEnqueue DEF IndInv, Types
<1>3. \A q \in Proc : q # p => state'[q] = state[q]
  BY DEF IndInv, Types, ProcTypes
<1>4. Origins'
  <2>1. \A d \in Cpu : Held(d) => thr[d].pid \in Proc \ {p}
    BY DEF IndInv, Origins, Awaited, Held, Frees, Cpus, CpuInv, HandlerArgs
  <2>2. \A d \in Cpu : Held(d)' => thr'[d] = thr[d] /\ thr[d].pid \in Proc \ {p}
    BY <2>1 DEF Held, Frees
  <2> QED BY <1>3, <2>2, OriginsMove DEF IndInv, Types, ProcTypes, Awaited
<1>5. Cpus'
  BY CpusFrame
<1>6. Types'
  <2>1. stsSem' \in 0 .. MaxWakeups
    BY SemPost DEF IndInv, Types
  <2> QED BY <1>2, <2>1 DEF IndInv, Types, ProcTypes, CpuTypes, NetTypes, ThrTypes,
      Quiet
<1> QED BY <1>2, <1>4, <1>5, <1>6 DEF IndInv

\* wait_process_create_confirmation, the lost answer included.
LEMMA KeepCreateConfirmation ==
    ASSUME IndInv, NEW p \in Proc, wait_process_create_confirmation(p)
    PROVE  IndInv'
<1> USE DEF extVars
<1>1. /\ p \in kmNew /\ kmNew' = kmNew \ {p}
      /\ UNCHANGED <<cpu, listed, exec, pendingMem, cpuVars, netVars, thr, canSchedule, comp, kmReq, kmRead, ioReq>>
  BY DEF wait_process_create_confirmation
<1>2. state[p] \in {"ASSIGNED", "NEW"}
  BY <1>1 DEF IndInv, Origins, Awaited, Frees
<1>3. p \notin Awaited /\ \A d \in Cpu : Frees(d) => thr[d].pid # p
  BY <1>2 DEF IndInv, Origins, Awaited, Frees
<1>4. CASE InList(listed, p)
  <2>1. state[p] = "NEW"
    BY <1>2, <1>4 DEF IndInv, Lists, ListedProcs
  <2>2. /\ state' = [state EXCEPT ![p] = "READY"] /\ sem_post
        /\ readyQ' = add_process_to_ready_queue(readyQ, p, Priority[p])
    BY <1>4 DEF wait_process_create_confirmation
  <2>3. ioReq' \subseteq ioReq \ {p} /\ kmRead' \subseteq kmRead \ {p}
    BY <1>1, <1>3 DEF Awaited
  <2> QED BY <1>1, <1>3, <2>1, <2>2, <2>3, BecomesReady
<1>5. CASE ~InList(listed, p)
  <2>1. UNCHANGED <<state, readyQ, stsSem>>
    BY <1>5 DEF wait_process_create_confirmation
  <2>2. Cpus'
    BY <1>1, CpusFrame
  <2>3. Lists'
    BY <1>1, <2>1, ListsFrame DEF IndInv
  <2>4. Origins'
    BY <1>1, <2>1 DEF IndInv, Origins, Awaited, Held, Frees
  <2>5. Types'
    BY <1>1, <2>1 DEF IndInv, Types, ProcTypes, CpuTypes, NetTypes, ThrTypes, Quiet,
        cpuVars, netVars
  <2> QED BY <2>2, <2>3, <2>4, <2>5 DEF IndInv
<1> QED BY <1>4, <1>5

\* io_finish_process.
LEMMA KeepIoFinish ==
    ASSUME IndInv, NEW p \in Proc, io_finish_process(p)
    PROVE  IndInv'
<1>1. /\ p \in ioReq /\ ioReq' = ioReq \ {p} /\ state' = [state EXCEPT ![p] = "READY"]
      /\ readyQ' = add_process_to_ready_queue(readyQ, p, Priority[p]) /\ sem_post
      /\ UNCHANGED <<cpu, listed, exec, pendingMem, cpuVars, netVars, thr, canSchedule, comp, kmNew, kmReq, kmRead>>
  BY DEF io_finish_process
<1>2. /\ state[p] \in {"BLOCK", "EXIT"} /\ p \notin kmNew /\ p \notin kmRead
      /\ \A d \in Cpu : Frees(d) => thr[d].pid # p
  BY <1>1 DEF IndInv, Origins, Awaited
<1>3. kmNew' \subseteq kmNew \ {p} /\ ioReq' \subseteq ioReq \ {p} /\ kmRead' \subseteq kmRead \ {p}
  BY <1>1, <1>2
<1> QED BY <1>1, <1>2, <1>3, BecomesReady

\* stdout_wait_memory_read: the process may end, and waits for a device.
LEMMA KeepStdoutRead ==
    ASSUME IndInv, NEW p \in Proc, NEW ok \in BOOLEAN, stdout_wait_memory_read(p, ok)
    PROVE  IndInv'
<1>1. /\ p \in kmRead /\ kmRead' = kmRead \ {p} /\ ioReq' = ioReq \cup {p} /\ sem_post
      /\ state' = state \/ state' = [state EXCEPT ![p] = "EXIT"]
      /\ UNCHANGED <<cpu, listed, exec, readyQ, pendingMem, cpuVars, netVars, thr, canSchedule, comp, kmNew, kmReq>>
  BY DEF stdout_wait_memory_read
<1>2. /\ state[p] \in {"BLOCK", "EXIT"} /\ p \notin kmNew /\ p \notin ioReq
      /\ \A d \in Cpu : Frees(d) => thr[d].pid # p
  BY <1>1 DEF IndInv, Origins, Awaited
<1>3. state' \in [Proc -> States] /\ state'[p] \in {"BLOCK", "EXIT"} /\ \A q \in Proc : q # p => state'[q] = state[q]
  BY <1>1, <1>2 DEF IndInv, Types, ProcTypes, States
<1>4. Lists'
  <2>1. CASE state' = state
    BY <1>1, <2>1, ListsFrame DEF IndInv
  <2>2. CASE state' = [state EXCEPT ![p] = "EXIT"]
    <3>1. InList(listed, p)
      BY <1>2 DEF IndInv, Lists, ListedProcs
    <3> QED BY <1>1, <1>2, <2>2, <3>1, ListsRelabel DEF IndInv, Types, States
  <2> QED BY <1>1, <2>1, <2>2
<1>5. Origins'
  <2>1. \A d \in Cpu : Held(d) => thr[d].pid \in Proc \ {p}
    BY <1>2 DEF IndInv, Origins, Held, Frees, Cpus, CpuInv, HandlerArgs
  <2>2. kmNew \subseteq Proc /\ kmRead \subseteq Proc /\ ioReq \subseteq Proc
    BY DEF IndInv, Types, ProcTypes
  <2>3. \A q \in kmNew' : state'[q] \in {"ASSIGNED", "NEW"}
    BY <1>1, <1>2, <1>3, <2>2 DEF IndInv, Origins
  <2>4. \A q \in Awaited' : state'[q] \in {"BLOCK", "EXIT"} /\ \A d \in Cpu : Frees(d)' => thr'[d].pid # q
    BY <1>1, <1>2, <1>3, <2>2 DEF IndInv, Origins, Awaited, Frees
  <2>5. ioReq' \cap kmRead' = {}
    BY <1>1 DEF IndInv, Origins
  <2>6. \A d \in Cpu : /\ Frees(d)' => state'[thr'[d].pid] = "BLOCK"
                       /\ thr'[d].at = "create" => state'[thr'[d].pid] = "ASSIGNED"
    BY <1>1, <1>3, <2>1 DEF IndInv, Origins, Held, Frees
  <2>7. \A d, e \in Cpu : Held(d)' /\ Held(e)' /\ thr'[d].pid = thr'[e].pid => d = e
    BY <1>1 DEF IndInv, Origins, Held
  <2> QED BY <2>3, <2>4, <2>5, <2>6, <2>7 DEF Origins
<1>6. Cpus'
  BY <1>1, CpusFrame
<1>7. Types'
  <2>1. stsSem' \in 0 .. MaxWakeups
    BY <1>1, SemPost DEF IndInv, Types
  <2> QED BY <1>1, <1>3, <2>1 DEF IndInv, Types, ProcTypes, CpuTypes, NetTypes, ThrTypes, Quiet, cpuVars, netVars
<1> QED BY <1>4, <1>5, <1>6, <1>7 DEF IndInv

-----------------------------------------------------------------------------
\* get_next_process_to_execute returns a READY process.
LEMMA NextIsReady ==
    ASSUME ProcTypes, get_next_process_to_execute # NoProc
    PROVE  get_next_process_to_execute \in Proc /\ state[get_next_process_to_execute] = "READY"
BY HighestIsQueued DEF get_next_process_to_execute, ProcTypes

\* A process takes an available CPU: nothing was under way for it, since
\* Assigned would give the CPU a process.
LEMMA KeepDispatch ==
    ASSUME IndInv, NEW c \in Cpu, StsDispatch(c)
    PROVE  IndInv'
<1> USE CpuNames, QueueAssumption DEF procVars, cpuVars, netVars, extVars
<1>0. get_next_process_to_execute \in Proc /\ state[get_next_process_to_execute] = "READY"
  BY NextIsReady DEF StsDispatch, IndInv, Types
<1>1. PICK p \in Proc : p = get_next_process_to_execute /\ state[p] = "READY"
  BY <1>0
<1>2. /\ thr["STS"].at = "loop" /\ available[c] /\ ~evicting[c]
      /\ readyQ' = remove_process_from_ready_queue(readyQ, p, Priority[p])
      /\ available' = [available EXCEPT ![c] = FALSE]
      /\ state' = [state EXCEPT ![p] = "EXEC"] /\ cpu' = [cpu EXCEPT ![p] = c]
      /\ exec' = Append(exec, p) /\ Goto("STS", Local("check", p, c))
      /\ UNCHANGED <<listed, pendingMem, connected, evicting, response, waiters, netVars, stsSem,
                     canSchedule, comp, extVars>>
  BY <1>1 DEF StsDispatch, TakeCpu, AvailableCpus
<1>3. CpuInv(c) /\ Unassigned(c) /\ connected[c] \notin {"no", "gone"} /\ ~Frees(c)
  BY <1>2 DEF IndInv, Cpus, CpuInv, Avail, Connection, Frees
<1>4. ~Sends(c) /\ NoOrder(c) /\ running[c] = NoProc /\ NoYield(c)
  <2>1. Sends(c) => thr[c].pid \in Proc
    BY <1>3 DEF CpuInv, HandlerArgs
  <2>2. /\ \A i \in DOMAIN toCpu[c] : toCpu[c][i].op = "PROCESS_EXECUTE" => toCpu[c][i].pid \in Proc
        /\ \A i \in DOMAIN fromCpu[c] : fromCpu[c][i].op \in Yields => fromCpu[c][i].pid \in Proc
        /\ running[c] # NoProc => running[c] \in Proc
    BY DEF IndInv, Types, NetTypes, CpuTypes, CpuOrders, Reports, Yields
  <2> QED BY <1>3, <2>1, <2>2 DEF CpuInv, Assigned, Unassigned, NoOrder, NoYield
<1>5. /\ thr' \in [Threads -> [at : Places, pid : Proc \cup {NoProc}, cpu : Cpu \cup {NoCpu}]]
      /\ thr'["STS"].at = "check" /\ thr'["STS"].pid = p /\ thr'["STS"].cpu = c
      /\ \A u \in Threads : u # "STS" => thr'[u] = thr[u]
  BY <1>2, GotoType DEF IndInv, Types, Places
<1>6. thr'[c] = thr[c] /\ thr'["QM"] = thr["QM"] /\ thr'["KM"] = thr["KM"]
  BY <1>5
<1>7. /\ available' \in [Cpu -> BOOLEAN] /\ available'[c] = FALSE
      /\ \A d \in Cpu : d # c => available'[d] = available[d]
  BY <1>2 DEF IndInv, Types, CpuTypes
<1>8. cpu[p] = NoCpu /\ ~InList(exec, p) /\ InList(listed, p) /\ QueuedOnceAt(readyQ, p, Priority[p])
  BY <1>1 DEF IndInv, Lists, ExecList, ListedProcs, ReadyQueuesMatchStates
<1>9. /\ cpu' \in [Proc -> Cpu \cup {NoCpu}] /\ cpu'[p] = c /\ state' \in [Proc -> States]
      /\ \A q \in Proc : q # p => cpu'[q] = cpu[q] /\ state'[q] = state[q]
  BY <1>2 DEF IndInv, Types, ProcTypes, States
<1>10. /\ exec' \in Seq(Proc) /\ \A i, j \in DOMAIN exec' : exec'[i] = exec'[j] => i = j
       /\ \A q \in Proc : InList(exec', q) <=> q = p \/ InList(exec, q)
  BY <1>2, <1>8, ExecAppend DEF IndInv, Types, ProcTypes, Lists, ExecList
<1>11. /\ readyQ' \in [Queues -> Seq(Proc)] /\ NotQueued(readyQ', p)
       /\ \A q \in Proc : q # p =>
            /\ NotQueued(readyQ, q) => NotQueued(readyQ', q)
            /\ QueuedOnceAt(readyQ, q, Priority[q]) => QueuedOnceAt(readyQ', q, Priority[q])
  <2>1. \A q \in Proc : Priority[q] \in Nat
    BY DispatchAssumption
  <2> QED BY <1>2, <1>8, <2>1, RemoveFromQueue DEF IndInv, Types, ProcTypes
<1>12. Lists'
  <2>1. "EXEC" \in States /\ c \in Cpu \cup {NoCpu}
    BY DEF States
  <2>2. c # NoCpu <=> "EXEC" = "EXEC"
    OBVIOUS
  <2>3. \A q \in Proc : InList(exec', q) <=> IF q = p THEN "EXEC" = "EXEC" ELSE InList(exec, q)
    BY <1>10
  <2>4. \A q \in Proc : InList(listed', q) <=>
            IF q = p THEN "EXEC" \notin {"NONE", "ASSIGNED"} ELSE InList(listed, q)
    BY <1>2, <1>8
  <2>5. IF "EXEC" = "READY" THEN QueuedOnceAt(readyQ', p, Priority[p]) ELSE NotQueued(readyQ', p)
    BY <1>11
  <2>6. ProcTypes /\ Lists /\ state' = [state EXCEPT ![p] = "EXEC"] /\ cpu' = [cpu EXCEPT ![p] = c]
    BY <1>2 DEF IndInv, Types
  <2> QED BY <1>3, <1>10, <1>11, <2>1, <2>2, <2>3, <2>4, <2>5, <2>6, ListsMove
<1>13. Origins'
  <2>1. p \notin kmNew /\ p \notin Awaited /\ \A d \in Cpu : Held(d) => thr[d].pid \in Proc \ {p}
    BY <1>1, NotAwaited
  <2>2. \A d \in Cpu : Held(d)' => thr'[d] = thr[d] /\ thr[d].pid \in Proc \ {p}
    BY <1>5, <2>1 DEF Held, Frees
  <2> QED BY <1>2, <1>9, <2>1, <2>2, OriginsMove DEF IndInv, Types, ProcTypes, Awaited
<1>14. Types'
  BY <1>2, <1>5, <1>6, <1>7, <1>9, <1>10, <1>11 DEF IndInv, Types, ProcTypes,
      CpuTypes, NetTypes, ThrTypes, Quiet
<1>15. SchedArgs'
  BY <1>2, <1>5, <1>6 DEF IndInv, Cpus, SchedArgs, Sends
<1>16. /\ StsSends(c)' /\ ~Sends(c)' /\ NoOrder(c)' /\ NoYield(c)'
       /\ NoEvict(c)' = NoEvict(c) /\ NoConfirm(c)' = NoConfirm(c)
  BY <1>2, <1>4, <1>5, <1>6 DEF StsSends, Sends, NoOrder, NoYield, NoEvict, NoConfirm
<1>17. HandlerArgs(c)' /\ Avail(c)' /\ Connection(c)'
  BY <1>2, <1>3, <1>4, <1>6, <1>7 DEF CpuInv, HandlerArgs, Avail, Connection, Sends, Frees
<1>18. Assigned(c)' /\ Exclusive(c)'
  BY <1>2, <1>4, <1>5, <1>9, <1>16 DEF Assigned, Exclusive, NoOrder, NoYield
<1>19. Eviction(c)'
  BY <1>2, <1>3, <1>6, <1>16 DEF CpuInv, Eviction
<1>20. ASSUME NEW d \in Cpu, d # c PROVE CpuInv(d)'
  <2>1. UNCHANGED CpuPart(d)
    BY <1>2, <1>5, <1>7, <1>20 DEF CpuPart
  <2>2. ~StsSends(d)'
    BY <1>5, <1>20 DEF StsSends
  <2>3. \A q \in Proc : cpu'[q] = d <=> cpu[q] = d
    BY <1>8, <1>9, <1>20
  <2> QED BY <2>1, <2>2, <2>3, CpuFrame DEF IndInv, Cpus
<1> QED BY <1>12, <1>13, <1>14, <1>15, <1>17, <1>18, <1>19, <1>20 DEF IndInv, Cpus,
    CpuInv

-----------------------------------------------------------------------------
\* Under the regime nobody asks for memory or for an unknown mutex.
LEMMA NoMemoryStep ==
    ASSUME IndInv
    PROVE  /\ \A c \in Cpu : /\ ~HandleMutexUnknown(c) /\ ~KillProcess(c) /\ ~HandleStdinEmpty(c)
                              /\ ~HandleMemAlloc(c) /\ ~HandleMemAllocEmpty(c)
           /\ \A p \in Proc, ok \in BOOLEAN : ~SegmentResultEvicted(p, ok) /\ ~SegmentResult(p, ok)
           /\ ~TerminateProcess /\ ~UnlistProcess /\ ~ReleaseCpu /\ ~CompactionStep
<1>1. ASSUME NEW c \in Cpu PROVE ~KillProcess(c)
  BY DEF KillProcess, IndInv, Cpus, CpuInv, HandlerArgs
<1>2. ASSUME NEW c \in Cpu, NEW op, NEW p, Receive(c, op, p)
      PROVE  op \notin {"MUTEX_UNKNOWN", "STDIN_EMPTY", "MEM_ALLOC", "MEM_ALLOC_EMPTY"}
  <2>1. 1 \in DOMAIN fromCpu[c] /\ fromCpu[c][1].op = op /\ fromCpu[c] \in Seq(Reports)
    BY <1>2, Received DEF IndInv, Types, NetTypes
  <2>2. fromCpu[c][1] \in Reports
    BY <2>1
  <2> QED BY <2>1, <2>2 DEF Reports, Yields
<1>3. ASSUME NEW c \in Cpu
      PROVE  ~HandleMutexUnknown(c) /\ ~HandleStdinEmpty(c) /\ ~HandleMemAlloc(c) /\ ~HandleMemAllocEmpty(c)
  BY <1>2 DEF HandleMutexUnknown, HandleStdinEmpty, HandleMemAlloc, HandleMemAllocEmpty
<1>4. /\ kmReq = {} /\ thr["KM"].at = "idle" /\ comp.at = "idle"
  BY DEF IndInv, Types, Quiet
<1>5. ASSUME NEW p \in Proc, NEW ok \in BOOLEAN PROVE ~SegmentResultEvicted(p, ok) /\ ~SegmentResult(p, ok)
  BY <1>4 DEF SegmentResultEvicted, SegmentResult
<1>6. ~TerminateProcess /\ ~UnlistProcess /\ ~ReleaseCpu
  BY <1>4 DEF TerminateProcess, UnlistProcess, ReleaseCpu
<1>7. ~CompactionStep
  BY <1>4 DEF CompactionStep, CompactionRequest, CompactionSnapshot, CompactionEvict,
     CompactionConfirmed, CompactionReady, CompactionFinished
<1> QED BY <1>1, <1>3, <1>5, <1>6, <1>7

\* A step that changes nothing.
LEMMA KeepStutter == IndInv /\ UNCHANGED vars => IndInv'
<1> SUFFICES ASSUME IndInv, UNCHANGED vars PROVE IndInv'
  OBVIOUS
<1> USE DEF vars, procVars, cpuVars, netVars, extVars
<1>1. Types'
  BY DEF IndInv, Types, ProcTypes, CpuTypes, NetTypes, ThrTypes, Quiet
<1>2. Cpus'
  BY CpusFrame
<1>3. Lists' /\ Origins'
  BY ListsFrame, OriginsFrame DEF IndInv
<1> QED BY <1>1, <1>2, <1>3 DEF IndInv

\* Every step keeps IndInv.
LEMMA InvStep ==
    ASSUME Regime, IndInv, [Next]_vars
    PROVE  IndInv'
<1>1. ASSUME NEW c \in Cpu, CpuStep(c) PROVE IndInv'
  BY <1>1, KeepExecute, KeepEvict, KeepSyscall DEF CpuStep
<1>2. ASSUME NEW c \in Cpu, HandlerStep(c) PROVE IndInv'
  BY <1>2, KeepProcessCreate, KeepListProcess, KeepProcessEnd, KeepMutexCreate,
      KeepSleep, KeepFreeCpu,
     KeepConfirmation, KeepDisconnection, NoMemoryStep DEF HandlerStep
<1>3. CASE StsStep
  BY <1>3, KeepStsWake, KeepStsNothing, KeepDispatch DEF StsStep
<1>4. CASE KmStep
  BY <1>4, KeepCreateConfirmation, KeepStdoutRead, NoMemoryStep DEF KmStep
<1> QED BY <1>1, <1>2, <1>3, <1>4, KeepConnect, KeepCrash, KeepWaitConfirmation,
    KeepSend, KeepEvictProcess,
     KeepQuantum, KeepIoFinish, NoMemoryStep, KeepStutter DEF Next

-----------------------------------------------------------------------------
\* The scheduler's lists, its threads, the sockets and the CPUs stay consistent
\* whatever the interleaving of dispatches, syscalls, evictions and
\* disconnections.
THEOREM InvTheorem ==
    ASSUME Regime PROVE Spec => []IndInv
<1>1. IndInv /\ [Next]_vars => IndInv'
  BY InvStep
<1> QED BY <1>1, Init0, PTL DEF Spec

\* IndInv gives the lists ...
LEMMA ListsFromInv == IndInv => ExecListMatchesCpus /\ ReadyQueuesMatchStates
<1> SUFFICES ASSUME IndInv PROVE ExecListMatchesCpus /\ ReadyQueuesMatchStates
  OBVIOUS
<1>1. \A i \in DOMAIN exec : exec[i] \in Proc /\ InList(exec, exec[i])
  BY DEF IndInv, Types, ProcTypes, InList
<1>2. ExecListMatchesCpus
  BY <1>1 DEF IndInv, Lists, ExecList, ExecListMatchesCpus
<1> QED BY <1>2 DEF IndInv, Lists

\* ... and what runs where.
LEMMA RunsFromInv == IndInv => RunsWhereAssigned
BY CpuNames DEF IndInv, Types, CpuTypes, Cpus, CpuInv, Assigned, Lists, ExecList,
    RunsWhereAssigned

\* A set without two elements has at most one.
LEMMA AtMostOne ==
    ASSUME NEW S, \A x, y \in S : x = y
    PROVE  Cardinality(S) \in Nat /\ (S = {} => Cardinality(S) = 0) /\ (S # {} => Cardinality(S) = 1)
<1>1. CASE S = {}
  BY <1>1, FS_EmptySet
<1>2. CASE S # {}
  <2>1. PICK x : S = {x}
    BY <1>2
  <2> QED BY <2>1, FS_Singleton
<1> QED BY <1>1, <1>2

\* The orders to execute p and the CPUs that run it: Assigned puts all of them
\* on one CPU, Exclusive leaves one.
LEMMA OnceFromInv == IndInv => ExecutedOnce
<1> SUFFICES ASSUME IndInv, NEW p \in Proc
             PROVE  Cardinality(Orders(p)) + Cardinality({c \in Cpu : running[c] = p}) <= 1
  BY DEF ExecutedOnce
<1> DEFINE R == {c \in Cpu : running[c] = p}
<1>1. \A c \in R : c \in Cpu /\ cpu[p] = c /\ running[c] # NoProc
  BY QueueAssumption DEF IndInv, Cpus, CpuInv, Assigned
<1>2. \A o \in Orders(p) : \E c \in Cpu : \E i \in DOMAIN toCpu[c] :
          o = <<c, i>> /\ toCpu[c][i] = Message("PROCESS_EXECUTE", p)
  BY DEF Orders
<1>3. \A c \in Cpu : \A i \in DOMAIN toCpu[c] : toCpu[c][i] = Message("PROCESS_EXECUTE", p) =>
          toCpu[c][i].op = "PROCESS_EXECUTE" /\ cpu[p] = c
  BY DEF Message, IndInv, Cpus, CpuInv, Assigned
<1>4. ASSUME NEW o \in Orders(p), NEW u \in Orders(p) PROVE o = u
  <2>1. PICK c \in Cpu : \E i \in DOMAIN toCpu[c] :
           o = <<c, i>> /\ toCpu[c][i] = Message("PROCESS_EXECUTE", p)
    BY <1>2
  <2>2. PICK i \in DOMAIN toCpu[c] : o = <<c, i>> /\ toCpu[c][i] = Message("PROCESS_EXECUTE", p)
    BY <2>1
  <2>3. PICK d \in Cpu : \E j \in DOMAIN toCpu[d] :
           u = <<d, j>> /\ toCpu[d][j] = Message("PROCESS_EXECUTE", p)
    BY <1>2
  <2>4. PICK j \in DOMAIN toCpu[d] : u = <<d, j>> /\ toCpu[d][j] = Message("PROCESS_EXECUTE", p)
    BY <2>3
  <2>5. c = d
    BY <1>3, <2>2, <2>4
  <2>6. i = j
    BY <1>3, <2>2, <2>4, <2>5 DEF IndInv, Cpus, CpuInv, Exclusive
  <2> QED BY <2>2, <2>4, <2>5, <2>6
<1>5. \A c, d \in R : c = d
  BY <1>1
<1>6. Orders(p) = {} \/ R = {}
  <2> SUFFICES ASSUME NEW o \in Orders(p), NEW d \in R PROVE FALSE
    OBVIOUS
  <2>1. PICK c \in Cpu : \E i \in DOMAIN toCpu[c] :
           o = <<c, i>> /\ toCpu[c][i] = Message("PROCESS_EXECUTE", p)
    BY <1>2
  <2>2. c = d /\ ~NoOrder(c)
    BY <1>1, <1>3, <2>1 DEF NoOrder
  <2> QED BY <1>1, <2>2 DEF IndInv, Cpus, CpuInv, Exclusive
<1>7. /\ Cardinality(Orders(p)) \in Nat /\ (Orders(p) = {} => Cardinality(Orders(p)) = 0)
      /\ (Orders(p) # {} => Cardinality(Orders(p)) = 1)
  BY <1>4, AtMostOne
<1>8. Cardinality(R) \in Nat /\ (R = {} => Cardinality(R) = 0) /\ (R # {} => Cardinality(R) = 1)
  <2> HIDE DEF R
  <2> QED BY <1>5, AtMostOne
<1> HIDE DEF R
<1>9. Cardinality(Orders(p)) + Cardinality(R) <= 1
  BY <1>6, <1>7, <1>8
<1> QED BY <1>9 DEF R

\* Whatever an available CPU had under way would belong to a process.
LEMMA FreeFromInv == IndInv => AvailableCpuIsFree
<1> SUFFICES ASSUME IndInv, NEW c \in Cpu, available[c]
             PROVE  running[c] = NoProc /\ Unassigned(c) /\ NoOrder(c)
  BY DEF AvailableCpuIsFree, AvailableCpus, Unassigned, NoOrder
<1>1. Unassigned(c)
  BY DEF IndInv, Cpus, CpuInv, Avail, Frees
<1>2. /\ \A i \in DOMAIN toCpu[c] : toCpu[c][i].op = "PROCESS_EXECUTE" => toCpu[c][i].pid \in Proc
      /\ running[c] # NoProc => running[c] \in Proc
  BY DEF IndInv, Types, NetTypes, CpuTypes, CpuOrders
<1> QED BY <1>1, <1>2 DEF IndInv, Cpus, CpuInv, Assigned, Unassigned, NoOrder

\* The three places of an eviction exclude each other by Eviction.
LEMMA HandshakeFromInv == IndInv => EvictionHandshake
<1> SUFFICES ASSUME IndInv, NEW c \in Cpu, connected[c] \in {"no", "yes"}
             PROVE  /\ EvictionsUnderWay(c) = IF evicting[c] THEN 1 ELSE 0
                    /\ evicting[c] <=> waiters[c] = 1 \/ InList(comp.evicted, c)
  BY DEF EvictionHandshake
<1> DEFINE E == {i \in DOMAIN toCpu[c] : toCpu[c][i].op = "PROCESS_EVICT"}
           F == {i \in DOMAIN fromCpu[c] : fromCpu[c][i].op = "CONFIRMATION"}
<1>1. Eviction(c) /\ Connection(c) /\ evicting[c] \in BOOLEAN
  BY DEF IndInv, Cpus, CpuInv, Types, CpuTypes
<1>2. (\A i, j \in E : i = j) /\ (\A i, j \in F : i = j)
  BY <1>1 DEF Eviction
<1>3. (NoEvict(c) <=> E = {}) /\ (NoConfirm(c) <=> F = {})
  BY DEF NoEvict, NoConfirm
<1>4. toCpu[c] = <<>> => NoEvict(c)
  BY DEF NoEvict
<1>5. fromCpu[c] = <<>> => NoConfirm(c)
  BY DEF NoConfirm
<1>6. /\ ~NoEvict(c) => NoConfirm(c) /\ response[c] = 0
      /\ ~NoConfirm(c) => toCpu[c] = <<>> /\ response[c] = 0
  BY <1>1 DEF Eviction, NoEvict, NoConfirm
<1>7. EvictionsUnderWay(c) = Cardinality(E) + Cardinality(F) + response[c]
  BY DEF EvictionsUnderWay
<1> HIDE DEF E, F
<1>8. /\ Cardinality(E) \in Nat /\ (E = {} => Cardinality(E) = 0) /\ (E # {} => Cardinality(E) = 1)
      /\ Cardinality(F) \in Nat /\ (F = {} => Cardinality(F) = 0) /\ (F # {} => Cardinality(F) = 1)
  BY <1>2, AtMostOne
<1>9. /\ ~evicting[c] => NoEvict(c) /\ NoConfirm(c) /\ response[c] = 0
      /\ evicting[c] => ~NoEvict(c) \/ ~NoConfirm(c) \/ response[c] = 1
      /\ response[c] \in {0, 1}
      /\ response[c] = 1 => fromCpu[c] = <<>> /\ toCpu[c] = <<>>
      /\ waiters[c] = IF evicting[c] THEN 1 ELSE 0
  BY <1>1 DEF Eviction, Connection
<1>10. EvictionsUnderWay(c) = IF evicting[c] THEN 1 ELSE 0
  <2>1. CASE ~evicting[c]
    BY <1>3, <1>7, <1>8, <1>9, <2>1
  <2>2. CASE evicting[c] /\ ~NoEvict(c)
    BY <1>3, <1>6, <1>7, <1>8, <2>2
  <2>3. CASE evicting[c] /\ ~NoConfirm(c)
    BY <1>3, <1>4, <1>6, <1>7, <1>8, <2>3
  <2>4. CASE evicting[c] /\ response[c] = 1
    BY <1>3, <1>4, <1>5, <1>7, <1>8, <1>9, <2>4
  <2> QED BY <1>9, <2>1, <2>2, <2>3, <2>4
<1>11. ~InList(comp.evicted, c)
  BY DEF IndInv, Types, Quiet, InList
<1> QED BY <1>1, <1>9, <1>10, <1>11

\* ExecListMatchesCpus: exec_processes holds exactly the processes with a CPU,
\* each once, and no CPU is shared.
THEOREM ExecListTheorem ==
    ASSUME Regime PROVE Spec => []ExecListMatchesCpus
BY InvTheorem, ListsFromInv, PTL

\* ReadyQueuesMatchStates: no wake-up, eviction or disconnection queues a
\* process twice or forgets it.
THEOREM ReadyQueuesTheorem ==
    ASSUME Regime PROVE Spec => []ReadyQueuesMatchStates
BY InvTheorem, ListsFromInv, PTL

\* RunsWhereAssigned: no process runs on two CPUs, none runs after it blocked
\* or ended.
THEOREM RunsTheorem ==
    ASSUME Regime PROVE Spec => []RunsWhereAssigned
BY InvTheorem, RunsFromInv, PTL

\* ExecutedOnce: send_pid_to_execute never orders a process to run twice, nor
\* while it runs.
THEOREM OnceTheorem ==
    ASSUME Regime PROVE Spec => []ExecutedOnce
BY InvTheorem, OnceFromInv, PTL

\* ListsAgree: queues, orders and CPUs tell the same story of a process.
THEOREM ListsAgreeTheorem ==
    ASSUME Regime PROVE Spec => []ListsAgree
<1>1. IndInv => ListsAgree
  BY ListsFromInv, RunsFromInv, OnceFromInv DEF ListsAgree
<1> QED BY <1>1, InvTheorem, PTL

\* AvailableCpuIsFree: get_available_cpu never chooses a CPU in use.
THEOREM FreeCpuTheorem ==
    ASSUME Regime PROVE Spec => []AvailableCpuIsFree
BY InvTheorem, FreeFromInv, PTL

\* EvictionHandshake: is_evicting is set exactly while one eviction is under
\* way and one thread waits for its confirmation.
THEOREM HandshakeTheorem ==
    ASSUME Regime PROVE Spec => []EvictionHandshake
BY InvTheorem, HandshakeFromInv, PTL

-----------------------------------------------------------------------------
\* The process that a CPU gives back was executing.
LEMMA DetachedState ==
    ASSUME IndInv, NEW c \in Cpu, Detach(get_process_from_cpu(c))
    PROVE  \/ UNCHANGED state
           \/ \E q \in Proc : state[q] = "EXEC" /\ state' = [state EXCEPT ![q] = "READY"]
<1>1. \/ get_process_from_cpu(c) = NoProc
      \/ get_process_from_cpu(c) \in Proc /\ cpu[get_process_from_cpu(c)] = c
  BY ProcessOfCpu DEF IndInv, Types
<1>2. CASE get_process_from_cpu(c) = NoProc
  BY <1>2 DEF Detach, procVars
<1>3. CASE get_process_from_cpu(c) \in Proc /\ cpu[get_process_from_cpu(c)] = c
  <2>1. PICK q \in Proc : q = get_process_from_cpu(c) /\ cpu[q] = c
    BY <1>3
  <2>2. state[q] = "EXEC"
    BY <2>1, CpuNames DEF IndInv, Lists, ExecList
  <2> QED BY <2>1, <2>2, QueueAssumption DEF Detach
<1> QED BY <1>1, <1>2, <1>3

\* Every process that a step moves was in another state than EXIT.
LEMMA ExitStep ==
    ASSUME IndInv, [Next]_vars, NEW p \in Proc, state[p] = "EXIT", p \notin ioReq
    PROVE  state'[p] = "EXIT"
<1> USE DEF procVars
<1>1. ASSUME NEW q \in Proc, state[q] # "EXIT", NEW s, state' = [state EXCEPT ![q] = s]
      PROVE  state'[p] = "EXIT"
  BY <1>1 DEF IndInv, Types, ProcTypes
<1>2. ASSUME NEW c \in Cpu, Detach(get_process_from_cpu(c)) PROVE state'[p] = "EXIT"
  BY <1>1, <1>2, DetachedState
<1>3. ASSUME NEW c \in Cpu, HandlerStep(c) PROVE state'[p] = "EXIT"
  <2>1. CASE HandleProcessCreate(c)
    BY <1>1, <2>1 DEF HandleProcessCreate
  <2>2. CASE ListProcess(c)
    <3>1. thr[c].pid \in Proc /\ state[thr[c].pid] = "ASSIGNED"
      BY <2>2 DEF ListProcess, IndInv, Origins, Awaited, Cpus, CpuInv, HandlerArgs, Frees
    <3> QED BY <1>1, <2>2, <3>1 DEF ListProcess
  <2>3. CASE HandleProcessEnd(c)
    BY <2>3 DEF HandleProcessEnd, IndInv, Types, ProcTypes
  <2>4. CASE HandleSleep(c)
    <3>1. PICK q \in Proc, op \in {"SLEEP", "STDOUT"} :
             Receive(c, op, q) /\ state' = [state EXCEPT ![q] = "BLOCK"]
      BY <2>4 DEF HandleSleep
    <3>2. cpu[q] = c
      BY <3>1, ReceivedState DEF Yields
    <3>3. state[q] = "EXEC"
      BY <3>2, CpuNames DEF IndInv, Lists, ExecList
    <3> QED BY <1>1, <3>1, <3>3
  <2>5. CASE handle_cpu_disconnection(c)
    BY <1>2, <2>5 DEF handle_cpu_disconnection
  <2>6. CASE HandleMutexCreate(c) \/ FreeCpu(c) \/ send_memory_read(c) \/ HandleConfirmation(c)
    BY <2>6 DEF HandleMutexCreate, FreeCpu, send_memory_read, HandleConfirmation
  <2> QED BY <1>3, <2>1, <2>2, <2>3, <2>4, <2>5, <2>6, NoMemoryStep DEF HandlerStep
<1>4. ASSUME NEW c \in Cpu, wait_confirmation_thread_and_handle_state(c) PROVE state'[p] = "EXIT"
  <2>1. get_process_from_cpu(c) = NoProc \/ get_process_from_cpu(c) \in Proc
    BY ProcessOfCpu DEF IndInv, Types
  <2>2. get_process_from_cpu(c) \in Proc => pendingMem[get_process_from_cpu(c)] = FALSE
    BY DEF IndInv, Types, Quiet
  <2>3. Detach(get_process_from_cpu(c))
    BY <1>4, <2>1, <2>2 DEF wait_confirmation_thread_and_handle_state, Requeue, Detach
  <2> QED BY <1>2, <2>3
<1>5. ASSUME NEW c \in Cpu, CpuConnect(c) \/ CpuCrash(c) \/ CpuStep(c) PROVE state'[p] = "EXIT"
  BY <1>5 DEF CpuConnect, CpuCrash, CpuStep, CpuExecute, CpuEvict, CpuSyscall
<1>6. ASSUME NEW t \in Threads, SendCheck(t) \/ SendExecute(t) \/ evict_process(t) PROVE state'[p] = "EXIT"
  BY <1>6 DEF SendCheck, SendExecute, evict_process
<1>7. CASE StsStep
  <2>1. ASSUME NEW c \in Cpu, StsDispatch(c) PROVE state'[p] = "EXIT"
    <3>1. PICK q \in Proc : q = get_next_process_to_execute /\ state[q] = "READY"
      BY <2>1, NextIsReady DEF StsDispatch, IndInv, Types
    <3>2. state' = [state EXCEPT ![q] = "EXEC"]
      BY <2>1, <3>1 DEF StsDispatch
    <3> QED BY <1>1, <3>1, <3>2
  <2> QED BY <1>7, <2>1 DEF StsStep, StsWake, StsNothingToDispatch
<1>8. CASE QuantumStep
  BY <1>8 DEF QuantumStep, QuantumWake, QuantumScanned, QuantumExpired
<1>9. ASSUME NEW q \in Proc, wait_process_create_confirmation(q) PROVE state'[p] = "EXIT"
  <2>1. state[q] # "EXIT"
    BY <1>9 DEF wait_process_create_confirmation, IndInv, Origins, Awaited, Frees
  <2> QED BY <1>1, <1>9, <2>1 DEF wait_process_create_confirmation
<1>10. CASE KmStep
  <2>1. ASSUME NEW q \in Proc, NEW ok \in BOOLEAN, stdout_wait_memory_read(q, ok) PROVE state'[p] = "EXIT"
    BY <2>1 DEF stdout_wait_memory_read, IndInv, Types, ProcTypes
  <2> QED BY <1>9, <1>10, <2>1, NoMemoryStep DEF KmStep
<1>11. ASSUME NEW q \in Proc, io_finish_process(q) PROVE state'[p] = "EXIT"
  <2>1. q # p /\ state' = [state EXCEPT ![q] = "READY"]
    BY <1>11 DEF io_finish_process
  <2> QED BY <2>1 DEF IndInv, Types, ProcTypes
<1>12. CASE UNCHANGED vars
  BY <1>12 DEF vars
<1> QED BY <1>3, <1>4, <1>5, <1>6, <1>7, <1>8, <1>10, <1>11, <1>12,
    NoMemoryStep DEF Next

\* ExitIsFinal: no late answer, syscall, eviction or disconnection revives a
\* process that ended, unless a device still works on its STDOUT.
THEOREM ExitTheorem ==
    ASSUME Regime PROVE Spec => ExitIsFinal
<1>1. IndInv /\ [Next]_vars =>
         [\A p \in Proc : state[p] = "EXIT" /\ p \notin ioReq => state'[p] = "EXIT"]_vars
  BY ExitStep
<1> QED BY <1>1, InvTheorem, PTL DEF Spec, ExitIsFinal
-----------------------------------------------------------------------------
(* Without Regime: the types.  Typed is the inductive form of TypeOK.      *)

\* The processes and their lists, ...
ProcsTyped ==
    /\ state \in [Proc -> States] /\ cpu \in [Proc -> Cpu \cup {NoCpu}]
    /\ listed \in Seq(Proc) /\ exec \in Seq(Proc)
    /\ readyQ \in [Queues -> Seq(Proc)]
    /\ pendingMem \in [Proc -> BOOLEAN]

\* ... the CPUs' records, ...
CpusTyped ==
    /\ connected \in [Cpu -> {"no", "yes", "lost", "gone"}]
    /\ available \in [Cpu -> BOOLEAN] /\ evicting \in [Cpu -> BOOLEAN]
    /\ response \in [Cpu -> Nat] /\ waiters \in [Cpu -> Nat]

\* ... the sockets, with all syscalls, ...
AnyOrder == [op : {"PROCESS_EXECUTE", "PROCESS_EVICT"}, pid : Proc \cup {NoProc}]
AnyReport == [op : AllSyscalls \cup {"CONFIRMATION"}, pid : Proc \cup {NoProc}]
SocketsTyped ==
    /\ toCpu \in [Cpu -> Seq(AnyOrder)] /\ fromCpu \in [Cpu -> Seq(AnyReport)]
    /\ running \in [Cpu -> Proc \cup {NoProc}]

\* ... the threads, which hold a process where they are about to list it, to
\* hand it to a device or to end it, ...
Locals == [at : Places, pid : Proc \cup {NoProc}, cpu : Cpu \cup {NoCpu}]
NeedsProcess == {"create", "free", "read", "terminate", "unlist"}
ThreadsTyped ==
    /\ thr \in [Threads -> Locals]
    /\ \A t \in Threads : thr[t].at \in NeedsProcess => thr[t].pid \in Proc

\* ... the compaction and what has not been answered.
CompactionPlaces == {"idle", "snapshot", "evict", "confirm", "compacting"}
RestTyped ==
    /\ stsSem \in 0 .. MaxWakeups /\ canSchedule \in BOOLEAN
    /\ comp \in [at : CompactionPlaces, for : Proc \cup {NoProc},
                 todo : Seq(Cpu \cup {NoCpu}), evicted : Seq(Cpu)]
    /\ kmNew \subseteq Proc /\ kmReq \subseteq Proc /\ kmRead \subseteq Proc /\ ioReq \subseteq Proc
restVars == <<stsSem, canSchedule, comp, extVars>>

Typed == ProcsTyped /\ CpusTyped /\ SocketsTyped /\ ThreadsTyped /\ RestTyped

\* A step keeps the types when it keeps those of the parts it changes.
LEMMA TypedFrame ==
    ASSUME Typed,
           ProcsTyped' \/ UNCHANGED procVars, CpusTyped' \/ UNCHANGED cpuVars,
           SocketsTyped' \/ UNCHANGED netVars, ThreadsTyped' \/ UNCHANGED thr,
           RestTyped' \/ UNCHANGED restVars
    PROVE  Typed'
<1>1. ProcsTyped'
  BY DEF Typed, ProcsTyped, procVars
<1>2. CpusTyped'
  BY DEF Typed, CpusTyped, cpuVars
<1>3. SocketsTyped'
  BY DEF Typed, SocketsTyped, netVars
<1>4. ThreadsTyped'
  BY DEF Typed, ThreadsTyped
<1>5. RestTyped'
  BY DEF Typed, RestTyped, restVars, extVars
<1> QED BY <1>1, <1>2, <1>3, <1>4, <1>5 DEF Typed

\* The initial state is typed.
LEMMA InitTyped == Init => Typed
<1> SUFFICES ASSUME Init PROVE Typed
  OBVIOUS
<1> USE DispatchAssumption, QueueAssumption, CpuNames
<1>1. ProcsTyped
  BY DEF Init, ProcsTyped, States, EmptyQueues
<1>2. CpusTyped /\ SocketsTyped
  BY DEF Init, CpusTyped, SocketsTyped
<1>3. ThreadsTyped
  BY DEF Init, ThreadsTyped, Locals, Places, NeedsProcess, Local
<1>4. RestTyped
  BY DEF Init, RestTyped, CompactionPlaces
<1> QED BY <1>1, <1>2, <1>3, <1>4 DEF Typed

\* The operations on the ready queues keep their type.
LEMMA QueueTyped ==
    ASSUME ProcsTyped, NEW p \in Proc
    PROVE  /\ add_process_to_ready_queue(readyQ, p, Priority[p]) \in [Queues -> Seq(Proc)]
           /\ add_process_at_start_of_ready_queue(readyQ, p, Priority[p]) \in [Queues -> Seq(Proc)]
           /\ remove_process_from_ready_queue(readyQ, p, Priority[p]) \in [Queues -> Seq(Proc)]
<1>1. Priority[p] \in Nat
  BY DispatchAssumption
<1>2. QueueIndex(Priority[p]) \in Queues
  BY <1>1, QueueIndexType
<1>3. readyQ \in [Queues -> Seq(Proc)]
  BY DEF ProcsTyped
<1>4. add_process_to_ready_queue(readyQ, p, Priority[p]) \in [Queues -> Seq(Proc)]
  BY <1>1, <1>3, AddToQueue
<1>5. remove_process_from_ready_queue(readyQ, p, Priority[p]) \in [Queues -> Seq(Proc)]
  BY <1>1, <1>3, RemoveFromQueue
<1>6. <<p>> \o readyQ[QueueIndex(Priority[p])] \in Seq(Proc)
      /\ Append(readyQ[QueueIndex(Priority[p])], p) \in Seq(Proc)
  BY <1>2, <1>3
<1>7. add_process_at_start_of_ready_queue(readyQ, p, Priority[p]) \in [Queues -> Seq(Proc)]
  BY <1>2, <1>3, <1>6 DEF add_process_at_start_of_ready_queue
<1> QED BY <1>4, <1>5, <1>7

\* Leaving exec_processes keeps its type.
LEMMA ExecTyped ==
    ASSUME ProcsTyped, NEW p PROVE RemoveFirst(exec, p) \in Seq(Proc)
BY RemoveFirstOthers DEF ProcsTyped

\* get_process_from_cpu returns a process of the list or NULL.
LEMMA FoundOnCpu ==
    ASSUME ProcsTyped, NEW c
    PROVE  get_process_from_cpu(c) = NoProc \/ get_process_from_cpu(c) \in Proc
<1> DEFINE at == {i \in DOMAIN listed : cpu[listed[i]] = c}
           k == CHOOSE i \in at : \A j \in at : i <= j
<1>1. CASE at = {}
  BY <1>1 DEF get_process_from_cpu
<1>2. CASE at # {}
  <2>1. at \in SUBSET Nat
    BY DEF ProcsTyped
  <2>2. k \in at
    BY <1>2, <2>1, LeastNat
  <2>3. get_process_from_cpu(c) = listed[k]
    BY <1>2 DEF get_process_from_cpu
  <2> HIDE DEF k
  <2> QED BY <2>2, <2>3 DEF ProcsTyped
<1> QED BY <1>1, <1>2

\* A thread goes to a place with a process and a CPU in hand, ...
LEMMA GotoTyped ==
    ASSUME Typed, NEW t \in Threads, NEW at \in Places, NEW p \in Proc \cup {NoProc},
           NEW c \in Cpu \cup {NoCpu}, at \in NeedsProcess => p \in Proc,
           Goto(t, Local(at, p, c))
    PROVE  ThreadsTyped'
<1>1. Local(at, p, c) \in Locals /\ Local(at, p, c).at = at /\ Local(at, p, c).pid = p
  BY DEF Local, Locals
<1> QED BY <1>1 DEF Goto, Typed, ThreadsTyped

\* ... to another place with what it has, ...
LEMMA GoesOnTyped ==
    ASSUME Typed, NEW t \in Threads, NEW at \in Places,
           at \in NeedsProcess => thr[t].pid \in Proc, Goto(t, [thr[t] EXCEPT !.at = at])
    PROVE  ThreadsTyped'
<1>1. thr[t] \in Locals
  BY DEF Typed, ThreadsTyped
<1>2. [thr[t] EXCEPT !.at = at] = Local(at, thr[t].pid, thr[t].cpu)
      /\ thr[t].pid \in Proc \cup {NoProc} /\ thr[t].cpu \in Cpu \cup {NoCpu}
  BY <1>1 DEF Locals, Local
<1> QED BY <1>2, GotoTyped

\* ... or home.
LEMMA HomeTyped ==
    ASSUME Typed, NEW t \in Threads, Goto(t, Home(t)) PROVE ThreadsTyped'
<1>1. \E at \in {"loop", "scan", "idle"} : Home(t) = Local(at, NoProc, NoCpu)
  BY DEF Home
<1>2. PICK at \in {"loop", "scan", "idle"} : Home(t) = Local(at, NoProc, NoCpu)
  BY <1>1
<1>3. at \in Places /\ at \notin NeedsProcess
  BY DEF Places, NeedsProcess
<1> QED BY <1>2, <1>3, GotoTyped

\* The short-term scheduler is woken.
LEMMA SemTyped ==
    ASSUME Typed, sem_post, UNCHANGED <<canSchedule, comp>>,
           kmNew' \subseteq Proc, kmReq' \subseteq Proc, kmRead' \subseteq Proc, ioReq' \subseteq Proc
    PROVE  RestTyped'
BY DispatchAssumption DEF Typed, RestTyped, sem_post

\* PROCESS_EXECUTE and PROCESS_EVICT keep the type of the socket.
LEMMA TransmitTyped ==
    ASSUME Typed, NEW c \in Cpu \cup {NoCpu}, NEW msg \in AnyOrder, Transmit(c, msg),
           UNCHANGED <<fromCpu, running>>
    PROVE  SocketsTyped'
<1>1. toCpu \in [Cpu -> Seq(AnyOrder)]
  BY DEF Typed, SocketsTyped
<1>2. CASE c \in Cpu
  <2>1. Append(toCpu[c], msg) \in Seq(AnyOrder)
    BY <1>1, <1>2
  <2> QED BY <1>1, <2>1 DEF Transmit, Typed, SocketsTyped
<1>3. CASE c = NoCpu
  <2>1. c \notin Cpu
    BY <1>3, DispatchAssumption
  <2> QED BY <1>1, <2>1 DEF Transmit, Typed, SocketsTyped
<1> QED BY <1>2, <1>3

\* send_process_evict changes one CPU's flag and socket at most.
LEMMA EvictTyped ==
    ASSUME Typed, NEW c \in Cpu \cup {NoCpu}, send_process_evict(c),
           UNCHANGED <<fromCpu, running>>
    PROVE  evicting' \in [Cpu -> BOOLEAN] /\ SocketsTyped'
<1>1. Message("PROCESS_EVICT", NoProc) \in AnyOrder
  BY DEF Message, AnyOrder
<1>2. CASE UNCHANGED <<evicting, toCpu>>
  BY <1>2 DEF Typed, CpusTyped, SocketsTyped
<1>3. CASE evicting' = [evicting EXCEPT ![c] = TRUE] /\ Transmit(c, Message("PROCESS_EVICT", NoProc))
  <2>1. SocketsTyped'
    BY <1>1, <1>3, TransmitTyped
  <2> QED BY <1>3, <2>1 DEF Typed, CpusTyped
<1> QED BY <1>2, <1>3 DEF send_process_evict

\* A message served leaves the socket.
LEMMA ReceiveTyped ==
    ASSUME Typed, NEW c \in Cpu, NEW op, NEW p, Receive(c, op, p), UNCHANGED <<toCpu, running>>
    PROVE  SocketsTyped'
<1>1. Tail(fromCpu[c]) \in Seq(AnyReport)
  BY ListTail DEF Typed, SocketsTyped, Receive
<1> QED BY <1>1 DEF Receive, Typed, SocketsTyped

\* A process that is detached from its CPU or given back to the queues.
LEMMA DetachTyped ==
    ASSUME Typed, NEW p \in Proc \cup {NoProc}, Detach(p) \/ Requeue(p)
    PROVE  ProcsTyped' \/ UNCHANGED procVars
<1>1. CASE p = NoProc
  BY <1>1 DEF Detach, Requeue
<1>2. CASE p \in Proc
  <2>1. ProcsTyped /\ p # NoProc
    BY <1>2, QueueAssumption DEF Typed
  <2>2. /\ add_process_to_ready_queue(readyQ, p, Priority[p]) \in [Queues -> Seq(Proc)]
        /\ RemoveFirst(exec, p) \in Seq(Proc)
    BY <1>2, <2>1, QueueTyped, ExecTyped
  <2>3. CASE Detach(p)
    BY <2>1, <2>2, <2>3 DEF Detach, ProcsTyped, States
  <2>4. CASE Requeue(p)
    BY <2>1, <2>2, <2>4 DEF Requeue, ProcsTyped, States
  <2> QED BY <2>3, <2>4
<1> QED BY <1>1, <1>2

-----------------------------------------------------------------------------
\* CPUs that connect, die, run and yield.
LEMMA CpuTyped ==
    ASSUME Typed, NEW c \in Cpu, CpuConnect(c) \/ CpuCrash(c) \/ CpuStep(c)
    PROVE  Typed'
<1> USE DEF procVars, cpuVars, netVars, extVars, restVars
<1>1. CASE CpuConnect(c)
  <2>1. CpusTyped'
    BY <1>1 DEF CpuConnect, Typed, CpusTyped
  <2>2. RestTyped'
    BY <1>1, SemTyped DEF CpuConnect, Typed, RestTyped
  <2> QED BY <1>1, <2>1, <2>2, TypedFrame DEF CpuConnect
<1>2. CASE CpuCrash(c)
  <2>1. CpusTyped'
    BY <1>2 DEF CpuCrash, Typed, CpusTyped
  <2>2. SocketsTyped'
    BY <1>2 DEF CpuCrash, Typed, SocketsTyped
  <2> QED BY <1>2, <2>1, <2>2, TypedFrame DEF CpuCrash
<1>3. CASE CpuExecute(c)
  <2>1. Tail(toCpu[c]) \in Seq(AnyOrder) /\ Head(toCpu[c]) \in AnyOrder
    BY <1>3, ListTail DEF CpuExecute, Typed, SocketsTyped
  <2>2. Head(toCpu[c]).pid \in Proc \cup {NoProc}
    BY <2>1 DEF AnyOrder
  <2>3. SocketsTyped'
    BY <1>3, <2>1, <2>2 DEF CpuExecute, Typed, SocketsTyped
  <2> QED BY <1>3, <2>3, TypedFrame DEF CpuExecute
<1>4. CASE CpuEvict(c)
  <2>1. Tail(toCpu[c]) \in Seq(AnyOrder)
    BY <1>4, ListTail DEF CpuEvict, Typed, SocketsTyped
  <2>2. Message("CONFIRMATION", NoProc) \in AnyReport
    BY DEF Message, AnyReport
  <2>3. Append(fromCpu[c], Message("CONFIRMATION", NoProc)) \in Seq(AnyReport)
    BY <2>2 DEF Typed, SocketsTyped
  <2>4. SocketsTyped'
    BY <1>4, <2>1, <2>3 DEF CpuEvict, ToScheduler, Typed, SocketsTyped
  <2> QED BY <1>4, <2>4, TypedFrame DEF CpuEvict
<1>5. ASSUME NEW op \in AllSyscalls, CpuSyscall(c, op) PROVE Typed'
  <2>1. Message(op, running[c]) \in AnyReport
    BY <1>5 DEF Message, AnyReport, Typed, SocketsTyped
  <2>2. Append(fromCpu[c], Message(op, running[c])) \in Seq(AnyReport)
    BY <2>1 DEF Typed, SocketsTyped
  <2>3. SocketsTyped'
    BY <1>5, <2>2 DEF CpuSyscall, ToScheduler, Typed, SocketsTyped
  <2> QED BY <1>5, <2>3, TypedFrame DEF CpuSyscall
<1> QED BY <1>1, <1>2, <1>3, <1>4, <1>5 DEF CpuStep

\* Sending to a CPU, evicting it and serving the confirmation.
LEMMA SendTyped ==
    ASSUME Typed, NEW t \in Threads, SendCheck(t) \/ SendExecute(t) \/ evict_process(t)
    PROVE  Typed'
<1> USE DEF procVars, cpuVars, netVars, extVars, restVars
<1>1. thr[t].pid \in Proc \cup {NoProc} /\ thr[t].cpu \in Cpu \cup {NoCpu}
  BY DEF Typed, ThreadsTyped, Locals
<1>2. CASE SendCheck(t)
  <2>1. Goto(t, Home(t)) \/ Goto(t, [thr[t] EXCEPT !.at = "send"])
    BY <1>2 DEF SendCheck
  <2>2. "send" \in Places /\ "send" \notin NeedsProcess
    BY DEF Places, NeedsProcess
  <2>3. ThreadsTyped'
    BY <2>1, <2>2, HomeTyped, GoesOnTyped
  <2> QED BY <1>2, <2>3, TypedFrame DEF SendCheck
<1>3. CASE SendExecute(t)
  <2>1. Message("PROCESS_EXECUTE", thr[t].pid) \in AnyOrder
    BY <1>1 DEF Message, AnyOrder
  <2>2. SocketsTyped'
    BY <1>1, <1>3, <2>1, TransmitTyped DEF SendExecute
  <2>3. ThreadsTyped'
    BY <1>3, HomeTyped DEF SendExecute
  <2> QED BY <1>3, <2>2, <2>3, TypedFrame DEF SendExecute
<1>4. CASE evict_process(t)
  <2>1. evicting' \in [Cpu -> BOOLEAN] /\ SocketsTyped'
    BY <1>1, <1>4, EvictTyped DEF evict_process
  <2>2. CpusTyped'
    BY <1>4, <2>1 DEF evict_process, Typed, CpusTyped
  <2>3. "wait" \in Places /\ "wait" \notin NeedsProcess
    BY DEF Places, NeedsProcess
  <2>4. Goto(t, Local("wait", NoProc, NoCpu)) \/ Goto(t, Home(t))
    BY <1>4 DEF evict_process
  <2>5. ThreadsTyped'
    BY <2>3, <2>4, GotoTyped, HomeTyped
  <2> QED BY <1>4, <2>1, <2>2, <2>5, TypedFrame DEF evict_process
<1> QED BY <1>2, <1>3, <1>4

\* A CPU answers an eviction.
LEMMA ConfirmationTyped ==
    ASSUME Typed, NEW c \in Cpu, wait_confirmation_thread_and_handle_state(c)
    PROVE  Typed'
<1> USE DEF procVars, cpuVars, netVars, extVars, restVars
<1>1. get_process_from_cpu(c) \in Proc \cup {NoProc}
  BY FoundOnCpu DEF Typed
<1>2. ProcsTyped' \/ UNCHANGED procVars
  BY <1>1, DetachTyped DEF wait_confirmation_thread_and_handle_state
<1>3. CpusTyped'
  BY DEF wait_confirmation_thread_and_handle_state, WaitResponse, EndEviction, Typed, CpusTyped
<1>4. RestTyped'
  BY SemTyped DEF wait_confirmation_thread_and_handle_state, Typed, RestTyped
<1> QED BY <1>2, <1>3, <1>4, TypedFrame DEF wait_confirmation_thread_and_handle_state

\* The short-term scheduler and the quantum manager.
LEMMA SchedulersTyped ==
    ASSUME Typed, StsStep \/ QuantumStep
    PROVE  Typed'
<1> USE CpuNames DEF procVars, cpuVars, netVars, extVars, restVars
<1>0. /\ {"wait", "evict", "check", "scan", "idle"} \subseteq Places
      /\ {"wait", "evict", "check", "scan", "idle"} \cap NeedsProcess = {}
  BY DEF Places, NeedsProcess
<1>1. CASE StsWake
  <2>1. RestTyped'
    BY <1>1, DispatchAssumption DEF StsWake, Typed, RestTyped
  <2>2. ThreadsTyped' \/ UNCHANGED thr
    BY <1>1, HomeTyped DEF StsWake
  <2> QED BY <1>1, <2>1, <2>2, TypedFrame DEF StsWake
<1>2. CASE StsNothingToDispatch
  <2> DEFINE low == get_lowest_priority_process(exec, Priority)
  <2>1. low = NoProc \/ low \in Proc
    <3>1. CASE exec = <<>>
      BY <3>1 DEF get_lowest_priority_process
    <3>2. CASE exec # <<>>
      <4>1. exec \in Seq(Proc) /\ Priority \in [Proc -> Nat]
        BY DispatchAssumption DEF Typed, ProcsTyped
      <4>2. \E i \in DOMAIN exec : low = exec[i]
        BY <3>2, <4>1, LowestIsListed
      <4> QED BY <4>1, <4>2
    <3> QED BY <3>1, <3>2
  <2>2. \/ low \in Proc /\ Goto("STS", Local("evict", low, cpu[low]))
        \/ Goto("STS", Local("wait", NoProc, NoCpu))
    BY <1>2, <2>1 DEF StsNothingToDispatch
  <2> HIDE DEF low
  <2>3. low \in Proc => cpu[low] \in Cpu \cup {NoCpu}
    BY DEF Typed, ProcsTyped
  <2>4. ThreadsTyped'
    BY <1>0, <2>2, <2>3, GotoTyped
  <2> QED BY <1>2, <2>4, TypedFrame DEF StsNothingToDispatch
<1>3. ASSUME NEW c \in Cpu, StsDispatch(c) PROVE Typed'
  <2>1. PICK p \in Proc : p = get_next_process_to_execute
    BY <1>3, HighestIsQueued DEF StsDispatch, get_next_process_to_execute, Typed, ProcsTyped
  <2>2. /\ remove_process_from_ready_queue(readyQ, p, Priority[p]) \in [Queues -> Seq(Proc)]
        /\ Append(exec, p) \in Seq(Proc)
    BY <2>1, QueueTyped DEF Typed, ProcsTyped
  <2>3. /\ readyQ' = remove_process_from_ready_queue(readyQ, p, Priority[p])
        /\ exec' = Append(exec, p) /\ state' = [state EXCEPT ![p] = "EXEC"]
        /\ cpu' = [cpu EXCEPT ![p] = c] /\ UNCHANGED <<listed, pendingMem>>
        /\ Goto("STS", Local("check", p, c)) /\ TakeCpu(c)
    BY <1>3, <2>1 DEF StsDispatch
  <2>4. ProcsTyped'
    BY <2>2, <2>3 DEF Typed, ProcsTyped, States
  <2>5. CpusTyped'
    BY <1>3, <2>3 DEF StsDispatch, TakeCpu, Typed, CpusTyped
  <2>6. ThreadsTyped'
    BY <1>0, <2>3, GotoTyped
  <2> QED BY <1>3, <2>4, <2>5, <2>6, TypedFrame DEF StsDispatch
<1>4. CASE QuantumWake \/ QuantumScanned
  <2>1. ThreadsTyped'
    BY <1>0, <1>4, GotoTyped DEF QuantumWake, QuantumScanned
  <2> QED BY <1>4, <2>1, TypedFrame DEF QuantumWake, QuantumScanned
<1>5. ASSUME NEW p \in Proc, QuantumExpired(p) PROVE Typed'
  <2>1. cpu[p] \in Cpu \cup {NoCpu}
    BY DEF Typed, ProcsTyped
  <2>2. ThreadsTyped'
    BY <1>0, <1>5, <2>1, GotoTyped DEF QuantumExpired
  <2> QED BY <1>5, <2>2, TypedFrame DEF QuantumExpired
<1> QED BY <1>1, <1>2, <1>3, <1>4, <1>5 DEF StsStep, QuantumStep

\* The handler of a CPU and the disconnection.
LEMMA HandlerTyped ==
    ASSUME Typed, NEW c \in Cpu, HandlerStep(c)
    PROVE  Typed'
<1> USE CpuNames DEF procVars, cpuVars, netVars, extVars, restVars
<1>0. /\ {"create", "check", "kill", "free", "read"} \subseteq Places
      /\ {"check", "kill"} \cap NeedsProcess = {} /\ {"create", "free", "read"} \subseteq NeedsProcess
  BY DEF Places, NeedsProcess
<1>1. CASE HandleProcessCreate(c)
  <2>1. PICK p \in Proc, q \in Proc :
           /\ Receive(c, "PROCESS_CREATE", p) /\ state' = [state EXCEPT ![q] = "ASSIGNED"]
           /\ kmNew' = kmNew \cup {q} /\ Goto(c, Local("create", q, NoCpu))
    BY <1>1 DEF HandleProcessCreate
  <2>2. ProcsTyped'
    BY <1>1, <2>1 DEF HandleProcessCreate, Typed, ProcsTyped, States
  <2>3. SocketsTyped'
    BY <1>1, <2>1, ReceiveTyped DEF HandleProcessCreate
  <2>4. ThreadsTyped'
    BY <1>0, <2>1, GotoTyped
  <2>5. RestTyped'
    BY <1>1, <2>1 DEF HandleProcessCreate, Typed, RestTyped
  <2> QED BY <1>1, <2>2, <2>3, <2>4, <2>5, TypedFrame DEF HandleProcessCreate
<1>2. CASE ListProcess(c)
  <2>1. thr[c].pid \in Proc
    BY <1>0, <1>2 DEF ListProcess, Typed, ThreadsTyped
  <2>2. Append(listed, thr[c].pid) \in Seq(Proc)
    BY <2>1 DEF Typed, ProcsTyped
  <2>3. ProcsTyped'
    BY <1>2, <2>2 DEF ListProcess, Typed, ProcsTyped, States
  <2>4. ThreadsTyped'
    BY <1>2, HomeTyped DEF ListProcess
  <2> QED BY <1>2, <2>3, <2>4, TypedFrame DEF ListProcess
<1>3. CASE HandleProcessEnd(c)
  <2>1. PICK p \in Proc, op \in {"PROCESS_END", "SEGMENTATION_FAULT"} :
           /\ Receive(c, op, p) /\ state' = [state EXCEPT ![p] = "EXIT"]
           /\ cpu' = [cpu EXCEPT ![p] = NoCpu] /\ exec' = RemoveFirst(exec, p)
    BY <1>3 DEF HandleProcessEnd
  <2>2. RemoveFirst(exec, p) \in Seq(Proc)
    BY ExecTyped DEF Typed
  <2>3. ProcsTyped'
    BY <1>3, <2>1, <2>2 DEF HandleProcessEnd, Typed, ProcsTyped, States
  <2>4. CpusTyped'
    BY <1>3 DEF HandleProcessEnd, Typed, CpusTyped
  <2>5. SocketsTyped'
    BY <1>3, <2>1, ReceiveTyped DEF HandleProcessEnd
  <2>6. RestTyped'
    BY <1>3, SemTyped DEF HandleProcessEnd, Typed, RestTyped
  <2> QED BY <1>3, <2>3, <2>4, <2>5, <2>6, TypedFrame DEF HandleProcessEnd
<1>4. CASE HandleMutexCreate(c)
  <2>1. PICK p \in Proc : Receive(c, "MUTEX_CREATE", p) /\ Goto(c, Local("check", p, c))
    BY <1>4 DEF HandleMutexCreate
  <2>2. SocketsTyped'
    BY <1>4, <2>1, ReceiveTyped DEF HandleMutexCreate
  <2>3. ThreadsTyped'
    BY <1>0, <2>1, GotoTyped
  <2> QED BY <1>4, <2>2, <2>3, TypedFrame DEF HandleMutexCreate
<1>5. CASE HandleMutexUnknown(c)
  <2>1. PICK p \in Proc : Receive(c, "MUTEX_UNKNOWN", p) /\ Goto(c, Local("kill", p, c))
    BY <1>5 DEF HandleMutexUnknown
  <2>2. SocketsTyped'
    BY <1>5, <2>1, ReceiveTyped DEF HandleMutexUnknown
  <2>3. ThreadsTyped'
    BY <1>0, <2>1, GotoTyped
  <2>4. CpusTyped'
    BY <1>5 DEF HandleMutexUnknown, Typed, CpusTyped
  <2> QED BY <1>5, <2>2, <2>3, <2>4, TypedFrame DEF HandleMutexUnknown
<1>6. CASE KillProcess(c)
  <2>1. RemoveFirst(exec, thr[c].pid) \in Seq(Proc)
    BY ExecTyped DEF Typed
  <2>2. ProcsTyped'
    BY <1>6, <2>1 DEF KillProcess, Typed, ProcsTyped, States
  <2>3. ThreadsTyped'
    BY <1>6, HomeTyped DEF KillProcess
  <2>4. RestTyped'
    BY <1>6, SemTyped DEF KillProcess, Typed, RestTyped
  <2> QED BY <1>6, <2>2, <2>3, <2>4, TypedFrame DEF KillProcess
<1>7. CASE HandleSleep(c)
  <2>1. PICK p \in Proc, op \in {"SLEEP", "STDOUT"}, at \in {"free", "read"} :
           /\ Receive(c, op, p) /\ state' = [state EXCEPT ![p] = "BLOCK"]
           /\ cpu' = [cpu EXCEPT ![p] = NoCpu] /\ exec' = RemoveFirst(exec, p)
           /\ Goto(c, Local(at, p, c))
    BY <1>7 DEF HandleSleep
  <2>2. RemoveFirst(exec, p) \in Seq(Proc)
    BY ExecTyped DEF Typed
  <2>3. ProcsTyped'
    BY <1>7, <2>1, <2>2 DEF HandleSleep, Typed, ProcsTyped, States
  <2>4. SocketsTyped'
    BY <1>7, <2>1, ReceiveTyped DEF HandleSleep
  <2>5. ThreadsTyped'
    BY <1>0, <2>1, GotoTyped
  <2> QED BY <1>7, <2>3, <2>4, <2>5, TypedFrame DEF HandleSleep
<1>8. CASE FreeCpu(c)
  <2>1. thr[c].pid \in Proc
    BY <1>0, <1>8 DEF FreeCpu, Typed, ThreadsTyped
  <2>2. CpusTyped'
    BY <1>8 DEF FreeCpu, Typed, CpusTyped
  <2>3. ThreadsTyped'
    BY <1>8, HomeTyped DEF FreeCpu
  <2>4. RestTyped'
    BY <1>8, <2>1, SemTyped DEF FreeCpu, Typed, RestTyped
  <2> QED BY <1>8, <2>2, <2>3, <2>4, TypedFrame DEF FreeCpu
<1>9. CASE HandleMemAlloc(c)
  <2>1. PICK p \in Proc :
           /\ Receive(c, "MEM_ALLOC", p) /\ pendingMem' = [pendingMem EXCEPT ![p] = TRUE]
           /\ kmReq' = kmReq \cup {p}
    BY <1>9 DEF HandleMemAlloc
  <2>2. ProcsTyped'
    BY <1>9, <2>1 DEF HandleMemAlloc, Typed, ProcsTyped
  <2>3. SocketsTyped'
    BY <1>9, <2>1, ReceiveTyped DEF HandleMemAlloc
  <2>4. RestTyped'
    BY <1>9, <2>1 DEF HandleMemAlloc, Typed, RestTyped
  <2> QED BY <1>9, <2>2, <2>3, <2>4, TypedFrame DEF HandleMemAlloc
<1>10. CASE HandleConfirmation(c)
  <2>1. SocketsTyped'
    BY <1>10, ReceiveTyped DEF HandleConfirmation
  <2>2. CpusTyped'
    BY <1>10 DEF HandleConfirmation, Typed, CpusTyped
  <2> QED BY <1>10, <2>1, <2>2, TypedFrame DEF HandleConfirmation
<1>12. CASE send_memory_read(c)
  <2>1. thr[c].pid \in Proc
    BY <1>0, <1>12 DEF send_memory_read, Typed, ThreadsTyped
  <2>2. CpusTyped'
    BY <1>12 DEF send_memory_read, Typed, CpusTyped
  <2>3. ThreadsTyped'
    BY <1>12, HomeTyped DEF send_memory_read
  <2>4. RestTyped'
    BY <1>12, <2>1 DEF send_memory_read, Typed, RestTyped
  <2> QED BY <1>12, <2>2, <2>3, <2>4, TypedFrame DEF send_memory_read
<1>13. CASE HandleStdinEmpty(c)
  <2>1. PICK p \in Proc :
           /\ Receive(c, "STDIN_EMPTY", p) /\ state' = [state EXCEPT ![p] = "EXIT"]
           /\ exec' = RemoveFirst(exec, p)
    BY <1>13 DEF HandleStdinEmpty
  <2>2. RemoveFirst(exec, p) \in Seq(Proc)
    BY ExecTyped DEF Typed
  <2>3. ProcsTyped'
    BY <1>13, <2>1, <2>2 DEF HandleStdinEmpty, Typed, ProcsTyped, States
  <2>4. SocketsTyped'
    BY <1>13, <2>1, ReceiveTyped DEF HandleStdinEmpty
  <2> QED BY <1>13, <2>3, <2>4, TypedFrame DEF HandleStdinEmpty
<1>14. CASE HandleMemAllocEmpty(c)
  <2>1. SocketsTyped'
    BY <1>14, ReceiveTyped DEF HandleMemAllocEmpty
  <2> QED BY <1>14, <2>1, TypedFrame DEF HandleMemAllocEmpty
<1>11. CASE handle_cpu_disconnection(c)
  <2>1. get_process_from_cpu(c) \in Proc \cup {NoProc}
    BY FoundOnCpu DEF Typed
  <2>2. ProcsTyped' \/ UNCHANGED procVars
    BY <1>11, <2>1, DetachTyped DEF handle_cpu_disconnection
  <2>3. CpusTyped'
    BY <1>11 DEF handle_cpu_disconnection, Typed, CpusTyped
  <2>4. RestTyped'
    BY <1>11, SemTyped DEF handle_cpu_disconnection, Typed, RestTyped
  <2> QED BY <1>11, <2>2, <2>3, <2>4, TypedFrame DEF handle_cpu_disconnection
<1> QED BY <1>1, <1>2, <1>3, <1>4, <1>5, <1>6, <1>7, <1>8, <1>9, <1>10, <1>11, <1>12, <1>13, <1>14
    DEF HandlerStep

\* The answers of Kernel Memory and of the devices.
LEMMA AnswerTyped ==
    ASSUME Typed, KmStep \/ \E p \in Proc : io_finish_process(p)
    PROVE  Typed'
<1> USE CpuNames DEF procVars, cpuVars, netVars, extVars, restVars
<1>0. /\ {"check", "terminate", "unlist", "release"} \subseteq Places
      /\ {"check", "release"} \cap NeedsProcess = {} /\ {"terminate", "unlist"} \subseteq NeedsProcess
  BY DEF Places, NeedsProcess
<1>1. ASSUME NEW p \in Proc, wait_process_create_confirmation(p) PROVE Typed'
  <2>1. add_process_to_ready_queue(readyQ, p, Priority[p]) \in [Queues -> Seq(Proc)]
    BY QueueTyped DEF Typed
  <2>2. ProcsTyped'
    BY <1>1, <2>1 DEF wait_process_create_confirmation, Typed, ProcsTyped, States
  <2>3. RestTyped'
    <3>1. kmNew' \subseteq Proc /\ UNCHANGED <<canSchedule, comp, kmReq, kmRead, ioReq>>
      BY <1>1 DEF wait_process_create_confirmation, Typed, RestTyped
    <3>2. sem_post \/ UNCHANGED stsSem
      BY <1>1 DEF wait_process_create_confirmation
    <3> QED BY <3>1, <3>2, SemTyped DEF Typed, RestTyped
  <2> QED BY <1>1, <2>2, <2>3, TypedFrame DEF wait_process_create_confirmation
<1>2. ASSUME NEW p \in Proc, NEW ok \in BOOLEAN, SegmentResultEvicted(p, ok) PROVE Typed'
  <2>1. /\ add_process_to_ready_queue(readyQ, p, Priority[p]) \in [Queues -> Seq(Proc)]
        /\ RemoveFirst(exec, p) \in Seq(Proc)
    BY QueueTyped, ExecTyped DEF Typed
  <2>2. ProcsTyped'
    BY <1>2, <2>1 DEF SegmentResultEvicted, Typed, ProcsTyped, States
  <2>3. RestTyped'
    <3>1. kmReq' \subseteq Proc /\ UNCHANGED <<canSchedule, comp, kmNew, kmRead, ioReq>>
      BY <1>2 DEF SegmentResultEvicted, Typed, RestTyped
    <3>2. sem_post \/ UNCHANGED stsSem
      BY <1>2 DEF SegmentResultEvicted
    <3> QED BY <3>1, <3>2, SemTyped DEF Typed, RestTyped
  <2> QED BY <1>2, <2>2, <2>3, TypedFrame DEF SegmentResultEvicted
<1>3. ASSUME NEW p \in Proc, NEW ok \in BOOLEAN, SegmentResult(p, ok) PROVE Typed'
  <2>1. cpu[p] \in Cpu \cup {NoCpu}
    BY DEF Typed, ProcsTyped
  <2>2. Goto("KM", Local("check", p, cpu[p])) \/ Goto("KM", Local("terminate", p, cpu[p]))
    BY <1>3 DEF SegmentResult
  <2>3. ThreadsTyped'
    BY <1>0, <2>1, <2>2, GotoTyped
  <2>4. ProcsTyped'
    BY <1>3 DEF SegmentResult, Typed, ProcsTyped
  <2>5. RestTyped'
    BY <1>3 DEF SegmentResult, Typed, RestTyped
  <2> QED BY <1>3, <2>3, <2>4, <2>5, TypedFrame DEF SegmentResult
<1>4. CASE TerminateProcess
  <2>1. thr["KM"].pid \in Proc
    BY <1>0, <1>4 DEF TerminateProcess, Typed, ThreadsTyped
  <2>2. ProcsTyped'
    BY <1>4 DEF TerminateProcess, Typed, ProcsTyped, States
  <2>3. ThreadsTyped'
    BY <1>0, <1>4, <2>1, GoesOnTyped DEF TerminateProcess
  <2> QED BY <1>4, <2>2, <2>3, TypedFrame DEF TerminateProcess
<1>5. CASE UnlistProcess
  <2>1. PICK p \in Proc : p = thr["KM"].pid
    BY <1>0, <1>5 DEF UnlistProcess, Typed, ThreadsTyped
  <2>2. /\ remove_process_from_ready_queue(readyQ, p, Priority[p]) \in [Queues -> Seq(Proc)]
        /\ RemoveFirst(exec, p) \in Seq(Proc)
    BY QueueTyped, ExecTyped DEF Typed
  <2>3. ProcsTyped'
    BY <1>5, <2>1, <2>2 DEF UnlistProcess, Typed, ProcsTyped
  <2>4. ThreadsTyped'
    BY <1>0, <1>5, GoesOnTyped DEF UnlistProcess
  <2> QED BY <1>5, <2>3, <2>4, TypedFrame DEF UnlistProcess
<1>6. CASE ReleaseCpu
  <2>1. CpusTyped'
    BY <1>6 DEF ReleaseCpu, Typed, CpusTyped
  <2>2. ThreadsTyped'
    BY <1>6, HomeTyped DEF ReleaseCpu
  <2>3. RestTyped'
    BY <1>6, SemTyped DEF ReleaseCpu, Typed, RestTyped
  <2> QED BY <1>6, <2>1, <2>2, <2>3, TypedFrame DEF ReleaseCpu
<1>7. ASSUME NEW p \in Proc, io_finish_process(p) PROVE Typed'
  <2>1. add_process_to_ready_queue(readyQ, p, Priority[p]) \in [Queues -> Seq(Proc)]
    BY QueueTyped DEF Typed
  <2>2. ProcsTyped'
    BY <1>7, <2>1 DEF io_finish_process, Typed, ProcsTyped, States
  <2>3. RestTyped'
    BY <1>7, SemTyped DEF io_finish_process, Typed, RestTyped
  <2> QED BY <1>7, <2>2, <2>3, TypedFrame DEF io_finish_process
<1>8. ASSUME NEW p \in Proc, NEW ok \in BOOLEAN, stdout_wait_memory_read(p, ok) PROVE Typed'
  <2>1. ProcsTyped'
    BY <1>8 DEF stdout_wait_memory_read, Typed, ProcsTyped, States
  <2>2. RestTyped'
    BY <1>8, SemTyped DEF stdout_wait_memory_read, Typed, RestTyped
  <2> QED BY <1>8, <2>1, <2>2, TypedFrame DEF stdout_wait_memory_read
<1> QED BY <1>1, <1>2, <1>3, <1>4, <1>5, <1>6, <1>7, <1>8 DEF KmStep

\* Compaction.
LEMMA CompactionTyped ==
    ASSUME Typed, CompactionStep
    PROVE  Typed'
<1> USE CpuNames DEF procVars, cpuVars, netVars, extVars, restVars
<1>0. comp \in [at : CompactionPlaces, for : Proc \cup {NoProc},
                todo : Seq(Cpu \cup {NoCpu}), evicted : Seq(Cpu)]
  BY DEF Typed, RestTyped
<1>1. ASSUME NEW p \in Proc, CompactionRequest(p) PROVE Typed'
  <2>1. RestTyped'
    BY <1>1 DEF CompactionRequest, Typed, RestTyped, CompactionPlaces
  <2> QED BY <1>1, <2>1, TypedFrame DEF CompactionRequest
<1>2. CASE CompactionSnapshot
  <2> DEFINE todo == [i \in DOMAIN exec |-> cpu[exec[i]]]
  <2>1. exec \in Seq(Proc) /\ cpu \in [Proc -> Cpu \cup {NoCpu}]
    BY DEF Typed, ProcsTyped
  <2>2. DOMAIN exec = 1 .. Len(exec) /\ Len(exec) \in Nat
    BY <2>1
  <2>3. \A i \in 1 .. Len(exec) : cpu[exec[i]] \in Cpu \cup {NoCpu}
    BY <2>1
  <2>4. todo \in Seq(Cpu \cup {NoCpu})
    BY <2>2, <2>3
  <2>5. comp' = [comp EXCEPT !.at = "evict", !.todo = todo]
    BY <1>2 DEF CompactionSnapshot
  <2> HIDE DEF todo
  <2>6. RestTyped'
    BY <1>0, <1>2, <2>4, <2>5 DEF CompactionSnapshot, Typed, RestTyped, CompactionPlaces
  <2> QED BY <1>2, <2>6, TypedFrame DEF CompactionSnapshot
<1>3. CASE CompactionEvict
  <2>1. CASE comp.todo = <<>>
    <3>1. RestTyped'
      BY <1>3, <2>1 DEF CompactionEvict, Typed, RestTyped, CompactionPlaces
    <3> QED BY <1>3, <2>1, <3>1, TypedFrame DEF CompactionEvict
  <2>2. CASE comp.todo # <<>>
    <3>1. PICK c \in Cpu \cup {NoCpu} : c = Head(comp.todo)
      BY <1>0, <2>2, ListTail
    <3>2. Tail(comp.todo) \in Seq(Cpu \cup {NoCpu})
      BY <1>0, <2>2, ListTail
    <3>3. evicting' \in [Cpu -> BOOLEAN] /\ SocketsTyped'
      BY <1>3, <2>2, <3>1, EvictTyped DEF CompactionEvict
    <3>4. CpusTyped'
      BY <1>3, <3>3 DEF CompactionEvict, Typed, CpusTyped
    <3>5. c # NoCpu => Append(comp.evicted, c) \in Seq(Cpu)
      BY <1>0, <3>1
    <3>6. comp' \in [at : CompactionPlaces, for : Proc \cup {NoProc},
                     todo : Seq(Cpu \cup {NoCpu}), evicted : Seq(Cpu)]
      BY <1>0, <1>3, <2>2, <3>1, <3>2, <3>5 DEF CompactionEvict
    <3>7. RestTyped'
      BY <1>3, <3>6 DEF CompactionEvict, Typed, RestTyped
    <3> QED BY <1>3, <3>3, <3>4, <3>7, TypedFrame DEF CompactionEvict
  <2> QED BY <2>1, <2>2
<1>4. CASE CompactionConfirmed
  <2>1. PICK c \in Cpu : c = Head(comp.evicted) /\ Tail(comp.evicted) \in Seq(Cpu)
    BY <1>0, <1>4, ListTail DEF CompactionConfirmed
  <2>2. PICK p \in Proc \cup {NoProc} : p = get_process_from_cpu(c)
    BY FoundOnCpu DEF Typed
  <2>3. RestTyped'
    BY <1>0, <1>4, <2>1 DEF CompactionConfirmed, Typed, RestTyped
  <2>4. response' \in [Cpu -> Nat]
    BY <1>4, <2>1 DEF CompactionConfirmed, WaitResponse, Typed, CpusTyped
  <2>5. CpusTyped'
    BY <1>4, <2>1, <2>2, <2>4 DEF CompactionConfirmed, Typed, CpusTyped
  <2>6. ProcsTyped' \/ UNCHANGED procVars
    <3>1. CASE p = NoProc
      BY <1>4, <2>1, <2>2, <3>1 DEF CompactionConfirmed
    <3>2. CASE p \in Proc
      <4>1. p # NoProc
        BY <3>2, QueueAssumption
      <4>2. /\ add_process_at_start_of_ready_queue(readyQ, p, Priority[p]) \in [Queues -> Seq(Proc)]
            /\ RemoveFirst(exec, p) \in Seq(Proc)
        BY <3>2, QueueTyped, ExecTyped DEF Typed
      <4> QED BY <1>4, <2>1, <2>2, <3>2, <4>1, <4>2 DEF CompactionConfirmed, Typed, ProcsTyped, States
    <3> QED BY <3>1, <3>2
  <2> QED BY <1>4, <2>3, <2>5, <2>6, TypedFrame DEF CompactionConfirmed
<1>5. CASE CompactionReady
  <2>1. RestTyped'
    BY <1>5 DEF CompactionReady, Typed, RestTyped, CompactionPlaces
  <2> QED BY <1>5, <2>1, TypedFrame DEF CompactionReady
<1>6. CASE CompactionFinished
  <2>1. stsSem' \in 0 .. MaxWakeups
    BY <1>6, DispatchAssumption DEF CompactionFinished, sem_post, Typed, RestTyped
  <2>2. RestTyped'
    BY <1>6, <2>1 DEF CompactionFinished, Typed, RestTyped, CompactionPlaces
  <2> QED BY <1>6, <2>2, TypedFrame DEF CompactionFinished
<1> QED BY <1>1, <1>2, <1>3, <1>4, <1>5, <1>6 DEF CompactionStep

\* Every step keeps the types, under no hypothesis.
LEMMA TypedStep == Typed /\ [Next]_vars => Typed'
<1> SUFFICES ASSUME Typed, [Next]_vars PROVE Typed'
  OBVIOUS
<1>1. CASE UNCHANGED vars
  BY <1>1, TypedFrame DEF vars, restVars
<1> QED BY <1>1, CpuTyped, SendTyped, ConfirmationTyped, SchedulersTyped, HandlerTyped, AnswerTyped,
    CompactionTyped DEF Next

\* TypeOK: every variable keeps the type of the C structure it stands for,
\* with all syscalls, compaction and evictions that overtake an order.
THEOREM TypeTheorem == Spec => []TypeOK
<1>1. Typed => TypeOK
  <2> SUFFICES ASSUME Typed PROVE TypeOK
    OBVIOUS
  <2>1. /\ \A c \in Cpu : \A i \in DOMAIN toCpu[c] : toCpu[c][i] \in AnyOrder
        /\ \A c \in Cpu : \A i \in DOMAIN fromCpu[c] : fromCpu[c][i] \in AnyReport
    BY DEF Typed, SocketsTyped
  <2> QED BY <2>1 DEF TypeOK, Typed, ProcsTyped, CpusTyped, SocketsTyped, ThreadsTyped, RestTyped,
      AnyOrder, AnyReport, Locals, States, Places, CompactionPlaces
<1> QED BY <1>1, InitTyped, TypedStep, PTL DEF Spec

-----------------------------------------------------------------------------
(* All syscalls without evictions.  A process is active in one place at    *)
(* most, and only where its CPU is: in the hands of a thread, ordered,     *)
(* running, reported by a syscall, or waiting for memory.  Nothing has to  *)
(* be said of the CPUs: an unknown mutex even gives a CPU away too early.  *)

\* FIFO, or CMN with FIFO queues that do not preempt each other; no CPU
\* dies and memory is never compacted.
NoEvictions ==
    /\ ~Crashes /\ ~Compaction
    /\ \/ Algorithm = "FIFO"
       \/ /\ Algorithm = "CMN" /\ ~QueuePreemption
          /\ \A i \in Queues : QueueAlgorithm[i] = "FIFO"

\* Some element of s is in M; at most one is.
Some(s, M) == \E i \in DOMAIN s : s[i] \in M
Once(s, M) == \A i, j \in DOMAIN s : s[i] \in M /\ s[j] \in M => i = j

\* What is sent to execute p, and the syscalls with which p yields.
OrdersOf(p) == {Message("PROCESS_EXECUTE", p)}
ReportsOf(p) == {Message(op, p) : op \in AllSyscalls \ {"PROCESS_CREATE"}}

\* Thread t is about to send p to its CPU or to end it.
Working == {"check", "send", "kill", "terminate"}
Works(t, p) == thr[t].at \in Working /\ thr[t].pid = p

\* The five places where p may be active.
InHand(p) == \E t \in Threads : Works(t, p)
Ordered(p) == \E c \in Cpu : Some(toCpu[c], OrdersOf(p))
Runs(p) == \E c \in Cpu : running[c] = p
Reported(p) == \E c \in Cpu : Some(fromCpu[c], ReportsOf(p))
Asked(p) == p \in kmReq
Active(p) == InHand(p) \/ Ordered(p) \/ Runs(p) \/ Reported(p) \/ Asked(p)

\* p is in one of them only, and there once.
Alone(p) ==
    /\ InHand(p) => ~Ordered(p) /\ ~Runs(p) /\ ~Reported(p) /\ ~Asked(p)
    /\ Ordered(p) => ~Runs(p) /\ ~Reported(p) /\ ~Asked(p)
    /\ Runs(p) => ~Reported(p) /\ ~Asked(p)
    /\ Reported(p) => ~Asked(p)
    /\ \A t, u \in Threads : Works(t, p) /\ Works(u, p) => t = u
    /\ \A c \in Cpu : Once(toCpu[c], OrdersOf(p)) /\ Once(fromCpu[c], ReportsOf(p))

\* It is there for the CPU it is assigned to, and in EXEC.
Located(p) ==
    /\ \A t \in Threads : Works(t, p) => thr[t].cpu = cpu[p]
    /\ \A c \in Cpu : Some(toCpu[c], OrdersOf(p)) => cpu[p] = c
    /\ \A c \in Cpu : running[c] = p => cpu[p] = c
    /\ \A c \in Cpu : Some(fromCpu[c], ReportsOf(p)) => cpu[p] = c
    /\ Active(p) => state[p] = "EXEC"

\* Nobody evicts.
Calm ==
    /\ \A c \in Cpu : ~evicting[c] /\ waiters[c] = 0 /\ connected[c] \in {"no", "yes"}
    /\ comp.at = "idle" /\ thr["QM"].at = "idle"
    /\ \A t \in Threads : thr[t].at # "evict"

\* The lists, and the process that Kernel Memory's handler has ended.
CalmLists ==
    /\ ReadyQueuesMatchStates
    /\ \A p \in Proc : state[p] = "EXEC" => cpu[p] # NoCpu
    /\ \A p \in Proc : InList(listed, p) => state[p] \notin {"NONE", "ASSIGNED"}
    /\ thr["KM"].at = "unlist" => state[thr["KM"].pid] = "EXIT" /\ thr["KM"].pid \notin Awaited

\* The inductive invariant without evictions.
CalmInv ==
    /\ Typed /\ Calm /\ CalmLists /\ Origins
    /\ \A t \in Threads : thr[t].at \in Working => thr[t].pid \in Proc
    /\ \A p \in Proc : Alone(p) /\ Located(p)

\* Sending and receiving, as far as the messages of a set are concerned.
LEMMA SomeAppend ==
    ASSUME NEW S, NEW s \in Seq(S), NEW e \in S, NEW M
    PROVE  /\ Some(Append(s, e), M) <=> Some(s, M) \/ e \in M
           /\ Once(s, M) /\ (e \notin M \/ ~Some(s, M)) => Once(Append(s, e), M)
<1> DEFINE r == Append(s, e)
<1> HIDE DEF r
<1>1. /\ \A i \in DOMAIN s : i \in DOMAIN r /\ r[i] = s[i] /\ i # Len(s) + 1
      /\ \A i \in DOMAIN r : i \in DOMAIN s \/ i = Len(s) + 1
      /\ Len(s) + 1 \in DOMAIN r /\ r[Len(s) + 1] = e
  BY ListAppend DEF r
<1>2. Some(r, M) <=> Some(s, M) \/ e \in M
  BY <1>1 DEF Some
<1>3. Once(s, M) /\ (e \notin M \/ ~Some(s, M)) => Once(r, M)
  BY <1>1 DEF Once, Some
<1> QED BY <1>2, <1>3 DEF r

\* Receiving the first message adds none, and keeps at most one.
LEMMA SomeTail ==
    ASSUME NEW S, NEW s \in Seq(S), s # <<>>, NEW M
    PROVE  /\ Some(Tail(s), M) => Some(s, M)
           /\ Once(s, M) => Once(Tail(s), M)
           /\ Head(s) \in M => Some(s, M) /\ (Once(s, M) => ~Some(Tail(s), M))
<1> DEFINE r == Tail(s)
<1> HIDE DEF r
<1>1. /\ 1 \in DOMAIN s /\ Head(s) = s[1]
      /\ \A i \in DOMAIN r : i + 1 \in DOMAIN s /\ i + 1 # 1 /\ i \in Nat /\ r[i] = s[i + 1]
  BY ListTail DEF r
<1>2. Some(r, M) => Some(s, M)
  BY <1>1 DEF Some
<1>3. Once(s, M) => Once(r, M)
  <2> SUFFICES ASSUME Once(s, M), NEW i \in DOMAIN r, NEW j \in DOMAIN r, r[i] \in M, r[j] \in M
               PROVE  i = j
    BY DEF Once
  <2>1. i + 1 = j + 1 /\ i \in Nat /\ j \in Nat
    BY <1>1 DEF Once
  <2> QED BY <2>1
<1>4. Head(s) \in M => Some(s, M) /\ (Once(s, M) => ~Some(r, M))
  BY <1>1 DEF Some, Once
<1> QED BY <1>2, <1>3, <1>4 DEF r

\* Which messages are about p.
LEMMA MessagesOf ==
    ASSUME NEW p, NEW q, NEW op
    PROVE  /\ Message(op, q) \in OrdersOf(p) <=> op = "PROCESS_EXECUTE" /\ q = p
           /\ Message(op, q) \in ReportsOf(p) <=> op \in AllSyscalls \ {"PROCESS_CREATE"} /\ q = p
<1>1. \A o1, o2, p1, p2 : Message(o1, p1) = Message(o2, p2) <=> o1 = o2 /\ p1 = p2
  BY DEF Message
<1> QED BY <1>1 DEF OrdersOf, ReportsOf

\* A step takes nothing about q up, ...
LessThr(q) == \A t \in Threads : Works(t, q)' => Works(t, q) /\ thr'[t].cpu = thr[t].cpu
LessTo(q) ==
    \A c \in Cpu : /\ Some(toCpu'[c], OrdersOf(q)) => Some(toCpu[c], OrdersOf(q))
                   /\ Once(toCpu[c], OrdersOf(q)) => Once(toCpu'[c], OrdersOf(q))
LessRun(q) == \A c \in Cpu : running'[c] = q => running[c] = q
LessFrom(q) ==
    \A c \in Cpu : /\ Some(fromCpu'[c], ReportsOf(q)) => Some(fromCpu[c], ReportsOf(q))
                   /\ Once(fromCpu[c], ReportsOf(q)) => Once(fromCpu'[c], ReportsOf(q))
LessReq(q) == q \in kmReq' => q \in kmReq
Less(q) == LessThr(q) /\ LessTo(q) /\ LessRun(q) /\ LessFrom(q) /\ LessReq(q)

\* ... not where it changes nothing.
LEMMA LessFrame ==
    ASSUME NEW q
    PROVE  /\ UNCHANGED thr => LessThr(q)
           /\ UNCHANGED toCpu => LessTo(q)
           /\ UNCHANGED running => LessRun(q)
           /\ UNCHANGED fromCpu => LessFrom(q)
           /\ UNCHANGED kmReq => LessReq(q)
BY DEF LessThr, LessTo, LessRun, LessFrom, LessReq, Works

\* Then q stays in one place at most, ...
LEMMA LessKeeps ==
    ASSUME NEW q \in Proc, Alone(q), Located(q), Less(q), state'[q] = state[q], cpu'[q] = cpu[q]
    PROVE  Alone(q)' /\ Located(q)'
<1> USE DEF Less
<1>1. /\ InHand(q)' => InHand(q)
      /\ Ordered(q)' => Ordered(q)
      /\ Runs(q)' => Runs(q)
      /\ Reported(q)' => Reported(q)
      /\ Asked(q)' => Asked(q)
  BY DEF InHand, Ordered, Runs, Reported, Asked, LessThr, LessTo, LessRun, LessFrom, LessReq
<1>2. \A t, u \in Threads : Works(t, q)' /\ Works(u, q)' => t = u
  BY DEF Alone, LessThr
<1>3. \A c \in Cpu : Once(toCpu'[c], OrdersOf(q)) /\ Once(fromCpu'[c], ReportsOf(q))
  BY DEF Alone, LessTo, LessFrom
<1>4. Alone(q)'
  BY <1>1, <1>2, <1>3 DEF Alone
<1>5. Located(q)'
  BY <1>1 DEF Located, Active, LessThr, LessTo, LessRun, LessFrom
<1> QED BY <1>4, <1>5

\* ... and in none when it was in none.
LEMMA NowhereKeeps ==
    ASSUME NEW q \in Proc, ~Active(q)'
    PROVE  Alone(q)' /\ Located(q)'
<1>1. /\ ~InHand(q)' /\ ~Ordered(q)' /\ ~Runs(q)' /\ ~Reported(q)' /\ ~Asked(q)'
  BY DEF Active
<1>2. /\ \A t \in Threads : ~Works(t, q)'
      /\ \A c \in Cpu : /\ ~Some(toCpu'[c], OrdersOf(q)) /\ ~Some(fromCpu'[c], ReportsOf(q))
                        /\ running'[c] # q
  BY <1>1 DEF InHand, Ordered, Runs, Reported
<1>3. \A c \in Cpu : Once(toCpu'[c], OrdersOf(q)) /\ Once(fromCpu'[c], ReportsOf(q))
  BY <1>2 DEF Some, Once
<1> QED BY <1>1, <1>2, <1>3 DEF Alone, Located, Active

\* What was not active does not become active.
LEMMA LessActive ==
    ASSUME NEW q \in Proc, Less(q), ~Active(q)
    PROVE  ~Active(q)'
BY DEF Less, Active, InHand, Ordered, Runs, Reported, Asked, LessThr, LessTo, LessRun, LessFrom, LessReq

\* p is taken up by one thread, ...
LEMMA NowInHand ==
    ASSUME NEW p \in Proc, NEW t \in Threads, Works(t, p)', thr'[t].cpu = cpu'[p], state'[p] = "EXEC",
           \A u \in Threads : u # t => ~Works(u, p)',
           ~Ordered(p)', ~Runs(p)', ~Reported(p)', ~Asked(p)'
    PROVE  Alone(p)' /\ Located(p)'
<1>1. \A c \in Cpu : /\ ~Some(toCpu'[c], OrdersOf(p)) /\ ~Some(fromCpu'[c], ReportsOf(p))
                     /\ running'[c] # p
  BY DEF Ordered, Runs, Reported
<1>2. \A c \in Cpu : Once(toCpu'[c], OrdersOf(p)) /\ Once(fromCpu'[c], ReportsOf(p))
  BY <1>1 DEF Some, Once
<1> QED BY <1>1, <1>2 DEF Alone, Located, InHand

\* ... or is in one of the other places.
LEMMA NowElsewhere ==
    ASSUME NEW p \in Proc, state'[p] = "EXEC", ~InHand(p)',
           \A c \in Cpu : /\ Some(toCpu'[c], OrdersOf(p)) => cpu'[p] = c
                          /\ Some(fromCpu'[c], ReportsOf(p)) => cpu'[p] = c
                          /\ running'[c] = p => cpu'[p] = c
                          /\ Once(toCpu'[c], OrdersOf(p)) /\ Once(fromCpu'[c], ReportsOf(p)),
           Ordered(p)' => ~Runs(p)' /\ ~Reported(p)' /\ ~Asked(p)',
           Runs(p)' => ~Reported(p)' /\ ~Asked(p)',
           Reported(p)' => ~Asked(p)'
    PROVE  Alone(p)' /\ Located(p)'
<1>1. \A t \in Threads : ~Works(t, p)'
  BY DEF InHand
<1> QED BY <1>1 DEF Alone, Located

\* What a thread's move means for the processes in hand.
LEMMA LessGoto ==
    ASSUME Typed, NEW t \in Threads, NEW loc, Goto(t, loc), NEW q \in Proc,
           loc.at \notin Working \/ loc.pid # q
    PROVE  LessThr(q) /\ ~Works(t, q)'
<1>1. thr'[t] = loc /\ \A u \in Threads : u # t => thr'[u] = thr[u]
  BY DEF Goto, Typed, ThreadsTyped
<1>2. ~Works(t, q)'
  BY <1>1 DEF Works
<1>3. \A u \in Threads : Works(u, q)' => u # t
  BY <1>2
<1> QED BY <1>1, <1>2, <1>3 DEF LessThr, Works

\* What messages mean for the processes they are not about.
LEMMA LessReceive ==
    ASSUME Typed, NEW c \in Cpu, NEW op, NEW p, Receive(c, op, p), NEW q \in Proc
    PROVE  LessFrom(q)
<1>1. fromCpu[c] \in Seq(AnyReport) /\ fromCpu[c] # <<>>
      /\ fromCpu'[c] = Tail(fromCpu[c]) /\ \A d \in Cpu : d # c => fromCpu'[d] = fromCpu[d]
  BY DEF Receive, Typed, SocketsTyped
<1>2. /\ Some(Tail(fromCpu[c]), ReportsOf(q)) => Some(fromCpu[c], ReportsOf(q))
      /\ Once(fromCpu[c], ReportsOf(q)) => Once(Tail(fromCpu[c]), ReportsOf(q))
  BY <1>1, SomeTail
<1> QED BY <1>1, <1>2 DEF LessFrom

\* A report that names another process, or nobody.
LEMMA LessReport ==
    ASSUME Typed, NEW c \in Cpu, NEW op \in AllSyscalls \cup {"CONFIRMATION"},
           NEW p \in Proc \cup {NoProc}, ToScheduler(c, op, p), NEW q \in Proc,
           op \in {"PROCESS_CREATE", "CONFIRMATION"} \/ p # q
    PROVE  LessFrom(q)
<1>1. fromCpu[c] \in Seq(AnyReport) /\ Message(op, p) \in AnyReport
      /\ fromCpu'[c] = Append(fromCpu[c], Message(op, p)) /\ \A d \in Cpu : d # c => fromCpu'[d] = fromCpu[d]
  BY DEF ToScheduler, Typed, SocketsTyped, Message, AnyReport
<1>2. Message(op, p) \notin ReportsOf(q)
  BY MessagesOf DEF AllSyscalls
<1>3. /\ Some(fromCpu'[c], ReportsOf(q)) => Some(fromCpu[c], ReportsOf(q))
      /\ Once(fromCpu[c], ReportsOf(q)) => Once(fromCpu'[c], ReportsOf(q))
  BY <1>1, <1>2, SomeAppend
<1> QED BY <1>1, <1>3 DEF LessFrom

\* A CPU takes an order.
LEMMA LessTake ==
    ASSUME Typed, NEW c \in Cpu, toCpu[c] # <<>>, toCpu' = [toCpu EXCEPT ![c] = Tail(@)], NEW q \in Proc
    PROVE  LessTo(q)
<1>1. toCpu[c] \in Seq(AnyOrder)
      /\ toCpu'[c] = Tail(toCpu[c]) /\ \A d \in Cpu : d # c => toCpu'[d] = toCpu[d]
  BY DEF Typed, SocketsTyped
<1>2. /\ Some(Tail(toCpu[c]), OrdersOf(q)) => Some(toCpu[c], OrdersOf(q))
      /\ Once(toCpu[c], OrdersOf(q)) => Once(Tail(toCpu[c]), OrdersOf(q))
  BY <1>1, SomeTail
<1> QED BY <1>1, <1>2 DEF LessTo

-----------------------------------------------------------------------------
\* Without evictions these steps do not happen.
LEMMA NoEvictionStep ==
    ASSUME NoEvictions, CalmInv
    PROVE  /\ \A c \in Cpu : /\ ~CpuCrash(c) /\ ~handle_cpu_disconnection(c)
                             /\ ~wait_confirmation_thread_and_handle_state(c)
           /\ \A t \in Threads : ~evict_process(t)
           /\ \A p \in Proc, ok \in BOOLEAN : ~SegmentResultEvicted(p, ok)
           /\ ~QuantumStep /\ ~CompactionStep
<1>1. /\ \A c \in Cpu : waiters[c] = 0 /\ connected[c] # "lost"
      /\ comp.at = "idle" /\ thr["QM"].at = "idle" /\ \A t \in Threads : thr[t].at # "evict"
  BY DEF CalmInv, Calm
<1>2. \A p \in Proc : ~process_has_quantum(p)
  <2> SUFFICES ASSUME NEW p \in Proc PROVE ~process_has_quantum(p)
    OBVIOUS
  <2>1. QueueIndex(Priority[p]) \in Queues
    BY QueueIndexType, DispatchAssumption
  <2> QED BY <2>1 DEF NoEvictions, process_has_quantum
<1>3. \A i \in DOMAIN exec : exec[i] \in Proc
  BY DEF CalmInv, Typed, ProcsTyped
<1>4. ~QuantumStep
  BY <1>1, <1>2, <1>3 DEF QuantumStep, QuantumWake, QuantumScanned, QuantumExpired
<1>5. ~CompactionStep
  <2>1. \A p \in Proc : ~CompactionRequest(p)
    BY DEF NoEvictions, CompactionRequest
  <2>2. ~CompactionSnapshot /\ ~CompactionEvict
    BY <1>1 DEF CompactionSnapshot, CompactionEvict
  <2>3. ~CompactionConfirmed
    BY <1>1 DEF CompactionConfirmed
  <2>4. ~CompactionReady /\ ~CompactionFinished
    BY <1>1 DEF CompactionReady, CompactionFinished
  <2> QED BY <2>1, <2>2, <2>3, <2>4 DEF CompactionStep
<1>6. ASSUME NEW p \in Proc, p \in kmReq PROVE cpu[p] # NoCpu
  <2>1. Active(p)
    BY <1>6 DEF Active, Asked
  <2> QED BY <2>1 DEF CalmInv, Located, CalmLists
<1>7. \A p \in Proc, ok \in BOOLEAN : ~SegmentResultEvicted(p, ok)
  BY <1>6 DEF SegmentResultEvicted
<1>8. \A c \in Cpu : ~CpuCrash(c) /\ ~handle_cpu_disconnection(c)
                     /\ ~wait_confirmation_thread_and_handle_state(c)
  <2> SUFFICES ASSUME NEW c \in Cpu PROVE ~CpuCrash(c) /\ ~handle_cpu_disconnection(c)
                     /\ ~wait_confirmation_thread_and_handle_state(c)
    OBVIOUS
  <2>1. waiters[c] = 0 /\ connected[c] # "lost"
    BY <1>1
  <2> QED BY <2>1 DEF NoEvictions, CpuCrash, handle_cpu_disconnection,
      wait_confirmation_thread_and_handle_state
<1>9. \A t \in Threads : ~evict_process(t)
  BY <1>1 DEF evict_process
<1> QED BY <1>4, <1>5, <1>7, <1>8, <1>9

\* A step that moves at most one thread, and no process between states.
LEMMA StatesKept ==
    ASSUME CalmInv, Typed', UNCHANGED <<state, cpu, listed, readyQ, kmRead, ioReq, evicting, waiters, comp>>,
           kmNew' \subseteq kmNew, \A c \in Cpu : connected'[c] \in {"no", "yes"},
           NEW t \in Threads, \A u \in Threads : u # t => thr'[u] = thr[u],
           \/ thr'[t] = thr[t]
           \/ t # "QM" /\ thr'[t].at \notin {"evict", "create", "free", "read", "unlist"}
              /\ (thr'[t].at \in Working => thr'[t].pid \in Proc),
           \A p \in Proc : Alone(p)' /\ Located(p)'
    PROVE  CalmInv'
<1> USE CpuNames
<1>1. \A u \in Threads : thr'[u] = thr[u] \/ (u # "QM" /\ thr'[u].at \notin {"evict", "create", "free", "read", "unlist"}
                                          /\ (thr'[u].at \in Working => thr'[u].pid \in Proc))
  OBVIOUS
<1>2. Calm'
  BY <1>1 DEF CalmInv, Calm
<1>3. CalmLists'
  BY <1>1 DEF CalmInv, CalmLists, ReadyQueuesMatchStates, InList, Awaited
<1>4. Origins'
  <2>1. \A c \in Cpu : Held(c)' => thr'[c] = thr[c] /\ Held(c)
    BY <1>1 DEF Held, Frees
  <2> QED BY <2>1 DEF CalmInv, Origins, Awaited, Held, Frees
<1>5. \A u \in Threads : thr'[u].at \in Working => thr'[u].pid \in Proc
  BY <1>1 DEF CalmInv
<1> QED BY <1>2, <1>3, <1>4, <1>5 DEF CalmInv

\* A thread's move, in the form the lemmas above need it.
LEMMA ThreadMoves ==
    ASSUME Typed, NEW t \in Threads, NEW loc, Goto(t, loc)
    PROVE  thr'[t] = loc /\ \A u \in Threads : u # t => thr'[u] = thr[u]
BY DEF Goto, Typed, ThreadsTyped

\* A CPU connects, confirms an eviction, or has a confirmation served.
LEMMA CalmConnect ==
    ASSUME CalmInv, Typed', NEW c \in Cpu, CpuConnect(c) \/ CpuEvict(c) \/ HandleConfirmation(c)
    PROVE  CalmInv'
<1> USE CpuNames, DispatchAssumption DEF procVars, cpuVars, netVars, extVars
<1>1. /\ UNCHANGED <<state, cpu, listed, readyQ, kmNew, kmReq, kmRead, ioReq, evicting, waiters, comp, thr>>
      /\ \A d \in Cpu : connected'[d] \in {"no", "yes"}
  BY DEF CpuConnect, CpuEvict, HandleConfirmation, CalmInv, Calm, Typed, CpusTyped
<1>2. ASSUME NEW q \in Proc PROVE Alone(q)' /\ Located(q)'
  <2>1. Typed /\ Alone(q) /\ Located(q)
    BY DEF CalmInv
  <2>2. CASE CpuConnect(c)
    <3>1. Less(q)
      BY <1>1, <2>2, LessFrame DEF CpuConnect, Less
    <3> QED BY <1>1, <2>1, <3>1, LessKeeps
  <2>3. CASE CpuEvict(c)
    <3>1. LessTo(q)
      BY <2>1, <2>3, LessTake DEF CpuEvict
    <3>2. LessFrom(q)
      BY <2>1, <2>3, LessReport DEF CpuEvict
    <3>3. LessRun(q)
      BY <2>1, <2>3, QueueAssumption DEF CpuEvict, LessRun, Typed, SocketsTyped
    <3>4. Less(q)
      BY <1>1, <3>1, <3>2, <3>3, LessFrame DEF Less
    <3> QED BY <1>1, <2>1, <3>4, LessKeeps
  <2>4. CASE HandleConfirmation(c)
    <3>1. LessFrom(q)
      BY <2>1, <2>4, LessReceive DEF HandleConfirmation
    <3>2. Less(q)
      BY <1>1, <2>4, <3>1, LessFrame DEF HandleConfirmation, Less
    <3> QED BY <1>1, <2>1, <3>2, LessKeeps
  <2> QED BY <2>2, <2>3, <2>4
<1> QED BY <1>1, <1>2, StatesKept

\* PROCESS_EXECUTE: the process was ordered and runs now.
LEMMA CalmExecute ==
    ASSUME CalmInv, Typed', NEW c \in Cpu, CpuExecute(c)
    PROVE  CalmInv'
<1> USE CpuNames DEF procVars, cpuVars, netVars, extVars
<1>1. /\ UNCHANGED <<state, cpu, listed, readyQ, kmNew, kmReq, kmRead, ioReq, evicting, waiters, connected, comp,
                     thr, fromCpu>>
      /\ toCpu[c] # <<>> /\ Head(toCpu[c]).op = "PROCESS_EXECUTE" /\ running[c] = NoProc
      /\ running' = [running EXCEPT ![c] = Head(toCpu[c]).pid]
      /\ toCpu' = [toCpu EXCEPT ![c] = Tail(@)]
  BY DEF CpuExecute
<1>2. Typed /\ toCpu[c] \in Seq(AnyOrder) /\ Head(toCpu[c]) \in AnyOrder
  BY <1>1, ListTail DEF CalmInv, Typed, SocketsTyped
<1>3. PICK p \in Proc \cup {NoProc} : Head(toCpu[c]) = Message("PROCESS_EXECUTE", p) /\ Head(toCpu[c]).pid = p
  BY <1>1, <1>2 DEF AnyOrder, Message
<1>4. running'[c] = p /\ \A d \in Cpu : d # c => running'[d] = running[d]
  BY <1>1, <1>3, <1>2 DEF Typed, SocketsTyped
<1>5. toCpu'[c] = Tail(toCpu[c]) /\ \A d \in Cpu : d # c => toCpu'[d] = toCpu[d]
  BY <1>1, <1>2 DEF Typed, SocketsTyped
<1>6. ASSUME NEW q \in Proc, q # p PROVE Alone(q)' /\ Located(q)'
  <2>1. LessTo(q)
    BY <1>1, <1>2, LessTake
  <2>2. LessRun(q)
    BY <1>4, <1>6 DEF LessRun
  <2>3. Less(q)
    BY <1>1, <2>1, <2>2, LessFrame DEF Less
  <2> QED BY <1>1, <2>3, LessKeeps DEF CalmInv
<1>7. ASSUME p \in Proc PROVE Alone(p)' /\ Located(p)'
  <2>1. Message("PROCESS_EXECUTE", p) \in OrdersOf(p)
    BY MessagesOf
  <2>2. Alone(p) /\ Located(p)
    BY <1>7 DEF CalmInv
  <2>3. Some(toCpu[c], OrdersOf(p)) /\ ~Some(toCpu'[c], OrdersOf(p))
    BY <1>1, <1>2, <1>3, <1>5, <2>1, <2>2, SomeTail DEF Alone
  <2>4. Ordered(p) /\ cpu[p] = c /\ state[p] = "EXEC"
    BY <2>2, <2>3 DEF Ordered, Located, Active
  <2>5. \A d \in Cpu : ~Some(toCpu'[d], OrdersOf(p))
    BY <1>5, <2>2, <2>3, <2>4 DEF Located
  <2>6. ~InHand(p)' /\ ~Reported(p)' /\ ~Asked(p)' /\ ~Ordered(p)'
    BY <1>1, <2>2, <2>4, <2>5 DEF Alone, InHand, Works, Reported, Asked, Ordered
  <2>7. \A d \in Cpu : running'[d] = p => d = c
    BY <1>4, <2>2, <2>4 DEF Alone, Runs
  <2>8. \A d \in Cpu : Once(toCpu'[d], OrdersOf(p)) /\ Once(fromCpu'[d], ReportsOf(p))
    BY <1>1, <2>2, <2>5 DEF Alone, Some, Once
  <2>9. \A d \in Cpu : ~Some(fromCpu'[d], ReportsOf(p))
    BY <2>6 DEF Reported
  <2> QED BY <1>1, <1>7, <2>4, <2>5, <2>6, <2>7, <2>8, <2>9, NowElsewhere
<1>8. \A d \in Cpu : connected'[d] \in {"no", "yes"}
  BY <1>1 DEF CalmInv, Calm
<1> QED BY <1>1, <1>6, <1>7, <1>8, StatesKept

\* A syscall: the process that ran is reported, and runs no more unless it
\* creates a process.
LEMMA CalmSyscall ==
    ASSUME CalmInv, Typed', NEW c \in Cpu, NEW op \in AllSyscalls, CpuSyscall(c, op)
    PROVE  CalmInv'
<1> USE CpuNames DEF procVars, cpuVars, netVars, extVars
<1>1. /\ UNCHANGED <<state, cpu, listed, readyQ, kmNew, kmReq, kmRead, ioReq, evicting, waiters, connected, comp,
                     thr, toCpu>>
      /\ running[c] # NoProc /\ ToScheduler(c, op, running[c])
      /\ running' = IF op = "PROCESS_CREATE" THEN running ELSE [running EXCEPT ![c] = NoProc]
  BY DEF CpuSyscall
<1>2. Typed /\ fromCpu[c] \in Seq(AnyReport)
  BY DEF CalmInv, Typed, SocketsTyped
<1>3. PICK p \in Proc : running[c] = p
  BY <1>1, <1>2 DEF Typed, SocketsTyped
<1>4. Alone(p) /\ Located(p)
  BY DEF CalmInv
<1>5. Runs(p) /\ cpu[p] = c /\ state[p] = "EXEC"
  BY <1>3, <1>4 DEF Runs, Located, Active
<1>6. \A q \in Proc : LessRun(q)
  BY <1>1, <1>2, QueueAssumption DEF LessRun, Typed, SocketsTyped
<1>7. ASSUME NEW q \in Proc, op = "PROCESS_CREATE" \/ q # p PROVE Alone(q)' /\ Located(q)'
  <2>1. LessFrom(q)
    BY <1>1, <1>2, <1>3, <1>7, LessReport
  <2>2. Less(q)
    BY <1>1, <1>6, <2>1, LessFrame DEF Less
  <2> QED BY <1>1, <2>2, LessKeeps DEF CalmInv
<1>8. ASSUME op # "PROCESS_CREATE" PROVE Alone(p)' /\ Located(p)'
  <2>1. Message(op, p) \in AnyReport /\ fromCpu'[c] = Append(fromCpu[c], Message(op, p))
        /\ \A d \in Cpu : d # c => fromCpu'[d] = fromCpu[d]
    BY <1>1, <1>2, <1>3 DEF ToScheduler, Message, AnyReport, Typed, SocketsTyped
  <2>2. /\ ~InHand(p) /\ ~Ordered(p) /\ ~Reported(p) /\ ~Asked(p)
    BY <1>4, <1>5 DEF Alone
  <2>3. \A d \in Cpu : /\ ~Some(fromCpu[d], ReportsOf(p)) /\ Once(fromCpu[d], ReportsOf(p))
                       /\ Once(toCpu[d], OrdersOf(p)) /\ ~Some(toCpu[d], OrdersOf(p))
    BY <1>4, <2>2 DEF Reported, Ordered, Alone
  <2>4. Once(fromCpu'[c], ReportsOf(p))
    BY <1>2, <2>1, <2>3, SomeAppend
  <2>5. \A d \in Cpu : running'[d] # p
    <3>1. running' = [running EXCEPT ![c] = NoProc] /\ running \in [Cpu -> Proc \cup {NoProc}]
      BY <1>1, <1>2, <1>8 DEF Typed, SocketsTyped
    <3>2. \A d \in Cpu : running[d] = p => d = c
      BY <1>4, <1>5 DEF Located
    <3> QED BY <3>1, <3>2, QueueAssumption
  <2>6. ~InHand(p)' /\ ~Ordered(p)' /\ ~Asked(p)' /\ ~Runs(p)'
    BY <1>1, <2>2, <2>5 DEF InHand, Works, Ordered, Asked, Runs
  <2>7. \A d \in Cpu : Some(fromCpu'[d], ReportsOf(p)) => d = c
    BY <2>1, <2>3
  <2>8. \A d \in Cpu : Once(fromCpu'[d], ReportsOf(p))
    BY <2>1, <2>3, <2>4
  <2> QED BY <1>1, <1>5, <2>3, <2>5, <2>6, <2>7, <2>8, NowElsewhere
<1>9. \A d \in Cpu : connected'[d] \in {"no", "yes"}
  BY <1>1 DEF CalmInv, Calm
<1> QED BY <1>1, <1>7, <1>8, <1>9, StatesKept

\* send_pid_to_execute: the order leaves the thread's hands.
LEMMA CalmSendCheck ==
    ASSUME CalmInv, Typed', NEW t \in Threads, SendCheck(t)
    PROVE  CalmInv'
<1> USE CpuNames DEF procVars, cpuVars, netVars, extVars
<1>1. /\ UNCHANGED <<state, cpu, listed, readyQ, kmNew, kmReq, kmRead, ioReq, evicting, waiters, connected, comp,
                     toCpu, fromCpu, running>>
      /\ thr[t].at = "check" /\ t # "QM"
      /\ Goto(t, Home(t)) \/ Goto(t, [thr[t] EXCEPT !.at = "send"])
  BY DEF SendCheck, CalmInv, Calm
<1>2. Typed /\ thr[t] \in Locals /\ thr[t].pid \in Proc
  BY <1>1 DEF CalmInv, Typed, ThreadsTyped, Working
<1>3. /\ Home(t).at \notin Working \cup {"evict", "create", "free", "read", "unlist"}
      /\ [thr[t] EXCEPT !.at = "send"].at = "send" /\ [thr[t] EXCEPT !.at = "send"].pid = thr[t].pid
      /\ [thr[t] EXCEPT !.at = "send"].cpu = thr[t].cpu
  BY <1>2 DEF Home, Local, Working, Locals
<1>4. /\ \A u \in Threads : u # t => thr'[u] = thr[u]
      /\ thr'[t].at \notin {"evict", "create", "free", "read", "unlist"}
      /\ thr'[t].at \in Working => thr'[t].pid = thr[t].pid /\ thr'[t].cpu = thr[t].cpu
  <2>1. CASE Goto(t, Home(t))
    <3>1. thr'[t] = Home(t) /\ \A u \in Threads : u # t => thr'[u] = thr[u]
      BY <1>2, <2>1, ThreadMoves
    <3> QED BY <1>3, <3>1
  <2>2. CASE Goto(t, [thr[t] EXCEPT !.at = "send"])
    <3>1. /\ thr'[t] = [thr[t] EXCEPT !.at = "send"]
          /\ \A u \in Threads : u # t => thr'[u] = thr[u]
      BY <1>2, <2>2, ThreadMoves
    <3> QED BY <1>3, <3>1
  <2> QED BY <1>1, <2>1, <2>2
<1>5. ASSUME NEW q \in Proc PROVE Alone(q)' /\ Located(q)'
  <2>1. LessThr(q)
    BY <1>1, <1>4 DEF LessThr, Works, Working
  <2>2. Less(q)
    BY <1>1, <2>1, LessFrame DEF Less
  <2> QED BY <1>1, <2>2, LessKeeps DEF CalmInv
<1>6. \A d \in Cpu : connected'[d] \in {"no", "yes"}
  BY <1>1 DEF CalmInv, Calm
<1> QED BY <1>1, <1>2, <1>4, <1>5, <1>6, StatesKept

\* ... and sent to it.
LEMMA CalmSendExecute ==
    ASSUME CalmInv, Typed', NEW t \in Threads, SendExecute(t)
    PROVE  CalmInv'
<1> USE CpuNames DEF procVars, cpuVars, netVars, extVars
<1>1. /\ UNCHANGED <<state, cpu, listed, readyQ, kmNew, kmReq, kmRead, ioReq, evicting, waiters, connected, comp,
                     fromCpu, running>>
      /\ thr[t].at = "send" /\ t # "QM" /\ Goto(t, Home(t))
      /\ Transmit(thr[t].cpu, Message("PROCESS_EXECUTE", thr[t].pid))
  BY DEF SendExecute, CalmInv, Calm
<1>2. Typed
  BY DEF CalmInv
<1>3. PICK p \in Proc : thr[t].pid = p
  BY <1>1 DEF CalmInv, Working
<1>4. Alone(p) /\ Located(p) /\ Works(t, p)
  BY <1>1, <1>3 DEF CalmInv, Works, Working
<1>5. InHand(p) /\ state[p] = "EXEC" /\ cpu[p] \in Cpu /\ thr[t].cpu = cpu[p]
  BY <1>2, <1>4 DEF InHand, Located, Active, CalmInv, CalmLists, Typed, ProcsTyped
<1>6. Home(t).at \notin Working \cup {"evict", "create", "free", "read", "unlist"}
  BY DEF Home, Local, Working
<1>7. /\ \A u \in Threads : u # t => thr'[u] = thr[u]
      /\ thr'[t].at \notin Working \cup {"evict", "create", "free", "read", "unlist"}
  BY <1>1, <1>2, <1>6, ThreadMoves
<1>8. \A q \in Proc : LessThr(q) /\ ~Works(t, q)'
  BY <1>1, <1>2, <1>6, LessGoto
<1> DEFINE c == cpu[p]
           msg == Message("PROCESS_EXECUTE", p)
<1>9. /\ toCpu[c] \in Seq(AnyOrder) /\ msg \in AnyOrder
      /\ toCpu'[c] = toCpu[c] \/ toCpu'[c] = Append(toCpu[c], msg)
      /\ \A d \in Cpu : d # c => toCpu'[d] = toCpu[d]
  BY <1>1, <1>2, <1>3, <1>5 DEF Transmit, Typed, SocketsTyped, Message, AnyOrder
<1>10. ASSUME NEW q \in Proc, q # p PROVE Alone(q)' /\ Located(q)'
  <2>1. msg \notin OrdersOf(q)
    BY <1>10, MessagesOf
  <2>2. LessTo(q)
    <3>1. /\ Some(toCpu'[c], OrdersOf(q)) => Some(toCpu[c], OrdersOf(q))
          /\ Once(toCpu[c], OrdersOf(q)) => Once(toCpu'[c], OrdersOf(q))
      <4>1. CASE toCpu'[c] = toCpu[c]
        BY <4>1
      <4>2. CASE toCpu'[c] = Append(toCpu[c], msg)
        <5> HIDE DEF msg, c
        <5> QED BY <1>9, <2>1, <4>2, SomeAppend
      <4> QED BY <1>9, <4>1, <4>2
    <3> HIDE DEF c
    <3> QED BY <1>9, <3>1 DEF LessTo
  <2>3. Less(q)
    BY <1>1, <1>8, <2>2, LessFrame DEF Less
  <2> QED BY <1>1, <2>3, LessKeeps DEF CalmInv
<1>11. Alone(p)' /\ Located(p)'
  <2>1. ~Ordered(p) /\ ~Runs(p) /\ ~Reported(p) /\ ~Asked(p)
    BY <1>4, <1>5 DEF Alone
  <2>2. \A d \in Cpu : /\ ~Some(toCpu[d], OrdersOf(p)) /\ Once(toCpu[d], OrdersOf(p))
                       /\ ~Some(fromCpu[d], ReportsOf(p)) /\ Once(fromCpu[d], ReportsOf(p))
                       /\ running[d] # p
    BY <1>4, <2>1 DEF Ordered, Reported, Runs, Alone
  <2>3. \A u \in Threads : ~Works(u, p)'
    BY <1>4, <1>7, <1>8 DEF Alone, Works
  <2>4. Once(toCpu'[c], OrdersOf(p))
    <3>1. Once(toCpu[c], OrdersOf(p)) /\ ~Some(toCpu[c], OrdersOf(p))
      BY <1>5, <2>2
    <3>2. ASSUME toCpu'[c] = Append(toCpu[c], msg) PROVE Once(toCpu'[c], OrdersOf(p))
      <4> HIDE DEF msg, c
      <4> QED BY <1>9, <3>1, <3>2, SomeAppend
    <3> QED BY <1>9, <3>1, <3>2
  <2>5. \A d \in Cpu : Once(toCpu'[d], OrdersOf(p)) /\ (Some(toCpu'[d], OrdersOf(p)) => d = c)
    BY <1>9, <2>2, <2>4
  <2>6. ~InHand(p)' /\ ~Runs(p)' /\ ~Reported(p)' /\ ~Asked(p)'
    BY <1>1, <2>1, <2>2, <2>3 DEF InHand, Runs, Reported, Asked
  <2> QED BY <1>1, <1>5, <2>2, <2>5, <2>6, NowElsewhere
<1>12. \A d \in Cpu : connected'[d] \in {"no", "yes"}
  BY <1>1 DEF CalmInv, Calm
<1> QED BY <1>1, <1>7, <1>10, <1>11, <1>12, StatesKept

-----------------------------------------------------------------------------
\* The short-term scheduler finds nothing to dispatch.
LEMMA CalmSts ==
    ASSUME NoEvictions, CalmInv, Typed', StsWake \/ StsNothingToDispatch
    PROVE  CalmInv'
<1> USE CpuNames DEF procVars, cpuVars, netVars, extVars
<1>1. /\ UNCHANGED <<state, cpu, listed, readyQ, kmNew, kmReq, kmRead, ioReq, evicting, waiters, connected, comp,
                     toCpu, fromCpu, running>>
      /\ \/ UNCHANGED thr \/ Goto("STS", Home("STS")) \/ Goto("STS", Local("wait", NoProc, NoCpu))
  <2>1. CASE StsWake
    BY <2>1 DEF StsWake
  <2>2. CASE StsNothingToDispatch
    BY <2>2 DEF StsNothingToDispatch, NoEvictions
  <2> QED BY <2>1, <2>2
<1>2. Typed
  BY DEF CalmInv
<1>3. /\ Home("STS").at \notin Working \cup {"evict", "create", "free", "read", "unlist"}
      /\ Local("wait", NoProc, NoCpu).at \notin Working \cup {"evict", "create", "free", "read", "unlist"}
  BY DEF Home, Local, Working
<1>4. UNCHANGED thr \/ (\E loc : Goto("STS", loc) /\ loc.at \notin Working \cup {"evict", "create", "free", "read", "unlist"})
  BY <1>1, <1>3
<1>5. /\ \A u \in Threads : u # "STS" => thr'[u] = thr[u]
      /\ thr'["STS"] = thr["STS"] \/ thr'["STS"].at \notin Working \cup {"evict", "create", "free", "read", "unlist"}
      /\ \A q \in Proc : LessThr(q)
  <2>1. CASE UNCHANGED thr
    BY <2>1, LessFrame
  <2>2. CASE ~UNCHANGED thr
    <3>1. PICK loc : Goto("STS", loc) /\ loc.at \notin Working \cup {"evict", "create", "free", "read", "unlist"}
      BY <1>4, <2>2
    <3>2. \A q \in Proc : LessThr(q)
      BY <1>2, <3>1, LessGoto
    <3> QED BY <1>2, <3>1, <3>2, ThreadMoves
  <2> QED BY <2>1, <2>2
<1>6. ASSUME NEW q \in Proc PROVE Alone(q)' /\ Located(q)'
  <2>1. Less(q)
    BY <1>1, <1>5, LessFrame DEF Less
  <2> QED BY <1>1, <2>1, LessKeeps DEF CalmInv
<1>7. \A d \in Cpu : connected'[d] \in {"no", "yes"}
  BY <1>1 DEF CalmInv, Calm
<1> QED BY <1>1, <1>5, <1>6, <1>7, StatesKept

\* What a yielding syscall at the head of the socket tells about its process.
LEMMA YieldReceived ==
    ASSUME CalmInv, NEW c \in Cpu, NEW p \in Proc, NEW op \in AllSyscalls \ {"PROCESS_CREATE"},
           Receive(c, op, p)
    PROVE  /\ state[p] = "EXEC" /\ cpu[p] = c
           /\ ~InHand(p) /\ ~Ordered(p) /\ ~Runs(p) /\ ~Asked(p)
           /\ \A d \in Cpu : ~Some(fromCpu'[d], ReportsOf(p))
<1>1. /\ fromCpu[c] \in Seq(AnyReport) /\ fromCpu[c] # <<>> /\ Head(fromCpu[c]) = Message(op, p)
      /\ fromCpu'[c] = Tail(fromCpu[c]) /\ \A d \in Cpu : d # c => fromCpu'[d] = fromCpu[d]
  BY DEF Receive, CalmInv, Typed, SocketsTyped
<1>2. Alone(p) /\ Located(p)
  BY DEF CalmInv
<1>3. Message(op, p) \in ReportsOf(p)
  BY MessagesOf
<1>4. Some(fromCpu[c], ReportsOf(p)) /\ ~Some(fromCpu'[c], ReportsOf(p))
  BY <1>1, <1>2, <1>3, SomeTail DEF Alone
<1>5. Reported(p) /\ cpu[p] = c /\ state[p] = "EXEC"
  BY <1>2, <1>4 DEF Reported, Located, Active
<1>6. \A d \in Cpu : ~Some(fromCpu'[d], ReportsOf(p))
  BY <1>1, <1>2, <1>4, <1>5 DEF Located
<1> QED BY <1>2, <1>5, <1>6 DEF Alone

\* MUTEX_CREATE and the unknown mutex: the handler takes the process up.
LEMMA CalmTakesUp ==
    ASSUME CalmInv, Typed', NEW c \in Cpu, HandleMutexCreate(c) \/ HandleMutexUnknown(c)
    PROVE  CalmInv'
<1> USE CpuNames DEF procVars, cpuVars, netVars, extVars
<1>1. PICK p \in Proc, op \in {"MUTEX_CREATE", "MUTEX_UNKNOWN"}, at \in {"check", "kill"} :
         /\ Receive(c, op, p) /\ Goto(c, Local(at, p, c))
         /\ UNCHANGED <<state, cpu, listed, readyQ, kmNew, kmReq, kmRead, ioReq, evicting, waiters, connected, comp,
                        toCpu, running>>
  BY DEF HandleMutexCreate, HandleMutexUnknown
<1>2. Typed /\ op \in AllSyscalls \ {"PROCESS_CREATE"}
  BY DEF CalmInv, AllSyscalls
<1>3. /\ thr'[c] = Local(at, p, c) /\ \A u \in Threads : u # c => thr'[u] = thr[u]
  BY <1>1, <1>2, ThreadMoves
<1>4. thr'[c].at = at /\ thr'[c].pid = p /\ thr'[c].cpu = c /\ at \in Working
  BY <1>3 DEF Local, Working
<1>5. ASSUME NEW q \in Proc, q # p PROVE Alone(q)' /\ Located(q)'
  <2>1. LessThr(q)
    BY <1>1, <1>2, <1>5, LessGoto DEF Local
  <2>2. LessFrom(q)
    BY <1>1, <1>2, LessReceive
  <2>3. Less(q)
    BY <1>1, <2>1, <2>2, LessFrame DEF Less
  <2> QED BY <1>1, <2>3, LessKeeps DEF CalmInv
<1>6. Alone(p)' /\ Located(p)'
  <2>1. /\ state[p] = "EXEC" /\ cpu[p] = c /\ ~InHand(p) /\ ~Ordered(p) /\ ~Runs(p) /\ ~Asked(p)
        /\ \A d \in Cpu : ~Some(fromCpu'[d], ReportsOf(p))
    BY <1>1, <1>2, YieldReceived
  <2>2. ~Ordered(p)' /\ ~Runs(p)' /\ ~Asked(p)' /\ ~Reported(p)'
    BY <1>1, <2>1 DEF Ordered, Runs, Asked, Reported
  <2>3. \A u \in Threads : u # c => ~Works(u, p)'
    BY <1>3, <2>1 DEF InHand, Works
  <2>4. Works(c, p)'
    BY <1>4 DEF Works
  <2> QED BY <1>1, <1>4, <2>1, <2>2, <2>3, <2>4, NowInHand
<1>7. \A d \in Cpu : connected'[d] \in {"no", "yes"}
  BY <1>1 DEF CalmInv, Calm
<1> QED BY <1>1, <1>3, <1>4, <1>5, <1>6, <1>7, StatesKept

\* MEM_ALLOC: the request is with Kernel Memory ...
LEMMA CalmMemAlloc ==
    ASSUME CalmInv, Typed', NEW c \in Cpu, HandleMemAlloc(c)
    PROVE  CalmInv'
<1> USE CpuNames DEF procVars, cpuVars, netVars, extVars
<1>1. PICK p \in Proc :
         /\ Receive(c, "MEM_ALLOC", p) /\ kmReq' = kmReq \cup {p}
         /\ UNCHANGED <<state, cpu, listed, readyQ, kmNew, kmRead, ioReq, evicting, waiters, connected, comp,
                        toCpu, running, thr>>
  BY DEF HandleMemAlloc
<1>2. Typed /\ "MEM_ALLOC" \in AllSyscalls \ {"PROCESS_CREATE"}
  BY DEF CalmInv, AllSyscalls
<1>3. ASSUME NEW q \in Proc, q # p PROVE Alone(q)' /\ Located(q)'
  <2>1. LessReq(q)
    BY <1>1, <1>3 DEF LessReq
  <2>2. LessFrom(q)
    BY <1>1, <1>2, LessReceive
  <2>3. Less(q)
    BY <1>1, <2>1, <2>2, LessFrame DEF Less
  <2> QED BY <1>1, <2>3, LessKeeps DEF CalmInv
<1>4. Alone(p)' /\ Located(p)'
  <2>1. /\ state[p] = "EXEC" /\ cpu[p] = c /\ ~InHand(p) /\ ~Ordered(p) /\ ~Runs(p) /\ ~Asked(p)
        /\ \A d \in Cpu : ~Some(fromCpu'[d], ReportsOf(p))
    BY <1>1, <1>2, YieldReceived
  <2>2. /\ ~InHand(p)' /\ ~Ordered(p)' /\ ~Runs(p)' /\ ~Reported(p)'
    BY <1>1, <2>1 DEF InHand, Works, Ordered, Runs, Reported
  <2>3. \A d \in Cpu : ~Some(toCpu'[d], OrdersOf(p)) /\ running'[d] # p
    BY <2>2 DEF Ordered, Runs
  <2>4. \A d \in Cpu : Once(toCpu'[d], OrdersOf(p)) /\ Once(fromCpu'[d], ReportsOf(p))
    BY <2>1, <2>3 DEF Once, Some
  <2> QED BY <1>1, <2>1, <2>2, <2>3, <2>4, NowElsewhere
<1>5. \A d \in Cpu : connected'[d] \in {"no", "yes"}
  BY <1>1 DEF CalmInv, Calm
<1> QED BY <1>1, <1>3, <1>4, <1>5, StatesKept

\* ... until it is answered: the process goes on or is ended.
LEMMA CalmSegmentResult ==
    ASSUME CalmInv, Typed', NEW p \in Proc, NEW ok \in BOOLEAN, SegmentResult(p, ok)
    PROVE  CalmInv'
<1> USE CpuNames DEF procVars, cpuVars, netVars, extVars
<1>1. PICK at \in {"check", "terminate"} :
         /\ p \in kmReq /\ kmReq' = kmReq \ {p} /\ Goto("KM", Local(at, p, cpu[p]))
         /\ UNCHANGED <<state, cpu, listed, readyQ, kmNew, kmRead, ioReq, evicting, waiters, connected, comp,
                        toCpu, fromCpu, running>>
  BY DEF SegmentResult
<1>2. Typed /\ Alone(p) /\ Located(p) /\ Asked(p)
  BY <1>1 DEF CalmInv, Asked
<1>3. /\ thr'["KM"] = Local(at, p, cpu[p]) /\ \A u \in Threads : u # "KM" => thr'[u] = thr[u]
  BY <1>1, <1>2, ThreadMoves
<1>4. thr'["KM"].at = at /\ thr'["KM"].pid = p /\ thr'["KM"].cpu = cpu[p] /\ at \in Working
  BY <1>3 DEF Local, Working
<1>5. ASSUME NEW q \in Proc, q # p PROVE Alone(q)' /\ Located(q)'
  <2>1. LessThr(q)
    BY <1>1, <1>2, <1>5, LessGoto DEF Local
  <2>2. LessReq(q)
    BY <1>1 DEF LessReq
  <2>3. Less(q)
    BY <1>1, <2>1, <2>2, LessFrame DEF Less
  <2> QED BY <1>1, <2>3, LessKeeps DEF CalmInv
<1>6. Alone(p)' /\ Located(p)'
  <2>1. state[p] = "EXEC" /\ ~InHand(p) /\ ~Ordered(p) /\ ~Runs(p) /\ ~Reported(p)
    BY <1>2 DEF Alone, Located, Active
  <2>2. ~Ordered(p)' /\ ~Runs(p)' /\ ~Asked(p)' /\ ~Reported(p)'
    BY <1>1, <2>1 DEF Ordered, Runs, Asked, Reported
  <2>3. \A u \in Threads : u # "KM" => ~Works(u, p)'
    BY <1>3, <2>1 DEF InHand, Works
  <2>4. Works("KM", p)'
    BY <1>4 DEF Works
  <2> QED BY <1>1, <1>4, <2>1, <2>2, <2>3, <2>4, NowInHand
<1>7. \A d \in Cpu : connected'[d] \in {"no", "yes"}
  BY <1>1 DEF CalmInv, Calm
<1> QED BY <1>1, <1>3, <1>4, <1>5, <1>6, <1>7, StatesKept

\* The CPU of an ended process is released, and the process is out of the lists.
LEMMA CalmRelease ==
    ASSUME CalmInv, Typed', ReleaseCpu \/ UnlistProcess
    PROVE  CalmInv'
<1> USE CpuNames DEF procVars, cpuVars, netVars, extVars
<1>1. /\ UNCHANGED <<state, cpu, listed, kmNew, kmReq, kmRead, ioReq, evicting, waiters, connected, comp,
                     toCpu, fromCpu, running>>
      /\ Goto("KM", Home("KM")) \/ Goto("KM", [thr["KM"] EXCEPT !.at = "release"])
  BY DEF ReleaseCpu, UnlistProcess
<1>2. Typed /\ thr["KM"] \in Locals
  BY DEF CalmInv, Typed, ThreadsTyped
<1>3. /\ Home("KM").at \notin Working \cup {"evict", "create", "free", "read", "unlist"}
      /\ [thr["KM"] EXCEPT !.at = "release"].at \notin Working \cup {"evict", "create", "free", "read", "unlist"}
  BY <1>2 DEF Home, Local, Working, Locals
<1>4. /\ \A u \in Threads : u # "KM" => thr'[u] = thr[u]
      /\ thr'["KM"].at \notin Working \cup {"evict", "create", "free", "read", "unlist"}
      /\ \A q \in Proc : LessThr(q)
  BY <1>1, <1>2, <1>3, ThreadMoves, LessGoto
<1>5. ASSUME NEW q \in Proc PROVE Alone(q)' /\ Located(q)'
  <2>1. Less(q)
    BY <1>1, <1>4, LessFrame DEF Less
  <2> QED BY <1>1, <2>1, LessKeeps DEF CalmInv
<1>6. UNCHANGED readyQ
  <2>1. CASE ReleaseCpu
    BY <2>1 DEF ReleaseCpu
  <2>2. CASE UnlistProcess
    <3>1. PICK p \in Proc : p = thr["KM"].pid /\ state[p] = "EXIT"
      BY <2>2 DEF UnlistProcess, CalmInv, CalmLists, Typed, ThreadsTyped, NeedsProcess
    <3>2. NotQueued(readyQ, p)
      BY <3>1 DEF CalmInv, CalmLists, ReadyQueuesMatchStates
    <3>3. Priority[p] \in Nat /\ readyQ \in [Queues -> Seq(Proc)]
      BY <1>2, DispatchAssumption DEF Typed, ProcsTyped
    <3>4. remove_process_from_ready_queue(readyQ, p, Priority[p]) = readyQ
      BY <3>2, <3>3, RemoveFromQueue
    <3> QED BY <2>2, <3>1, <3>4 DEF UnlistProcess
  <2> QED BY <2>1, <2>2
<1>7. \A d \in Cpu : connected'[d] \in {"no", "yes"}
  BY <1>1 DEF CalmInv, Calm
<1> QED BY <1>1, <1>4, <1>5, <1>6, <1>7, StatesKept

-----------------------------------------------------------------------------
\* One process changes state; the ready queues follow.
LEMMA QueuesFollow ==
    ASSUME ProcsTyped, ReadyQueuesMatchStates, NEW p \in Proc, NEW s, state' = [state EXCEPT ![p] = s],
           \/ state[p] # "READY" /\ s # "READY" /\ UNCHANGED readyQ
           \/ /\ state[p] # "READY" /\ s = "READY"
              /\ readyQ' = add_process_to_ready_queue(readyQ, p, Priority[p])
           \/ /\ state[p] = "READY" /\ s # "READY"
              /\ readyQ' = remove_process_from_ready_queue(readyQ, p, Priority[p])
    PROVE  ReadyQueuesMatchStates'
<1>1. state'[p] = s /\ \A q \in Proc : q # p => state'[q] = state[q]
  BY DEF ProcsTyped
<1>2. readyQ \in [Queues -> Seq(Proc)] /\ \A q \in Proc : Priority[q] \in Nat
  BY DispatchAssumption DEF ProcsTyped
<1>3. CASE state[p] # "READY" /\ s # "READY" /\ UNCHANGED readyQ
  BY <1>1, <1>3 DEF ReadyQueuesMatchStates
<1>4. CASE /\ state[p] # "READY" /\ s = "READY"
           /\ readyQ' = add_process_to_ready_queue(readyQ, p, Priority[p])
  <2>1. NotQueued(readyQ, p)
    BY <1>4 DEF ReadyQueuesMatchStates
  <2>2. /\ QueuedOnceAt(readyQ', p, Priority[p])
        /\ \A q \in Proc : q # p =>
              /\ NotQueued(readyQ, q) => NotQueued(readyQ', q)
              /\ QueuedOnceAt(readyQ, q, Priority[q]) => QueuedOnceAt(readyQ', q, Priority[q])
    BY <1>2, <1>4, <2>1, AddToQueue
  <2> QED BY <1>1, <1>4, <2>2 DEF ReadyQueuesMatchStates
<1>5. CASE /\ state[p] = "READY" /\ s # "READY"
           /\ readyQ' = remove_process_from_ready_queue(readyQ, p, Priority[p])
  <2>1. QueuedOnceAt(readyQ, p, Priority[p])
    BY <1>5 DEF ReadyQueuesMatchStates
  <2>2. /\ NotQueued(readyQ', p)
        /\ \A q \in Proc : q # p =>
              /\ NotQueued(readyQ, q) => NotQueued(readyQ', q)
              /\ QueuedOnceAt(readyQ, q, Priority[q]) => QueuedOnceAt(readyQ', q, Priority[q])
    BY <1>2, <1>5, <2>1, RemoveFromQueue
  <2> QED BY <1>1, <1>5, <2>2 DEF ReadyQueuesMatchStates
<1> QED BY <1>3, <1>4, <1>5

\* A step that changes the state of p and at most one thread's place.
LEMMA StateMoves ==
    ASSUME CalmInv, Typed', NEW p \in Proc, NEW s, state' = [state EXCEPT ![p] = s],
           ReadyQueuesMatchStates', Origins',
           \A q \in Proc : q # p => cpu'[q] = cpu[q], s = "EXEC" => cpu'[p] # NoCpu,
           state[p] = "EXIT" => p \in Awaited, Awaited' \subseteq Awaited,
           s \notin {"NONE", "ASSIGNED"} \/ state[p] = "NONE",
           \A q \in Proc : InList(listed', q) =>
               InList(listed, q) \/ (q = p /\ s \notin {"NONE", "ASSIGNED"}),
           UNCHANGED <<evicting, waiters, connected, comp>>,
           NEW t \in Threads, \A u \in Threads : u # t => thr'[u] = thr[u],
           \/ thr'[t] = thr[t]
           \/ t # "QM" /\ thr'[t].at # "evict"
              /\ (thr'[t].at \in Working => thr'[t].pid \in Proc)
              /\ (thr'[t].at = "unlist" => thr'[t].pid = p /\ s = "EXIT" /\ p \notin Awaited),
           \A q \in Proc : Alone(q)' /\ Located(q)'
    PROVE  CalmInv'
<1> USE CpuNames
<1>1. state'[p] = s /\ \A q \in Proc : q # p => state'[q] = state[q]
  BY DEF CalmInv, Typed, ProcsTyped
<1>2. \A u \in Threads : thr'[u] = thr[u] \/ (u # "QM" /\ thr'[u].at # "evict"
              /\ (thr'[u].at \in Working => thr'[u].pid \in Proc)
              /\ (thr'[u].at = "unlist" => thr'[u].pid = p /\ s = "EXIT" /\ p \notin Awaited))
  OBVIOUS
<1>3. Calm'
  BY <1>2 DEF CalmInv, Calm
<1>4. thr'["KM"].at = "unlist" => state'[thr'["KM"].pid] = "EXIT" /\ thr'["KM"].pid \notin Awaited'
  <2>1. thr["KM"].at = "unlist" =>
            thr["KM"].pid \in Proc /\ state[thr["KM"].pid] = "EXIT" /\ thr["KM"].pid \notin Awaited
    BY DEF CalmInv, CalmLists, Typed, ThreadsTyped, NeedsProcess
  <2> QED BY <1>1, <1>2, <2>1
<1>5. CalmLists'
  BY <1>1, <1>4 DEF CalmInv, CalmLists
<1>6. \A u \in Threads : thr'[u].at \in Working => thr'[u].pid \in Proc
  BY <1>2 DEF CalmInv
<1> QED BY <1>3, <1>5, <1>6 DEF CalmInv

\* Nobody waits for a process in EXEC or READY.
LEMMA NobodyWaits ==
    ASSUME CalmInv, NEW p \in Proc, state[p] \in {"EXEC", "READY"}
    PROVE  /\ p \notin kmNew /\ p \notin Awaited
           /\ \A c \in Cpu : Held(c) => thr[c].pid \in Proc \ {p}
<1>1. \A c \in Cpu : Held(c) => thr[c].pid \in Proc
  BY CpuNames DEF CalmInv, Typed, ThreadsTyped, NeedsProcess, Held, Frees
<1> QED BY <1>1 DEF CalmInv, Origins, Awaited, Held, Frees

\* A READY process is given a CPU.
LEMMA CalmDispatch ==
    ASSUME CalmInv, Typed', NEW c \in Cpu, StsDispatch(c)
    PROVE  CalmInv'
<1> USE CpuNames DEF procVars, cpuVars, netVars, extVars
<1>1. Typed
  BY DEF CalmInv
<1>2. PICK p \in Proc : p = get_next_process_to_execute /\ state[p] = "READY"
  BY <1>1, HighestIsQueued DEF StsDispatch, get_next_process_to_execute, Typed, ProcsTyped
<1>3. /\ readyQ' = remove_process_from_ready_queue(readyQ, p, Priority[p])
      /\ state' = [state EXCEPT ![p] = "EXEC"] /\ cpu' = [cpu EXCEPT ![p] = c]
      /\ Goto("STS", Local("check", p, c))
      /\ UNCHANGED <<listed, kmNew, kmReq, kmRead, ioReq, evicting, waiters, connected, comp,
                     toCpu, fromCpu, running>>
  BY <1>2 DEF StsDispatch
<1>4. /\ state'[p] = "EXEC" /\ cpu'[p] = c
      /\ \A q \in Proc : q # p => state'[q] = state[q] /\ cpu'[q] = cpu[q]
  BY <1>1, <1>3 DEF Typed, ProcsTyped
<1>5. /\ thr'["STS"] = Local("check", p, c) /\ \A u \in Threads : u # "STS" => thr'[u] = thr[u]
  BY <1>1, <1>3, ThreadMoves
<1>6. thr'["STS"].at = "check" /\ thr'["STS"].pid = p /\ thr'["STS"].cpu = c /\ "check" \in Working
  BY <1>5 DEF Local, Working
<1>7. ASSUME NEW q \in Proc, q # p PROVE Alone(q)' /\ Located(q)'
  <2>1. LessThr(q)
    BY <1>1, <1>3, <1>7, LessGoto DEF Local
  <2>2. Less(q)
    BY <1>3, <2>1, LessFrame DEF Less
  <2> QED BY <1>4, <1>7, <2>2, LessKeeps DEF CalmInv
<1>8. Alone(p)' /\ Located(p)'
  <2>1. ~InHand(p) /\ ~Ordered(p) /\ ~Runs(p) /\ ~Reported(p) /\ ~Asked(p)
    BY <1>2 DEF CalmInv, Located, Active
  <2>2. ~Ordered(p)' /\ ~Runs(p)' /\ ~Asked(p)' /\ ~Reported(p)'
    BY <1>3, <2>1 DEF Ordered, Runs, Asked, Reported
  <2>3. \A u \in Threads : u # "STS" => ~Works(u, p)'
    BY <1>5, <2>1 DEF InHand, Works
  <2>4. Works("STS", p)'
    BY <1>6 DEF Works
  <2> QED BY <1>4, <1>6, <2>2, <2>3, <2>4, NowInHand
<1>9. ReadyQueuesMatchStates'
  BY <1>1, <1>2, <1>3, QueuesFollow DEF CalmInv, CalmLists, Typed
<1>10. Origins'
  <2>1. /\ p \notin kmNew /\ p \notin Awaited
        /\ \A d \in Cpu : Held(d)' => thr'[d] = thr[d] /\ thr[d].pid \in Proc \ {p}
    BY <1>2, <1>5, NobodyWaits DEF Held, Frees
  <2> QED BY <1>1, <1>3, <1>4, <2>1, OriginsMove DEF CalmInv, Typed, RestTyped, Awaited
<1>11. thr'["STS"].at # "evict" /\ thr'["STS"].at # "unlist" /\ Awaited' = Awaited
  BY <1>3, <1>6 DEF Awaited
<1> QED BY <1>2, <1>3, <1>4, <1>5, <1>6, <1>7, <1>8, <1>9, <1>10, <1>11, StateMoves

\* EXIT, SEGMENTATION_FAULT, SLEEP and STDOUT: the process leaves its CPU.
LEMMA CalmLeaves ==
    ASSUME CalmInv, Typed', NEW c \in Cpu, HandleProcessEnd(c) \/ HandleSleep(c)
    PROVE  CalmInv'
<1> USE CpuNames DEF procVars, cpuVars, netVars, extVars
<1>1. PICK p \in Proc, op \in {"PROCESS_END", "SEGMENTATION_FAULT", "SLEEP", "STDOUT"},
           at \in {"free", "read"} :
         /\ Receive(c, op, p)
         /\ state' = [state EXCEPT ![p] = IF op \in {"SLEEP", "STDOUT"} THEN "BLOCK" ELSE "EXIT"]
         /\ cpu' = [cpu EXCEPT ![p] = NoCpu]
         /\ IF op \in {"SLEEP", "STDOUT"} THEN Goto(c, Local(at, p, c)) ELSE UNCHANGED thr
         /\ UNCHANGED <<listed, readyQ, kmNew, kmReq, kmRead, ioReq, evicting, waiters, connected, comp,
                        toCpu, running>>
  <2>1. CASE HandleProcessEnd(c)
    BY <2>1 DEF HandleProcessEnd
  <2>2. CASE HandleSleep(c)
    BY <2>2 DEF HandleSleep
  <2> QED BY <2>1, <2>2
<1> DEFINE s == IF op \in {"SLEEP", "STDOUT"} THEN "BLOCK" ELSE "EXIT"
<1>2. Typed /\ op \in AllSyscalls \ {"PROCESS_CREATE"} /\ s \in {"BLOCK", "EXIT"}
  BY DEF CalmInv, AllSyscalls
<1>3. /\ state'[p] = s
      /\ \A q \in Proc : q # p => state'[q] = state[q] /\ cpu'[q] = cpu[q]
  BY <1>1, <1>2 DEF Typed, ProcsTyped
<1>4. /\ state[p] = "EXEC" /\ cpu[p] = c /\ ~InHand(p) /\ ~Ordered(p) /\ ~Runs(p) /\ ~Asked(p)
      /\ \A d \in Cpu : ~Some(fromCpu'[d], ReportsOf(p))
  BY <1>1, <1>2, YieldReceived
<1>5. /\ \A u \in Threads : u # c => thr'[u] = thr[u]
      /\ thr'[c] = thr[c] \/ (thr'[c].at = at /\ thr'[c].pid = p /\ op \in {"SLEEP", "STDOUT"})
      /\ op \notin {"SLEEP", "STDOUT"} => thr'[c] = thr[c]
      /\ op \in {"SLEEP", "STDOUT"} => thr'[c].at = at /\ thr'[c].pid = p
      /\ \A q \in Proc : LessThr(q)
  <2>1. CASE op \in {"SLEEP", "STDOUT"}
    <3>1. thr'[c] = Local(at, p, c) /\ \A u \in Threads : u # c => thr'[u] = thr[u]
      BY <1>1, <1>2, <2>1, ThreadMoves
    <3>2. Local(at, p, c).at = at /\ Local(at, p, c).pid = p /\ at \notin Working
      BY DEF Local, Working
    <3>3. \A q \in Proc : LessThr(q)
      BY <1>1, <1>2, <2>1, <3>2, LessGoto
    <3> QED BY <2>1, <3>1, <3>2, <3>3
  <2>2. CASE op \notin {"SLEEP", "STDOUT"}
    BY <1>1, <2>2, LessFrame
  <2> QED BY <2>1, <2>2
<1>6. ASSUME NEW q \in Proc PROVE Less(q)
  <2>1. LessFrom(q)
    BY <1>1, <1>2, LessReceive
  <2> QED BY <1>1, <1>5, <2>1, LessFrame DEF Less
<1>7. ASSUME NEW q \in Proc, q # p PROVE Alone(q)' /\ Located(q)'
  BY <1>3, <1>6, <1>7, LessKeeps DEF CalmInv
<1>8. Alone(p)' /\ Located(p)'
  <2>1. ~InHand(p)'
    BY <1>4, <1>6 DEF InHand, Less, LessThr
  <2>2. ~Ordered(p)' /\ ~Runs(p)' /\ ~Asked(p)' /\ ~Reported(p)'
    BY <1>1, <1>4 DEF Ordered, Runs, Asked, Reported
  <2> QED BY <2>1, <2>2, NowhereKeeps DEF Active
<1>9. ReadyQueuesMatchStates'
  BY <1>1, <1>2, <1>4, QueuesFollow DEF CalmInv, CalmLists, Typed
<1>10. Origins'
  <2>1. /\ p \notin kmNew /\ p \notin Awaited /\ \A d \in Cpu : Held(d) => thr[d].pid \in Proc \ {p}
    BY <1>4, NobodyWaits
  <2>2. CASE op \notin {"SLEEP", "STDOUT"}
    <3>1. \A d \in Cpu : Held(d)' => thr'[d] = thr[d] /\ thr[d].pid \in Proc \ {p}
      BY <1>5, <2>1, <2>2 DEF Held, Frees
    <3> QED BY <1>1, <1>2, <1>3, <2>1, <3>1, OriginsMove DEF CalmInv, Typed, RestTyped, Awaited
  <2>3. CASE op \in {"SLEEP", "STDOUT"}
    <3>1. /\ thr'[c].at = at /\ thr'[c].pid = p /\ state'[p] = "BLOCK"
          /\ kmNew' = kmNew /\ Awaited' = Awaited /\ ioReq' = ioReq /\ kmRead' = kmRead /\ kmNew \subseteq Proc /\ Awaited \subseteq Proc
      BY <1>1, <1>2, <1>3, <1>5, <2>3 DEF Typed, RestTyped, Awaited
    <3>2. \A d \in Cpu : d # c => thr'[d] = thr[d]
      BY <1>5
    <3>3. \A d \in Cpu : Held(d) => thr[d].pid \in Proc /\ thr[d].pid # p
      BY <2>1
    <3>4. \A q \in kmNew' : state'[q] \in {"ASSIGNED", "NEW"}
      BY <1>3, <2>1, <3>1 DEF CalmInv, Origins, Awaited, Frees
    <3>5. \A q \in Awaited' : state'[q] \in {"BLOCK", "EXIT"} /\ \A d \in Cpu : Frees(d)' => thr'[d].pid # q
      BY <1>3, <2>1, <3>1, <3>2 DEF CalmInv, Origins, Awaited, Frees
    <3>6. \A d \in Cpu : /\ Frees(d)' => state'[thr'[d].pid] = "BLOCK"
                         /\ thr'[d].at = "create" => state'[thr'[d].pid] = "ASSIGNED"
      BY <1>3, <3>1, <3>2, <3>3 DEF CalmInv, Origins, Awaited, Held, Frees
    <3>7. \A d, e \in Cpu : Held(d)' /\ Held(e)' /\ thr'[d].pid = thr'[e].pid => d = e
      BY <3>1, <3>2, <3>3 DEF CalmInv, Origins, Awaited, Held, Frees
    <3> QED BY <3>1, <3>4, <3>5, <3>6, <3>7 DEF CalmInv, Origins
  <2> QED BY <2>2, <2>3
<1>11. \/ thr'[c] = thr[c]
       \/ c # "QM" /\ thr'[c].at # "evict" /\ (thr'[c].at \in Working => thr'[c].pid \in Proc)
          /\ thr'[c].at # "unlist"
  BY <1>5 DEF Working
<1>12. Awaited' = Awaited
  BY <1>1 DEF Awaited
<1>13. \A q \in Proc : Alone(q)' /\ Located(q)'
  BY <1>7, <1>8
<1>14. /\ state' = [state EXCEPT ![p] = s] /\ s \notin {"NONE", "ASSIGNED", "EXEC"}
       /\ UNCHANGED <<listed, evicting, waiters, connected, comp>> /\ state[p] # "EXIT"
       /\ \A q \in Proc : q # p => cpu'[q] = cpu[q]
       /\ \A u \in Threads : u # c => thr'[u] = thr[u]
  BY <1>1, <1>3, <1>4, <1>5
<1> HIDE DEF s
<1> QED BY <1>9, <1>10, <1>11, <1>12, <1>13, <1>14, StateMoves

\* A thread ends the process it holds.
LEMMA CalmEnds ==
    ASSUME CalmInv, Typed', NEW t \in Threads, t # "QM",
           (t \in Cpu /\ KillProcess(t)) \/ (t = "KM" /\ TerminateProcess)
    PROVE  CalmInv'
<1> USE CpuNames DEF procVars, cpuVars, netVars, extVars
<1>1. Typed /\ thr[t] \in Locals /\ thr[t].at \in {"kill", "terminate"}
  BY DEF CalmInv, Typed, ThreadsTyped, KillProcess, TerminateProcess
<1>2. PICK p \in Proc : p = thr[t].pid
  BY <1>1 DEF CalmInv, Working
<1>3. Alone(p) /\ Located(p) /\ Works(t, p)
  BY <1>1, <1>2 DEF CalmInv, Works, Working
<1>4. InHand(p) /\ state[p] = "EXEC"
  BY <1>3 DEF InHand, Located, Active
<1>5. /\ state' = [state EXCEPT ![p] = "EXIT"]
      /\ cpu' = cpu \/ cpu' = [cpu EXCEPT ![p] = NoCpu]
      /\ UNCHANGED <<listed, readyQ, kmNew, kmReq, kmRead, ioReq, evicting, waiters, connected, comp,
                     toCpu, fromCpu, running>>
      /\ Goto(t, Home(t)) \/ Goto(t, [thr[t] EXCEPT !.at = "unlist"])
  BY <1>2 DEF KillProcess, TerminateProcess
<1>6. /\ Home(t).at \notin Working \cup {"evict", "create", "free", "read", "unlist"}
      /\ [thr[t] EXCEPT !.at = "unlist"].at = "unlist" /\ [thr[t] EXCEPT !.at = "unlist"].pid = p
      /\ "unlist" \notin Working \cup {"evict", "create", "free", "read"}
  BY <1>1, <1>2 DEF Home, Local, Working, Locals
<1>7. /\ \A u \in Threads : u # t => thr'[u] = thr[u]
      /\ thr'[t].at \notin Working \cup {"evict", "create", "free", "read"}
      /\ thr'[t].at = "unlist" => thr'[t].pid = p
      /\ \A q \in Proc : LessThr(q) /\ ~Works(t, q)'
  <2>1. PICK loc : /\ Goto(t, loc) /\ loc.at \notin Working \cup {"evict", "create", "free", "read"}
                   /\ loc.at = "unlist" => loc.pid = p
    BY <1>5, <1>6
  <2>2. \A q \in Proc : LessThr(q) /\ ~Works(t, q)'
    BY <1>1, <2>1, LessGoto
  <2> QED BY <1>1, <2>1, <2>2, ThreadMoves
<1>8. /\ state'[p] = "EXIT"
      /\ \A q \in Proc : q # p => state'[q] = state[q] /\ cpu'[q] = cpu[q]
  BY <1>1, <1>5 DEF Typed, ProcsTyped
<1>9. ASSUME NEW q \in Proc, q # p PROVE Alone(q)' /\ Located(q)'
  <2>1. Less(q)
    BY <1>5, <1>7, LessFrame DEF Less
  <2> QED BY <1>8, <1>9, <2>1, LessKeeps DEF CalmInv
<1>10. Alone(p)' /\ Located(p)'
  <2>1. ~Ordered(p) /\ ~Runs(p) /\ ~Reported(p) /\ ~Asked(p)
    BY <1>3, <1>4 DEF Alone
  <2>2. ~Ordered(p)' /\ ~Runs(p)' /\ ~Asked(p)' /\ ~Reported(p)'
    BY <1>5, <2>1 DEF Ordered, Runs, Asked, Reported
  <2>3. ~InHand(p)'
    BY <1>3, <1>7 DEF InHand, Alone, Works
  <2> QED BY <2>2, <2>3, NowhereKeeps DEF Active
<1>11. ReadyQueuesMatchStates'
  BY <1>1, <1>4, <1>5, QueuesFollow DEF CalmInv, CalmLists, Typed
<1>12. Origins'
  <2>1. /\ p \notin kmNew /\ p \notin Awaited
        /\ \A d \in Cpu : Held(d)' => thr'[d] = thr[d] /\ thr[d].pid \in Proc \ {p}
    BY <1>4, <1>7, NobodyWaits DEF Held, Frees
  <2> QED BY <1>1, <1>5, <1>8, <2>1, OriginsMove DEF CalmInv, Typed, RestTyped, Awaited
<1>13. thr'[t].at # "evict" /\ thr'[t].at \notin Working /\ Awaited' = Awaited /\ p \notin Awaited
  BY <1>4, <1>5, <1>7, NobodyWaits DEF Awaited
<1> QED BY <1>4, <1>5, <1>7, <1>8, <1>9, <1>10, <1>11, <1>12, <1>13, StateMoves

\* INIT_PROC takes a process that nobody knows, ...
LEMMA CalmCreate ==
    ASSUME CalmInv, Typed', NEW c \in Cpu, HandleProcessCreate(c)
    PROVE  CalmInv'
<1> USE CpuNames DEF procVars, cpuVars, netVars, extVars
<1>1. PICK r \in Proc, p \in Proc :
         /\ Receive(c, "PROCESS_CREATE", r) /\ state[p] = "NONE"
         /\ state' = [state EXCEPT ![p] = "ASSIGNED"] /\ kmNew' = kmNew \cup {p}
         /\ Goto(c, Local("create", p, NoCpu))
         /\ UNCHANGED <<cpu, listed, readyQ, kmReq, kmRead, ioReq, evicting, waiters, connected, comp,
                        toCpu, running>>
  BY DEF HandleProcessCreate
<1>2. Typed
  BY DEF CalmInv
<1>3. state'[p] = "ASSIGNED" /\ \A q \in Proc : q # p => state'[q] = state[q]
  BY <1>1, <1>2 DEF Typed, ProcsTyped
<1>4. Local("create", p, NoCpu).at = "create" /\ Local("create", p, NoCpu).pid = p /\ "create" \notin Working
  BY DEF Local, Working
<1>5. /\ \A u \in Threads : u # c => thr'[u] = thr[u]
      /\ thr'[c].at = "create" /\ thr'[c].pid = p
      /\ \A q \in Proc : LessThr(q)
  BY <1>1, <1>2, <1>4, ThreadMoves, LessGoto
<1>6. ASSUME NEW q \in Proc PROVE Less(q)
  <2>1. LessFrom(q)
    BY <1>1, <1>2, LessReceive
  <2> QED BY <1>1, <1>5, <2>1, LessFrame DEF Less
<1>7. ASSUME NEW q \in Proc PROVE Alone(q)' /\ Located(q)'
  <2>1. CASE q = p
    <3>1. ~Active(q)
      BY <1>1, <2>1 DEF CalmInv, Located
    <3> QED BY <1>6, <3>1, LessActive, NowhereKeeps
  <2>2. CASE q # p
    BY <1>1, <1>3, <1>6, <2>2, LessKeeps DEF CalmInv
  <2> QED BY <2>1, <2>2
<1>8. ReadyQueuesMatchStates'
  BY <1>1, <1>2, QueuesFollow DEF CalmInv, CalmLists, Typed
<1>9. Origins'
  <2>1. \A d \in Cpu : Held(d) => thr[d].pid \in Proc /\ thr[d].pid # p
    BY <1>1 DEF CalmInv, Origins, Awaited, Held, Frees, Typed, ThreadsTyped, NeedsProcess
  <2>2. p \notin kmNew /\ p \notin Awaited /\ kmNew \subseteq Proc /\ Awaited \subseteq Proc
    BY <1>1, <1>2 DEF CalmInv, Origins, Awaited, Typed, RestTyped, Frees
  <2>3. \A d \in Cpu : d # c => thr'[d] = thr[d]
    BY <1>5
  <2>4. \A q \in kmNew' : state'[q] \in {"ASSIGNED", "NEW"}
    BY <1>1, <1>3, <2>2 DEF CalmInv, Origins, Awaited, Frees
  <2>5. \A q \in Awaited' : state'[q] \in {"BLOCK", "EXIT"} /\ \A d \in Cpu : Frees(d)' => thr'[d].pid # q
    BY <1>1, <1>3, <1>5, <2>2, <2>3 DEF CalmInv, Origins, Awaited, Frees
  <2>6. \A d \in Cpu : /\ Frees(d)' => state'[thr'[d].pid] = "BLOCK"
                       /\ thr'[d].at = "create" => state'[thr'[d].pid] = "ASSIGNED"
    BY <1>3, <1>5, <2>1, <2>3 DEF CalmInv, Origins, Awaited, Held, Frees
  <2>7. \A d, e \in Cpu : Held(d)' /\ Held(e)' /\ thr'[d].pid = thr'[e].pid => d = e
    BY <1>5, <2>1, <2>3 DEF CalmInv, Origins, Awaited, Held, Frees
  <2> QED BY <1>1, <2>4, <2>5, <2>6, <2>7 DEF CalmInv, Origins
<1>10. thr'[c].at # "evict" /\ thr'[c].at # "unlist" /\ thr'[c].at \notin Working /\ Awaited' = Awaited
  BY <1>1, <1>4, <1>5 DEF Awaited
<1> QED BY <1>1, <1>3, <1>5, <1>7, <1>8, <1>9, <1>10, StateMoves

\* ... and lists it.
LEMMA CalmList ==
    ASSUME CalmInv, Typed', NEW c \in Cpu, ListProcess(c)
    PROVE  CalmInv'
<1> USE CpuNames DEF procVars, cpuVars, netVars, extVars
<1>1. Typed /\ thr[c].at = "create" /\ Held(c)
  BY DEF CalmInv, ListProcess, Held, Frees
<1>2. PICK p \in Proc : p = thr[c].pid /\ state[p] = "ASSIGNED"
  BY <1>1 DEF CalmInv, Origins, Awaited, Typed, ThreadsTyped, NeedsProcess, Frees
<1>3. /\ state' = [state EXCEPT ![p] = "NEW"] /\ listed' = Append(listed, p) /\ Goto(c, Home(c))
      /\ UNCHANGED <<cpu, readyQ, kmNew, kmReq, kmRead, ioReq, evicting, waiters, connected, comp,
                     toCpu, fromCpu, running>>
  BY <1>2 DEF ListProcess
<1>4. state'[p] = "NEW" /\ \A q \in Proc : q # p => state'[q] = state[q]
  BY <1>1, <1>3 DEF Typed, ProcsTyped
<1>5. Home(c).at \notin Working \cup {"evict", "create", "free", "read", "unlist"}
  BY DEF Home, Local, Working
<1>6. /\ \A u \in Threads : u # c => thr'[u] = thr[u]
      /\ thr'[c].at \notin Working \cup {"evict", "create", "free", "read", "unlist"}
      /\ \A q \in Proc : LessThr(q)
  BY <1>1, <1>3, <1>5, ThreadMoves, LessGoto
<1>7. ASSUME NEW q \in Proc PROVE Alone(q)' /\ Located(q)'
  <2>1. Less(q)
    BY <1>3, <1>6, LessFrame DEF Less
  <2>2. CASE q = p
    <3>1. ~Active(q)
      BY <1>2, <2>2 DEF CalmInv, Located
    <3> QED BY <2>1, <3>1, LessActive, NowhereKeeps
  <2>3. CASE q # p
    BY <1>3, <1>4, <2>1, <2>3, LessKeeps DEF CalmInv
  <2> QED BY <2>2, <2>3
<1>8. ReadyQueuesMatchStates'
  BY <1>1, <1>2, <1>3, QueuesFollow DEF CalmInv, CalmLists, Typed
<1>9. Origins'
  <2>1. \A d \in Cpu : Held(d)' => d # c /\ thr'[d] = thr[d] /\ Held(d)
    BY <1>6 DEF Held, Frees
  <2>2. \A d \in Cpu : Held(d) /\ d # c => thr[d].pid \in Proc /\ thr[d].pid # p
    BY <1>1, <1>2 DEF CalmInv, Origins, Awaited, Held, Frees, Typed, ThreadsTyped, NeedsProcess
  <2>3. kmNew \subseteq Proc /\ Awaited \subseteq Proc /\ p \notin Awaited
    BY <1>1, <1>2 DEF CalmInv, Origins, Awaited, Typed, RestTyped, Frees
  <2>4. \A q \in kmNew' : state'[q] \in {"ASSIGNED", "NEW"}
    BY <1>3, <1>4, <2>3 DEF CalmInv, Origins, Awaited, Frees
  <2>5. \A q \in Awaited' : state'[q] \in {"BLOCK", "EXIT"} /\ \A d \in Cpu : Frees(d)' => thr'[d].pid # q
    BY <1>3, <1>4, <2>1, <2>3 DEF CalmInv, Origins, Awaited, Held, Frees
  <2>6. \A d \in Cpu : /\ Frees(d)' => state'[thr'[d].pid] = "BLOCK"
                       /\ thr'[d].at = "create" => state'[thr'[d].pid] = "ASSIGNED"
    BY <1>4, <2>1, <2>2 DEF CalmInv, Origins, Awaited, Held, Frees
  <2>7. \A d, e \in Cpu : Held(d)' /\ Held(e)' /\ thr'[d].pid = thr'[e].pid => d = e
    BY <2>1 DEF CalmInv, Origins, Awaited, Held, Frees
  <2> QED BY <1>3, <2>4, <2>5, <2>6, <2>7 DEF CalmInv, Origins
<1>10. \A q \in Proc : InList(listed', q) => InList(listed, q) \/ q = p
  <2>1. listed \in Seq(Proc)
    BY <1>1 DEF Typed, ProcsTyped
  <2> QED BY <1>3, <2>1, ListAppend DEF InList
<1>11. Calm'
  BY <1>3, <1>6 DEF CalmInv, Calm
<1>12. thr'["KM"].at = "unlist" => state'[thr'["KM"].pid] = "EXIT" /\ thr'["KM"].pid \notin Awaited'
  <2>1. thr["KM"].at = "unlist" =>
            thr["KM"].pid \in Proc /\ state[thr["KM"].pid] = "EXIT" /\ thr["KM"].pid \notin Awaited
    BY DEF CalmInv, CalmLists, Typed, ThreadsTyped, NeedsProcess
  <2>2. Awaited' = Awaited
    BY <1>3 DEF Awaited
  <2> QED BY <1>2, <1>4, <1>6, <2>1, <2>2
<1>13. CalmLists'
  BY <1>2, <1>3, <1>4, <1>8, <1>10, <1>12 DEF CalmInv, CalmLists
<1>14. \A u \in Threads : thr'[u].at \in Working => thr'[u].pid \in Proc
  BY <1>6 DEF CalmInv
<1> QED BY <1>7, <1>9, <1>11, <1>13, <1>14 DEF CalmInv

\* The second half of SLEEP hands the process to the devices, that of STDOUT
\* to Kernel Memory.
LEMMA CalmFree ==
    ASSUME CalmInv, Typed', NEW c \in Cpu, FreeCpu(c) \/ send_memory_read(c)
    PROVE  CalmInv'
<1> USE CpuNames DEF procVars, cpuVars, netVars, extVars
<1>1. Typed /\ Frees(c) /\ Held(c)
  BY DEF CalmInv, FreeCpu, send_memory_read, Held, Frees
<1>2. PICK p \in Proc : p = thr[c].pid /\ state[p] = "BLOCK"
  BY <1>1 DEF CalmInv, Origins, Awaited, Typed, ThreadsTyped, NeedsProcess, Frees
<1>3. /\ \/ ioReq' = ioReq \cup {p} /\ kmRead' = kmRead
         \/ kmRead' = kmRead \cup {p} /\ ioReq' = ioReq
      /\ Goto(c, Home(c))
      /\ UNCHANGED <<state, cpu, listed, readyQ, kmNew, kmReq, evicting, waiters, connected, comp,
                     toCpu, fromCpu, running>>
  BY <1>2 DEF FreeCpu, send_memory_read
<1>4. Home(c).at \notin Working \cup {"evict", "create", "free", "read", "unlist"}
  BY DEF Home, Local, Working
<1>5. /\ \A u \in Threads : u # c => thr'[u] = thr[u]
      /\ thr'[c].at \notin Working \cup {"evict", "create", "free", "read", "unlist"}
      /\ \A q \in Proc : LessThr(q)
  BY <1>1, <1>3, <1>4, ThreadMoves, LessGoto
<1>6. ASSUME NEW q \in Proc PROVE Alone(q)' /\ Located(q)'
  <2>1. Less(q)
    BY <1>3, <1>5, LessFrame DEF Less
  <2> QED BY <1>3, <2>1, LessKeeps DEF CalmInv
<1>7. Origins'
  <2>1. \A d \in Cpu : Held(d)' => d # c /\ thr'[d] = thr[d] /\ Held(d)
    BY <1>5 DEF Held, Frees
  <2>2. \A d \in Cpu : Held(d) /\ d # c => thr[d].pid # p
    BY <1>1, <1>2 DEF CalmInv, Origins, Awaited, Frees
  <2>3. p \notin Awaited /\ Awaited' = Awaited \cup {p}
    BY <1>1, <1>2, <1>3 DEF CalmInv, Origins, Awaited
  <2>4. ioReq' \cap kmRead' = {}
    BY <1>3, <2>3 DEF CalmInv, Origins, Awaited
  <2>5. \A q \in Awaited' : state'[q] \in {"BLOCK", "EXIT"} /\ \A d \in Cpu : Frees(d)' => thr'[d].pid # q
    BY <1>2, <1>3, <2>1, <2>2, <2>3 DEF CalmInv, Origins, Held, Frees
  <2> QED BY <1>3, <2>1, <2>4, <2>5 DEF CalmInv, Origins, Held, Frees
<1>8. \A u \in Threads : thr'[u] = thr[u] \/ (u # "QM" /\ thr'[u].at \notin Working \cup {"evict", "unlist"})
  BY <1>5
<1>9. Calm'
  BY <1>3, <1>8 DEF CalmInv, Calm
<1>10. CalmLists'
  BY <1>2, <1>3, <1>8 DEF CalmInv, CalmLists, ReadyQueuesMatchStates, InList, Awaited
<1>11. \A u \in Threads : thr'[u].at \in Working => thr'[u].pid \in Proc
  BY <1>8 DEF CalmInv
<1> QED BY <1>6, <1>7, <1>9, <1>10, <1>11 DEF CalmInv

\* A process that is created or served becomes READY.
LEMMA CalmBecomesReady ==
    ASSUME CalmInv, Typed', NEW p \in Proc, state[p] \in {"NEW", "BLOCK", "EXIT"},
           state[p] = "EXIT" => p \in Awaited,
           state' = [state EXCEPT ![p] = "READY"],
           readyQ' = add_process_to_ready_queue(readyQ, p, Priority[p]),
           kmNew' \subseteq kmNew \ {p}, ioReq' \subseteq ioReq \ {p} /\ kmRead' \subseteq kmRead \ {p},
           \A d \in Cpu : Frees(d) => thr[d].pid # p,
           UNCHANGED <<cpu, listed, kmReq, evicting, waiters, connected, comp, thr, toCpu, fromCpu, running>>
    PROVE  CalmInv'
<1> USE CpuNames
<1>1. Typed
  BY DEF CalmInv
<1>2. \A q \in Proc : q # p => state'[q] = state[q]
  BY <1>1 DEF Typed, ProcsTyped
<1>3. ASSUME NEW q \in Proc PROVE Alone(q)' /\ Located(q)'
  <2>1. Less(q)
    BY LessFrame DEF Less
  <2>2. CASE q = p
    <3>1. ~Active(q)
      BY <2>2 DEF CalmInv, Located
    <3> QED BY <2>1, <3>1, LessActive, NowhereKeeps
  <2>3. CASE q # p
    BY <1>2, <2>1, <2>3, LessKeeps DEF CalmInv
  <2> QED BY <2>2, <2>3
<1>4. ReadyQueuesMatchStates'
  BY <1>1, QueuesFollow DEF CalmInv, CalmLists, Typed
<1>5. Origins'
  <2>1. \A d \in Cpu : Held(d) => thr[d].pid \in Proc \ {p}
    BY DEF CalmInv, Origins, Awaited, Held, Frees, Typed, ThreadsTyped, NeedsProcess
  <2>2. \A d \in Cpu : Held(d)' => thr'[d] = thr[d] /\ thr[d].pid \in Proc \ {p}
    BY <2>1 DEF Held, Frees
  <2> QED BY <1>1, <1>2, <2>2, OriginsMove DEF CalmInv, Typed, RestTyped, Awaited
<1>6. Awaited' \subseteq Awaited /\ "KM" \in Threads
  BY DEF Awaited, Threads
<1> QED BY <1>2, <1>3, <1>4, <1>5, <1>6, StateMoves

\* The answers to PROCESS_CREATE, the lost one included, and of the devices.
LEMMA CalmAnswers ==
    ASSUME CalmInv, Typed', NEW p \in Proc, wait_process_create_confirmation(p) \/ io_finish_process(p)
    PROVE  CalmInv'
<1> USE CpuNames DEF procVars, cpuVars, netVars, extVars
<1>1. CASE wait_process_create_confirmation(p)
  <2>1. /\ p \in kmNew /\ kmNew' = kmNew \ {p}
        /\ UNCHANGED <<cpu, listed, kmReq, kmRead, ioReq, evicting, waiters, connected, comp, thr, toCpu, fromCpu,
                       running>>
    BY <1>1 DEF wait_process_create_confirmation
  <2>2. CASE InList(listed, p)
    <3>1. state[p] = "NEW"
      BY <2>1, <2>2 DEF CalmInv, CalmLists, Origins, Awaited, Frees
    <3>2. p \notin Awaited /\ \A d \in Cpu : Frees(d) => thr[d].pid # p
      BY <3>1 DEF CalmInv, Origins, Awaited, Frees
    <3>3. /\ state' = [state EXCEPT ![p] = "READY"]
          /\ readyQ' = add_process_to_ready_queue(readyQ, p, Priority[p])
      BY <1>1, <2>2 DEF wait_process_create_confirmation
    <3>4. kmNew' \subseteq kmNew \ {p} /\ ioReq' \subseteq ioReq \ {p} /\ kmRead' \subseteq kmRead \ {p}
      BY <2>1, <3>2 DEF Awaited
    <3> QED BY <2>1, <3>1, <3>2, <3>3, <3>4, CalmBecomesReady
  <2>3. CASE ~InList(listed, p)
    <3>1. UNCHANGED <<state, readyQ>> /\ kmNew' \subseteq kmNew
      BY <1>1, <2>1, <2>3 DEF wait_process_create_confirmation
    <3>2. ASSUME NEW q \in Proc PROVE Alone(q)' /\ Located(q)'
      <4>1. Less(q)
        BY <2>1, LessFrame DEF Less
      <4> QED BY <2>1, <3>1, <4>1, LessKeeps DEF CalmInv
    <3>3. \A d \in Cpu : connected'[d] \in {"no", "yes"}
      BY <2>1 DEF CalmInv, Calm
    <3> QED BY <2>1, <3>1, <3>2, <3>3, StatesKept
  <2> QED BY <2>2, <2>3
<1>2. CASE io_finish_process(p)
  <2>1. /\ p \in ioReq /\ ioReq' = ioReq \ {p} /\ state' = [state EXCEPT ![p] = "READY"]
        /\ readyQ' = add_process_to_ready_queue(readyQ, p, Priority[p])
        /\ UNCHANGED <<cpu, listed, kmNew, kmReq, kmRead, evicting, waiters, connected, comp, thr, toCpu,
                       fromCpu, running>>
    BY <1>2 DEF io_finish_process
  <2>2. state[p] \in {"BLOCK", "EXIT"} /\ p \notin kmNew /\ p \notin kmRead /\ p \in Awaited /\ \A d \in Cpu : Frees(d) => thr[d].pid # p
    BY <2>1 DEF CalmInv, Origins, Awaited, Frees
  <2>3. kmNew' \subseteq kmNew \ {p} /\ ioReq' \subseteq ioReq \ {p} /\ kmRead' \subseteq kmRead \ {p}
    BY <2>1, <2>2
  <2> QED BY <2>1, <2>2, <2>3, CalmBecomesReady
<1> QED BY <1>1, <1>2

\* STDIN of 0 bytes: the process ends where it is, and keeps its CPU.
LEMMA CalmStdinEmpty ==
    ASSUME CalmInv, Typed', NEW c \in Cpu, HandleStdinEmpty(c)
    PROVE  CalmInv'
<1> USE CpuNames DEF procVars, cpuVars, netVars, extVars
<1>1. PICK p \in Proc :
         /\ Receive(c, "STDIN_EMPTY", p) /\ state' = [state EXCEPT ![p] = "EXIT"]
         /\ UNCHANGED <<cpu, listed, readyQ, kmNew, kmReq, kmRead, ioReq, evicting, waiters, connected, comp,
                        toCpu, running, thr>>
  BY DEF HandleStdinEmpty
<1>2. Typed /\ "STDIN_EMPTY" \in AllSyscalls \ {"PROCESS_CREATE"}
  BY DEF CalmInv, AllSyscalls
<1>3. /\ state[p] = "EXEC" /\ ~InHand(p) /\ ~Ordered(p) /\ ~Runs(p) /\ ~Asked(p)
      /\ \A d \in Cpu : ~Some(fromCpu'[d], ReportsOf(p))
  BY <1>1, <1>2, YieldReceived
<1>4. \A q \in Proc : q # p => state'[q] = state[q]
  BY <1>1, <1>2 DEF Typed, ProcsTyped
<1>5. ASSUME NEW q \in Proc, q # p PROVE Alone(q)' /\ Located(q)'
  <2>1. LessFrom(q)
    BY <1>1, <1>2, LessReceive
  <2>2. Less(q)
    BY <1>1, <2>1, LessFrame DEF Less
  <2> QED BY <1>1, <1>4, <1>5, <2>2, LessKeeps DEF CalmInv
<1>6. Alone(p)' /\ Located(p)'
  <2>1. ~InHand(p)' /\ ~Ordered(p)' /\ ~Runs(p)' /\ ~Asked(p)' /\ ~Reported(p)'
    BY <1>1, <1>3 DEF InHand, Works, Ordered, Runs, Asked, Reported
  <2> QED BY <2>1, NowhereKeeps DEF Active
<1>7. ReadyQueuesMatchStates'
  BY <1>1, <1>2, <1>3, QueuesFollow DEF CalmInv, CalmLists, Typed
<1>8. Origins'
  <2>1. /\ p \notin kmNew /\ p \notin Awaited
        /\ \A d \in Cpu : Held(d)' => thr'[d] = thr[d] /\ thr[d].pid \in Proc \ {p}
    BY <1>1, <1>3, NobodyWaits DEF Held
  <2> QED BY <1>1, <1>2, <1>4, <2>1, OriginsMove DEF CalmInv, Typed, RestTyped, Awaited
<1>9. Awaited' = Awaited
  BY <1>1 DEF Awaited
<1>10. \A q \in Proc : Alone(q)' /\ Located(q)'
  BY <1>5, <1>6
<1> QED BY <1>1, <1>3, <1>7, <1>8, <1>9, <1>10, StateMoves DEF Threads

\* MEM_ALLOC of 0 bytes: the process is nowhere active any more.
LEMMA CalmMemAllocEmpty ==
    ASSUME CalmInv, Typed', NEW c \in Cpu, HandleMemAllocEmpty(c)
    PROVE  CalmInv'
<1> USE CpuNames DEF procVars, cpuVars, netVars, extVars
<1>1. PICK p \in Proc :
         /\ Receive(c, "MEM_ALLOC_EMPTY", p)
         /\ UNCHANGED <<state, cpu, listed, readyQ, kmNew, kmReq, kmRead, ioReq, evicting, waiters, connected, comp,
                        toCpu, running, thr>>
  BY DEF HandleMemAllocEmpty
<1>2. Typed
  BY DEF CalmInv
<1>3. ASSUME NEW q \in Proc PROVE Alone(q)' /\ Located(q)'
  <2>1. LessFrom(q)
    BY <1>1, <1>2, LessReceive
  <2>2. Less(q)
    BY <1>1, <2>1, LessFrame DEF Less
  <2> QED BY <1>1, <2>2, LessKeeps DEF CalmInv
<1>4. \A d \in Cpu : connected'[d] \in {"no", "yes"}
  BY <1>1 DEF CalmInv, Calm
<1> QED BY <1>1, <1>3, <1>4, StatesKept DEF Threads

\* Kernel Memory has read for a STDOUT: the process may end, and waits for a
\* device.
LEMMA CalmStdoutRead ==
    ASSUME CalmInv, Typed', NEW p \in Proc, NEW ok \in BOOLEAN, stdout_wait_memory_read(p, ok)
    PROVE  CalmInv'
<1> USE CpuNames DEF procVars, cpuVars, netVars, extVars
<1>1. /\ p \in kmRead /\ kmRead' = kmRead \ {p} /\ ioReq' = ioReq \cup {p}
      /\ thr["KM"].at = "idle"
      /\ UNCHANGED <<cpu, listed, readyQ, kmNew, kmReq, evicting, waiters, connected, comp, thr, toCpu, fromCpu,
                     running>>
  BY DEF stdout_wait_memory_read
<1>2. Typed /\ Awaited' = Awaited /\ p \in Awaited /\ p \notin ioReq
  BY <1>1 DEF CalmInv, Origins, Awaited
<1>3. /\ state[p] \in {"BLOCK", "EXIT"} /\ p \notin kmNew
      /\ \A d \in Cpu : Frees(d) => thr[d].pid # p
  BY <1>2 DEF CalmInv, Origins
<1>4. PICK s \in {"BLOCK", "EXIT"} : state' = [state EXCEPT ![p] = s]
  <2>1. CASE ok
    <3>1. state' = [state EXCEPT ![p] = state[p]]
      BY <1>2, <2>1 DEF stdout_wait_memory_read, Typed, ProcsTyped
    <3> QED BY <1>3, <3>1
  <2>2. CASE ~ok
    BY <2>2 DEF stdout_wait_memory_read
  <2> QED BY <2>1, <2>2
<1>5. state'[p] = s /\ \A q \in Proc : q # p => state'[q] = state[q]
  BY <1>2, <1>4 DEF Typed, ProcsTyped
<1>6. ASSUME NEW q \in Proc PROVE Alone(q)' /\ Located(q)'
  <2>1. Less(q)
    BY <1>1, LessFrame DEF Less
  <2>2. CASE q = p
    <3>1. ~Active(q)
      BY <1>3, <2>2 DEF CalmInv, Located
    <3> QED BY <2>1, <3>1, LessActive, NowhereKeeps
  <2>3. CASE q # p
    BY <1>1, <1>5, <2>1, <2>3, LessKeeps DEF CalmInv
  <2> QED BY <2>2, <2>3
<1>7. ReadyQueuesMatchStates'
  BY <1>1, <1>2, <1>3, <1>4, QueuesFollow DEF CalmInv, CalmLists, Typed
<1>8. Origins'
  <2>1. \A d \in Cpu : Held(d) => thr[d].pid \in Proc \ {p}
    BY <1>3 DEF CalmInv, Origins, Held, Frees, Typed, ThreadsTyped, NeedsProcess
  <2>2. kmNew \subseteq Proc /\ Awaited \subseteq Proc
    BY <1>2 DEF Typed, RestTyped, Awaited
  <2>3. \A q \in kmNew' : state'[q] \in {"ASSIGNED", "NEW"}
    BY <1>1, <1>3, <1>5, <2>2 DEF CalmInv, Origins
  <2>4. \A q \in Awaited' : state'[q] \in {"BLOCK", "EXIT"} /\ \A d \in Cpu : Frees(d)' => thr'[d].pid # q
    BY <1>1, <1>2, <1>3, <1>5, <2>2 DEF CalmInv, Origins, Frees
  <2>5. ioReq' \cap kmRead' = {}
    BY <1>1 DEF CalmInv, Origins
  <2>6. \A d \in Cpu : /\ Frees(d)' => state'[thr'[d].pid] = "BLOCK"
                       /\ thr'[d].at = "create" => state'[thr'[d].pid] = "ASSIGNED"
    BY <1>1, <1>5, <2>1 DEF CalmInv, Origins, Held, Frees
  <2>7. \A d, e \in Cpu : Held(d)' /\ Held(e)' /\ thr'[d].pid = thr'[e].pid => d = e
    BY <1>1 DEF CalmInv, Origins, Held
  <2> QED BY <2>3, <2>4, <2>5, <2>6, <2>7 DEF Origins
<1>9. /\ s \notin {"NONE", "ASSIGNED", "EXEC"} /\ thr'["KM"] = thr["KM"] /\ "KM" \in Threads
      /\ \A u \in Threads : u # "KM" => thr'[u] = thr[u]
  BY <1>1 DEF Threads
<1> QED BY <1>1, <1>2, <1>4, <1>6, <1>7, <1>8, <1>9, StateMoves

-----------------------------------------------------------------------------
\* Initially nothing is active.
LEMMA CalmInit == Init => CalmInv
<1> SUFFICES ASSUME Init PROVE CalmInv
  OBVIOUS
<1> USE CpuNames, DispatchAssumption, QueueAssumption
<1>1. Typed
  BY InitTyped
<1>2. /\ \A t \in Threads : thr[t].at \in {"wait", "idle"} /\ thr["QM"].at = "idle"
      /\ \A c \in Cpu : toCpu[c] = <<>> /\ fromCpu[c] = <<>> /\ running[c] = NoProc
      /\ kmReq = {}
  BY DEF Init, Local
<1>3. Calm
  BY <1>2 DEF Init, Calm
<1>4. CalmLists
  BY <1>2 DEF Init, CalmLists, ReadyQueuesMatchStates, NotQueued, EmptyQueues, InList
<1>5. Origins
  BY <1>2 DEF Init, Origins, Awaited, Held, Frees
<1>6. \A t \in Threads : thr[t].at \notin Working
  BY <1>2 DEF Working
<1>7. ASSUME NEW p \in Proc PROVE Alone(p) /\ Located(p)
  <2>1. /\ \A t \in Threads : ~Works(t, p)
        /\ \A c \in Cpu : /\ ~Some(toCpu[c], OrdersOf(p)) /\ ~Some(fromCpu[c], ReportsOf(p))
                          /\ Once(toCpu[c], OrdersOf(p)) /\ Once(fromCpu[c], ReportsOf(p))
                          /\ running[c] # p
    BY <1>2, <1>6 DEF Works, Some, Once
  <2>2. ~InHand(p) /\ ~Ordered(p) /\ ~Runs(p) /\ ~Reported(p) /\ ~Asked(p)
    BY <1>2, <2>1 DEF InHand, Ordered, Runs, Reported, Asked
  <2> QED BY <2>1, <2>2 DEF Alone, Located, Active
<1> QED BY <1>1, <1>3, <1>4, <1>5, <1>6, <1>7 DEF CalmInv

\* Every step keeps CalmInv.
LEMMA CalmStep ==
    ASSUME NoEvictions, CalmInv, [Next]_vars
    PROVE  CalmInv'
<1> USE CpuNames
<1>1. Typed'
  BY TypedStep DEF CalmInv
<1>2. ASSUME NEW c \in Cpu, CpuStep(c) PROVE CalmInv'
  BY <1>1, <1>2, CalmExecute, CalmConnect, CalmSyscall DEF CpuStep
<1>3. ASSUME NEW c \in Cpu, HandlerStep(c) PROVE CalmInv'
  <2>1. CASE KillProcess(c)
    BY <1>1, <2>1, CalmEnds
  <2> QED BY <1>1, <1>3, <2>1, CalmCreate, CalmList, CalmLeaves, CalmTakesUp, CalmFree, CalmMemAlloc,
      CalmStdinEmpty, CalmMemAllocEmpty, CalmConnect, NoEvictionStep DEF HandlerStep
<1>4. CASE StsStep
  BY <1>1, <1>4, CalmSts, CalmDispatch DEF StsStep
<1>5. CASE KmStep
  <2>1. CASE TerminateProcess
    BY <1>1, <2>1, CalmEnds
  <2> QED BY <1>1, <1>5, <2>1, CalmAnswers, CalmSegmentResult, CalmStdoutRead, CalmRelease,
      NoEvictionStep DEF KmStep
<1>6. ASSUME NEW t \in Threads, SendCheck(t) \/ SendExecute(t) PROVE CalmInv'
  BY <1>1, <1>6, CalmSendCheck, CalmSendExecute
<1>7. CASE UNCHANGED vars
  <2>1. UNCHANGED <<state, cpu, listed, readyQ, kmNew, kmReq, kmRead, ioReq, evicting, waiters, connected, comp,
                    thr, toCpu, fromCpu, running>>
    BY <1>7 DEF vars, procVars, cpuVars, netVars, extVars
  <2>2. ASSUME NEW q \in Proc PROVE Alone(q)' /\ Located(q)'
    <3>1. Less(q)
      BY <2>1, LessFrame DEF Less
    <3> QED BY <2>1, <3>1, LessKeeps DEF CalmInv
  <2>3. \A d \in Cpu : connected'[d] \in {"no", "yes"}
    BY <2>1 DEF CalmInv, Calm
  <2> QED BY <1>1, <2>1, <2>2, <2>3, StatesKept
<1>8. ASSUME NEW c \in Cpu, CpuConnect(c) PROVE CalmInv'
  BY <1>1, <1>8, CalmConnect
<1>9. ASSUME NEW p \in Proc, io_finish_process(p) PROVE CalmInv'
  BY <1>1, <1>9, CalmAnswers
<1> QED BY <1>2, <1>3, <1>4, <1>5, <1>6, <1>7, <1>8, <1>9, NoEvictionStep DEF Next

\* The orders to execute p and the CPUs that run it: Located puts all of them
\* on one CPU, Alone leaves one.
LEMMA CalmOnce == CalmInv => ExecutedOnce
<1> SUFFICES ASSUME CalmInv, NEW p \in Proc
             PROVE  Cardinality(Orders(p)) + Cardinality({c \in Cpu : running[c] = p}) <= 1
  BY DEF ExecutedOnce
<1> DEFINE R == {c \in Cpu : running[c] = p}
<1>1. Alone(p) /\ Located(p)
  BY DEF CalmInv
<1>2. \A c, d \in R : c = d
  BY <1>1 DEF Located
<1>3. \A o \in Orders(p) : \E c \in Cpu : \E i \in DOMAIN toCpu[c] :
          o = <<c, i>> /\ toCpu[c][i] = Message("PROCESS_EXECUTE", p)
  BY DEF Orders
<1>4. \A c \in Cpu : \A i \in DOMAIN toCpu[c] : toCpu[c][i] = Message("PROCESS_EXECUTE", p) =>
          toCpu[c][i] \in OrdersOf(p) /\ Some(toCpu[c], OrdersOf(p)) /\ cpu[p] = c
  BY <1>1 DEF OrdersOf, Some, Located
<1>5. ASSUME NEW o \in Orders(p), NEW u \in Orders(p) PROVE o = u
  <2>1. PICK c \in Cpu, d \in Cpu : /\ \E i \in DOMAIN toCpu[c] :
                                          o = <<c, i>> /\ toCpu[c][i] = Message("PROCESS_EXECUTE", p)
                                    /\ \E j \in DOMAIN toCpu[d] :
                                          u = <<d, j>> /\ toCpu[d][j] = Message("PROCESS_EXECUTE", p)
    BY <1>3
  <2>2. PICK i \in DOMAIN toCpu[c], j \in DOMAIN toCpu[d] :
            /\ o = <<c, i>> /\ toCpu[c][i] = Message("PROCESS_EXECUTE", p)
            /\ u = <<d, j>> /\ toCpu[d][j] = Message("PROCESS_EXECUTE", p)
    BY <2>1
  <2>3. c = d
    BY <1>4, <2>2
  <2>4. i = j
    BY <1>1, <1>4, <2>2, <2>3 DEF Alone, Once
  <2> QED BY <2>2, <2>3, <2>4
<1>6. Orders(p) = {} \/ R = {}
  <2> SUFFICES ASSUME NEW o \in Orders(p), NEW d \in R PROVE FALSE
    OBVIOUS
  <2>1. Ordered(p) /\ Runs(p)
    BY <1>3, <1>4 DEF Ordered, Runs
  <2> QED BY <1>1, <2>1 DEF Alone
<1>7. /\ Cardinality(Orders(p)) \in Nat /\ (Orders(p) = {} => Cardinality(Orders(p)) = 0)
      /\ (Orders(p) # {} => Cardinality(Orders(p)) = 1)
  BY <1>5, AtMostOne
<1>8. Cardinality(R) \in Nat /\ (R = {} => Cardinality(R) = 0) /\ (R # {} => Cardinality(R) = 1)
  <2> HIDE DEF R
  <2> QED BY <1>2, AtMostOne
<1> HIDE DEF R
<1>9. Cardinality(Orders(p)) + Cardinality(R) <= 1
  BY <1>6, <1>7, <1>8
<1> QED BY <1>9 DEF R

\* Without evictions a process is active in one place at most, whatever the
\* order of the answers, the syscalls and the scheduler's steps.
THEOREM CalmTheorem ==
    ASSUME NoEvictions PROVE Spec => []CalmInv
<1>1. CalmInv /\ [Next]_vars => CalmInv'
  BY CalmStep
<1> QED BY <1>1, CalmInit, PTL DEF Spec

\* ListsAgree with all syscalls and no timing assumption: no memory answer,
\* wake-up or fatal error queues a process twice, runs it where it is not
\* assigned, or orders it twice.
THEOREM CalmListsTheorem ==
    ASSUME NoEvictions PROVE Spec => []ListsAgree
<1>1. CalmInv => RunsWhereAssigned
  <2> SUFFICES ASSUME CalmInv, NEW c \in Cpu, running[c] # NoProc
               PROVE  state[running[c]] = "EXEC" /\ cpu[running[c]] = c
    BY DEF RunsWhereAssigned
  <2>1. running[c] \in Proc
    BY DEF CalmInv, Typed, SocketsTyped
  <2>2. Runs(running[c])
    BY DEF Runs
  <2> QED BY <2>1, <2>2 DEF CalmInv, Located, Active
<1>2. CalmInv => ReadyQueuesMatchStates
  BY DEF CalmInv, CalmLists
<1>3. CalmInv => ListsAgree
  BY <1>1, <1>2, CalmOnce DEF ListsAgree
<1> QED BY <1>3, CalmTheorem, PTL

\* Every process that a step moves was in another state than EXIT, or a device
\* works for it.
LEMMA CalmExitStep ==
    ASSUME NoEvictions, CalmInv, [Next]_vars, NEW p \in Proc, state[p] = "EXIT", p \notin ioReq
    PROVE  state'[p] = "EXIT"
<1> USE CpuNames DEF procVars
<1>1. ASSUME NEW q \in Proc, NEW s, q # p \/ s = "EXIT", state' = [state EXCEPT ![q] = s]
      PROVE  state'[p] = "EXIT"
  BY <1>1 DEF CalmInv, Typed, ProcsTyped
<1>2. ASSUME NEW c \in Cpu, HandlerStep(c) PROVE state'[p] = "EXIT"
  <2>1. CASE HandleProcessCreate(c)
    BY <1>1, <2>1 DEF HandleProcessCreate
  <2>2. CASE ListProcess(c)
    <3>1. thr[c].pid \in Proc /\ thr[c].pid # p
      BY <2>2 DEF ListProcess, CalmInv, Origins, Awaited, Typed, ThreadsTyped, NeedsProcess, Frees
    <3> QED BY <1>1, <2>2, <3>1 DEF ListProcess
  <2>3. CASE HandleProcessEnd(c)
    BY <1>1, <2>3 DEF HandleProcessEnd
  <2>4. CASE KillProcess(c)
    <3>1. thr[c].pid \in Proc
      BY <2>4 DEF KillProcess, CalmInv, Working
    <3> QED BY <1>1, <2>4, <3>1 DEF KillProcess
  <2>5. CASE HandleSleep(c)
    <3>1. PICK q \in Proc, op \in {"SLEEP", "STDOUT"} :
             Receive(c, op, q) /\ state' = [state EXCEPT ![q] = "BLOCK"]
      BY <2>5 DEF HandleSleep
    <3>2. state[q] = "EXEC"
      BY <3>1, YieldReceived DEF AllSyscalls
    <3> QED BY <1>1, <3>1, <3>2
  <2>6. CASE \/ HandleMutexCreate(c) \/ HandleMutexUnknown(c) \/ FreeCpu(c) \/ HandleMemAlloc(c)
             \/ HandleConfirmation(c) \/ send_memory_read(c) \/ HandleMemAllocEmpty(c)
    BY <2>6 DEF HandleMutexCreate, HandleMutexUnknown, FreeCpu, HandleMemAlloc, HandleConfirmation,
       send_memory_read, HandleMemAllocEmpty
  <2>7. CASE HandleStdinEmpty(c)
    BY <1>1, <2>7 DEF HandleStdinEmpty
  <2> QED BY <1>2, <2>1, <2>2, <2>3, <2>4, <2>5, <2>6, <2>7, NoEvictionStep DEF HandlerStep
<1>3. ASSUME NEW c \in Cpu, CpuConnect(c) \/ CpuStep(c) PROVE state'[p] = "EXIT"
  BY <1>3 DEF CpuConnect, CpuStep, CpuExecute, CpuEvict, CpuSyscall
<1>4. ASSUME NEW t \in Threads, SendCheck(t) \/ SendExecute(t) PROVE state'[p] = "EXIT"
  BY <1>4 DEF SendCheck, SendExecute
<1>5. CASE StsStep
  <2>1. ASSUME NEW c \in Cpu, StsDispatch(c) PROVE state'[p] = "EXIT"
    <3>1. PICK q \in Proc : q = get_next_process_to_execute /\ state[q] = "READY"
      BY <2>1, HighestIsQueued DEF StsDispatch, get_next_process_to_execute, CalmInv, Typed, ProcsTyped
    <3>2. state' = [state EXCEPT ![q] = "EXEC"]
      BY <2>1, <3>1 DEF StsDispatch
    <3> QED BY <1>1, <3>1, <3>2
  <2> QED BY <1>5, <2>1 DEF StsStep, StsWake, StsNothingToDispatch
<1>6. CASE KmStep
  <2>1. ASSUME NEW q \in Proc, wait_process_create_confirmation(q) PROVE state'[p] = "EXIT"
    <3>1. q # p
      BY <2>1 DEF wait_process_create_confirmation, CalmInv, Origins, Awaited, Frees
    <3> QED BY <1>1, <2>1, <3>1 DEF wait_process_create_confirmation
  <2>2. CASE TerminateProcess
    <3>1. thr["KM"].pid \in Proc
      BY <2>2 DEF TerminateProcess, CalmInv, Working
    <3> QED BY <1>1, <2>2, <3>1 DEF TerminateProcess
  <2>3. ASSUME NEW q \in Proc, NEW ok \in BOOLEAN, stdout_wait_memory_read(q, ok)
        PROVE  state'[p] = "EXIT"
    BY <1>1, <2>3 DEF stdout_wait_memory_read
  <2> QED BY <1>6, <2>1, <2>2, <2>3, NoEvictionStep DEF KmStep, SegmentResult, UnlistProcess, ReleaseCpu
<1>7. ASSUME NEW q \in Proc, io_finish_process(q) PROVE state'[p] = "EXIT"
  <2>1. q # p
    BY <1>7 DEF io_finish_process
  <2> QED BY <1>1, <1>7, <2>1 DEF io_finish_process
<1>8. CASE UNCHANGED vars
  BY <1>8 DEF vars
<1> QED BY <1>2, <1>3, <1>4, <1>5, <1>6, <1>7, <1>8, NoEvictionStep DEF Next

\* ExitIsFinal with all syscalls, the failed allocation, the unknown mutex and
\* the STDOUT that cannot be read included: a device that still works for an
\* ended process is the only one to revive it.
THEOREM CalmExitTheorem ==
    ASSUME NoEvictions PROVE Spec => ExitIsFinal
<1>1. CalmInv /\ [Next]_vars => [\A p \in Proc :
                                       state[p] = "EXIT" /\ p \notin ioReq => state'[p] = "EXIT"]_vars
  BY CalmExitStep
<1> QED BY <1>1, CalmTheorem, PTL DEF Spec, ExitIsFinal
=============================================================================
