----------------------------- MODULE MemorySticks -----------------------------
(***************************************************************************)
(* The Memory Sticks: how they and the CPUs join Kernel Memory, how Kernel *)
(* Memory and the CPUs address them as one memory, and what happens when   *)
(* one disconnects.                                                        *)
(*                                                                         *)
(* Kernel Memory has one thread per Memory Stick (join) and per CPU        *)
(* (cpuAt), and one, kernel_scheduler_handler, that accesses memory; a CPU *)
(* has one thread that executes instructions.  A client waits for the      *)
(* answer to each chunk, so it has one message under way (net), which a    *)
(* thread of the Memory Stick and then the client's memory_stick_handler   *)
(* handle.  Clients access disjoint segments (SegmentMemory).              *)
(***************************************************************************)
EXTENDS Naturals, Sequences, FiniteSets, SequencesExt

CONSTANTS Stick, NoStick,
          Size,            \* [Stick -> Nat], the argument of each Memory Stick
          Cpu, KM,         \* the clients
          SegmentTable,    \* [Cpu -> SUBSET [id, base, size]], of the process it runs
          segment_max_size,
          KmRegion,        \* the addresses Kernel Memory accesses, for IO and SWAP
          MaxSize,         \* the largest access
          Byte,
          Payload,         \* [1 .. MaxSize -> SUBSET Seq(Byte)], what is written, by size
          Word,            \* 2^32: registers and sizes are smaller
          SerialJoin,      \* assumption: TRUE means that a Memory Stick or a CPU
                           \* joins only when no other is in the middle of joining
          PromptCredentials,  \* timing assumption: TRUE means that a Memory Stick
                           \* sends its ip and port before it answers Kernel Memory;
                           \* two threads of it do so, in no order
          Disconnects,     \* the Memory Sticks that may disconnect
          MaxAccesses      \* bound: [Client -> Nat], the accesses of each client

Client == Cpu \cup {KM}

ASSUME SticksAssumption ==
    /\ NoStick \notin Stick
    /\ Size \in [Stick -> Nat \ {0}]
    /\ KM \notin Cpu
    /\ \A c \in Cpu : SegmentTable[c] \subseteq [id : Nat, base : Nat, size : Nat]
    /\ segment_max_size \in Nat \ {0}
    /\ KmRegion \subseteq Nat
    /\ MaxSize \in Nat /\ Byte \subseteq Nat /\ 0 \in Byte
    /\ \A n \in 1 .. MaxSize : Payload[n] \subseteq [1 .. n -> Byte]
    \* no sum below reaches 2^32
    /\ Word \in Nat /\ segment_max_size + MaxSize <= Word
    /\ SerialJoin \in BOOLEAN /\ PromptCredentials \in BOOLEAN
    /\ Disconnects \subseteq Stick
    /\ MaxAccesses \in [Client -> Nat]

VARIABLES
    join,      \* where the thread of a Memory Stick is in Kernel Memory
    todo,      \* cpu_list_copy of update_cpu_list, the part not yet sent to
    total,     \* total_memory_size
    sticks,    \* list_memory_stick: of Kernel Memory, and of each CPU
    creds,     \* list_memory_stick_credentials
    list_cpu,
    cpuAt,     \* where a CPU and its thread in Kernel Memory are in connecting
    chan,      \* messages from Kernel Memory to a CPU
    toKs,      \* messages to the Kernel Scheduler
    alive,     \* the Memory Stick runs
    mem,       \* memory of each Memory Stick
    acc,       \* memory_read or memory_write of a client
    net,       \* its message to or from a Memory Stick
    accesses   \* accesses made so far

joining == <<join, todo, total, creds, list_cpu, cpuAt, chan, toKs>>
vars == <<joining, sticks, alive, mem, acc, net, accesses>>

NoAccess == [at |-> "idle", kind |-> "read", addr |-> 0, size |-> 0, data |-> <<>>, done |-> 0]
NoMessage == [at |-> "none", stick |-> NoStick, offset |-> 0, size |-> 0, data |-> <<>>, ok |-> TRUE]

Init ==
    /\ join = [s \in Stick |-> "off"] /\ todo = [s \in Stick |-> <<>>]
    /\ total = 0
    /\ sticks = [c \in Client |-> <<>>]
    /\ creds = <<>> /\ list_cpu = <<>>
    /\ cpuAt = [c \in Cpu |-> "off"] /\ chan = [c \in Cpu |-> <<>>]
    /\ toKs = <<>>
    /\ alive = [s \in Stick |-> TRUE]
    /\ mem = [s \in Stick |-> [i \in 0 .. Size[s] - 1 |-> 0]]
    /\ acc = [c \in Client |-> NoAccess] /\ net = [c \in Client |-> NoMessage]
    /\ accesses = [c \in Client |-> 0]

-----------------------------------------------------------------------------
(* Joining.                                                                *)

Quiet ==
    /\ \A s \in Stick : join[s] \notin {"sized", "listed", "known", "sending", "garbled"}
    /\ \A c \in Cpu : cpuAt[c] # "listed"

\* memory_stick_protocol: the size is added and announced first (MEMORY_UPDATE), ...
ReceiveSize(s) ==
    /\ join[s] = "off"
    /\ SerialJoin => Quiet
    /\ total' = total + Size[s]
    /\ toKs' = Append(toKs, "MEMORY_UPDATE")
    /\ join' = [join EXCEPT ![s] = "sized"]
    /\ UNCHANGED <<todo, creds, list_cpu, cpuAt, chan, sticks, alive, mem, acc, net, accesses>>

\* ... then the Memory Stick is listed, ...
ListStick(s) ==
    /\ join[s] = "sized"
    /\ sticks' = [sticks EXCEPT ![KM] = Append(@, s)]
    /\ join' = [join EXCEPT ![s] = "listed"]
    /\ UNCHANGED <<todo, total, creds, list_cpu, cpuAt, chan, toKs, alive, mem, acc, net, accesses>>

\* ... then its credentials, which server_setup sends, ...
ListCredentials(s) ==
    /\ join[s] = "listed"
    /\ creds' = Append(creds, s)
    /\ join' = [join EXCEPT ![s] = "known"]
    /\ UNCHANGED <<todo, total, list_cpu, cpuAt, chan, toKs, sticks, alive, mem, acc, net, accesses>>

\* ... and the CPUs listed at that moment are told one by one.
update_cpu_list(s) ==
    /\ join[s] = "known"
    /\ todo' = [todo EXCEPT ![s] = list_cpu]
    /\ join' = [join EXCEPT ![s] = "sending"]
    /\ UNCHANGED <<total, creds, list_cpu, cpuAt, chan, toKs, sticks, alive, mem, acc, net, accesses>>

send_credentials(s) ==
    /\ join[s] = "sending"
    /\ IF todo[s] = <<>>
       THEN join' = [join EXCEPT ![s] = "joined"] /\ UNCHANGED <<todo, chan>>
       ELSE /\ chan' = [chan EXCEPT ![Head(todo[s])] =
                          Append(@, [op |-> "CREDENTIALS_UPDATE", list |-> <<s>>])]
            /\ todo' = [todo EXCEPT ![s] = Tail(@)]
            /\ UNCHANGED join
    /\ UNCHANGED <<total, creds, list_cpu, cpuAt, toKs, sticks, alive, mem, acc, net, accesses>>

\* MODULE_CPU in handle_module: list_cpu first, ...
ListCpu(c) ==
    /\ cpuAt[c] = "off"
    /\ SerialJoin => Quiet
    /\ list_cpu' = Append(list_cpu, c)
    /\ cpuAt' = [cpuAt EXCEPT ![c] = "listed"]
    /\ UNCHANGED <<join, todo, total, creds, chan, toKs, sticks, alive, mem, acc, net, accesses>>

\* ... then the credentials known so far.
send_credentials_list(c) ==
    /\ cpuAt[c] = "listed"
    /\ chan' = [chan EXCEPT ![c] = Append(@, [op |-> "PACKAGE", list |-> creds])]
    /\ cpuAt' = [cpuAt EXCEPT ![c] = "starting"]
    /\ UNCHANGED <<join, todo, total, creds, list_cpu, toKs, sticks, alive, mem, acc, net, accesses>>

\* connect_with_memory_stick, for each of a list, in order; a Memory Stick that
\* has gone does not answer: an update is then dropped, a CPU that starts fails.
connect_kernel_memory(c) ==
    LET m == Head(chan[c])
        starts == m.op = "PACKAGE" /\ \A i \in DOMAIN m.list : alive[m.list[i]]
    IN  /\ cpuAt[c] \in {"listed", "starting"} /\ chan[c] # <<>>
        /\ cpuAt' = [cpuAt EXCEPT ![c] = IF starts THEN "connected" ELSE "failed"]
        /\ sticks' = [sticks EXCEPT ![c] = IF starts THEN m.list ELSE @]
        /\ chan' = [chan EXCEPT ![c] = Tail(@)]
        /\ UNCHANGED <<join, todo, total, creds, list_cpu, toKs, alive, mem, acc, net, accesses>>

\* Fault: the new Memory Stick goes to the front of the list.
ReceiveUpdate_Front(c) ==
    LET s == Head(Head(chan[c]).list)
    IN  /\ cpuAt[c] = "connected" /\ chan[c] # <<>>
        /\ sticks' = [sticks EXCEPT ![c] = IF alive[s] THEN <<s>> \o @ ELSE @]
        /\ chan' = [chan EXCEPT ![c] = Tail(@)]
        /\ UNCHANGED <<join, todo, total, creds, list_cpu, cpuAt, toKs, alive, mem, acc, net, accesses>>

\* CREDENTIALS_UPDATE in kernel_memory_handler of the CPU.
ReceiveUpdate(c) ==
    LET s == Head(Head(chan[c]).list)
    IN  /\ cpuAt[c] = "connected" /\ chan[c] # <<>>
        /\ sticks' = [sticks EXCEPT ![c] = IF alive[s] THEN Append(@, s) ELSE @]
        /\ chan' = [chan EXCEPT ![c] = Tail(@)]
        /\ UNCHANGED <<join, todo, total, creds, list_cpu, cpuAt, toKs, alive, mem, acc, net, accesses>>

-----------------------------------------------------------------------------
(* Addresses.                                                              *)

\* cursor: the address at which the i-th Memory Stick of a list begins.
cursor(q) ==
    LET f[i \in 1 .. Len(q) + 1] == IF i = 1 THEN 0 ELSE f[i - 1] + Size[q[i - 1]]
    IN  f
Capacity(q) == cursor(q)[Len(q) + 1]

\* The first Memory Stick of the list that ends after a.
get_memory_stick_by_address(q, a) ==
    LET start == cursor(q)
        after == {i \in DOMAIN q : a < start[i] + Size[q[i]]}
        i == CHOOSE i \in after : \A j \in after : i <= j
    IN  IF after = {} THEN [stick |-> NoStick, offset |-> 0]
        ELSE [stick |-> q[i], offset |-> a - start[i]]

Fault == Word
\* The physical address, or SEGMENTATION_FAULT.
mmu_translate(table, logical_address, size) ==
    LET num_segment == logical_address \div segment_max_size
        seg_offset == logical_address % segment_max_size
        found == {g \in table : g.id = num_segment}
        segment == CHOOSE g \in found : TRUE
    IN  IF found = {} \/ (seg_offset + size) % Word > segment.size THEN Fault
        ELSE segment.base + seg_offset

-----------------------------------------------------------------------------
(* Accesses.                                                               *)

Request(kind, addr, size, data) ==
    [at |-> "active", kind |-> kind, addr |-> addr, size |-> size, data |-> data, done |-> 0]

Begin(c, addr, size) ==
    /\ accesses[c] < MaxAccesses[c]
    /\ acc[c].at # "active"
    /\ \/ acc' = [acc EXCEPT ![c] = Request("read", addr, size, <<>>)]
       \/ \E data \in Payload[size] :
             acc' = [acc EXCEPT ![c] = Request("write", addr, size, data)]
    /\ accesses' = [accesses EXCEPT ![c] = @ + 1]
    /\ UNCHANGED <<joining, sticks, alive, mem, net>>

\* MOV_IN, MOV_OUT and either half of COPY_MEM.
CpuBegin(c) ==
    /\ cpuAt[c] = "connected"
    /\ \E g \in SegmentTable[c], offset \in 0 .. segment_max_size - 1, size \in 1 .. MaxSize :
          LET addr == mmu_translate(SegmentTable[c], g.id * segment_max_size + offset, size)
          IN  addr # Fault /\ Begin(c, addr, size)

\* Kernel Memory for IO, compaction and SWAP.
KmBegin ==
    \E addr \in KmRegion, size \in 1 .. MaxSize :
        addr .. addr + size - 1 \subseteq KmRegion /\ Begin(KM, addr, size)

Finish(c, how) == acc' = [acc EXCEPT ![c].at = how]

ChunkSize(remaining, available_in_stick) ==
    IF remaining < available_in_stick THEN remaining ELSE available_in_stick

\* Fault: every chunk is taken from the beginning of the data.
ChunkData_First(a, chunk) == IF a.kind = "read" THEN <<>> ELSE SubSeq(a.data, 1, chunk)

\* data + bytes_done
ChunkData(a, chunk) == IF a.kind = "read" THEN <<>> ELSE SubSeq(a.data, a.done + 1, a.done + chunk)

\* One turn of the loop of memory_read or memory_write, up to its sem_wait.
NextChunk(c) ==
    LET a == acc[c]
        ms == get_memory_stick_by_address(sticks[c], a.addr + a.done)
        chunk == ChunkSize(a.size - a.done, Size[ms.stick] - ms.offset)
    IN  /\ a.at = "active" /\ net[c] = NoMessage
        /\ IF a.done = a.size THEN Finish(c, "done") /\ UNCHANGED net
           ELSE IF ms.stick = NoStick THEN Finish(c, "failed") /\ UNCHANGED net
           ELSE /\ net' = [net EXCEPT ![c] = [at |-> IF alive[ms.stick] THEN "request" ELSE "lost",
                                              stick |-> ms.stick, offset |-> ms.offset,
                                              size |-> chunk, data |-> ChunkData(a, chunk), ok |-> TRUE]]
                /\ UNCHANGED acc
        /\ UNCHANGED <<joining, sticks, alive, mem, accesses>>

\* Fault: the last byte is out of range.
InRange_Strict(m) == (m.offset + m.size) % Word < Size[m.stick]

\* Out of range, handle_write refuses and handle_read does not answer.
InRange(m) == (m.offset + m.size) % Word <= Size[m.stick]

handle_write(c) ==
    LET m == net[c]
    IN  /\ m.at = "request" /\ acc[c].kind = "write"
        /\ mem' = [mem EXCEPT ![m.stick] = [i \in DOMAIN @ |->
                     IF InRange(m) /\ i \in m.offset .. m.offset + m.size - 1
                     THEN m.data[i - m.offset + 1] ELSE @[i]]]
        /\ net' = [net EXCEPT ![c] = [m EXCEPT !.at = "response", !.ok = InRange(m), !.data = <<>>]]
        /\ UNCHANGED <<joining, sticks, alive, acc, accesses>>

handle_read(c) ==
    LET m == net[c]
    IN  /\ m.at = "request" /\ acc[c].kind = "read"
        /\ net' = [net EXCEPT ![c] =
                     IF InRange(m)
                     THEN [m EXCEPT !.at = "response",
                                    !.data = [i \in 1 .. m.size |-> mem[m.stick][m.offset + i - 1]]]
                     ELSE [m EXCEPT !.at = "lost"]]
        /\ UNCHANGED <<joining, sticks, alive, mem, acc, accesses>>

\* When a thread of Kernel Memory reads from a Memory Stick: when it has joined, or
\* while memory_stick_protocol waits for the ip and the port, ahead of which an
\* answer may arrive; later ones wait.
Reads == {"joined"} \cup (IF PromptCredentials THEN {} ELSE {"listed"})

\* memory_stick_handler of Kernel Memory: last_op_result or last_read_buffer, and
\* sem_post, if the Memory Stick is still listed.  memory_stick_protocol takes an
\* answer for the ip or the port, and is out of step from then on.
KmResponse ==
    LET s == net[KM].stick
    IN  /\ net[KM].at = "response"
        /\ join[s] \in Reads
        /\ net' = [net EXCEPT ![KM].at = IF join[s] = "joined" /\ s \in Range(sticks[KM])
                                         THEN "posted" ELSE "lost"]
        /\ join' = [join EXCEPT ![s] = IF @ = "joined" THEN @ ELSE "garbled"]
        /\ UNCHANGED <<todo, total, creds, list_cpu, cpuAt, chan, toKs, sticks, alive, mem, acc, accesses>>

\* memory_stick_handler of the CPU.
CpuResponse(c) ==
    /\ net[c].at = "response"
    /\ net' = [net EXCEPT ![c].at = "posted"]
    /\ UNCHANGED <<joining, sticks, alive, mem, acc, accesses>>

\* Fault: the answer is not consumed.
TakeResponse_Kept(c) ==
    LET m == net[c]
    IN  /\ m.at = "posted"
        /\ IF m.ok
           THEN acc' = [acc EXCEPT ![c].done = @ + m.size, ![c].data = @ \o m.data]
           ELSE Finish(c, "failed")
        /\ UNCHANGED <<joining, sticks, alive, mem, net, accesses>>

\* After sem_wait: the chunk counts, or the access fails.
TakeResponse(c) ==
    LET m == net[c]
    IN  /\ m.at = "posted"
        /\ IF m.ok
           THEN acc' = [acc EXCEPT ![c].done = @ + m.size, ![c].data = @ \o m.data]
           ELSE Finish(c, "failed")
        /\ net' = [net EXCEPT ![c] = NoMessage]
        /\ UNCHANGED <<joining, sticks, alive, mem, accesses>>

-----------------------------------------------------------------------------
(* Disconnection.                                                          *)

StickStops(s) ==
    /\ s \in Disconnects /\ alive[s] /\ join[s] = "joined"
    /\ alive' = [alive EXCEPT ![s] = FALSE]
    /\ net' = [c \in Client |-> IF net[c].at = "request" /\ net[c].stick = s
                                THEN [net[c] EXCEPT !.at = "lost"] ELSE net[c]]
    /\ UNCHANGED <<joining, sticks, mem, acc, accesses>>

\* op = -1 in memory_stick_handler of Kernel Memory, after the answers before it:
\* the Memory Stick leaves the list, ...
KmLosesStick(s) ==
    /\ ~alive[s] /\ join[s] = "joined"
    /\ ~(net[KM].at = "response" /\ net[KM].stick = s)
    /\ sticks' = [sticks EXCEPT ![KM] = RemoveFirst(@, s)]
    /\ join' = [join EXCEPT ![s] = "lost"]
    /\ UNCHANGED <<todo, total, creds, list_cpu, cpuAt, chan, toKs, alive, mem, acc, net, accesses>>

\* ... then the total is corrected and the scheduler told of CORRUPTED_MEMORY.
ReportCorruption(s) ==
    /\ join[s] = "lost"
    /\ total' = IF total >= Size[s] THEN total - Size[s] ELSE total
    /\ toKs' = Append(toKs, "CORRUPTED_MEMORY")
    /\ creds' = RemoveFirst(creds, s)
    /\ join' = [join EXCEPT ![s] = "gone"]
    /\ UNCHANGED <<todo, list_cpu, cpuAt, chan, sticks, alive, mem, acc, net, accesses>>

\* op = -1 in memory_stick_handler of the CPU.
CpuLosesStick(c, s) ==
    /\ ~alive[s] /\ s \in Range(sticks[c])
    /\ ~(net[c].at = "response" /\ net[c].stick = s)
    /\ sticks' = [sticks EXCEPT ![c] = RemoveFirst(@, s)]
    /\ UNCHANGED <<joining, alive, mem, acc, net, accesses>>

-----------------------------------------------------------------------------
join_goes_on(s) == ListStick(s) \/ ListCredentials(s) \/ update_cpu_list(s) \/ send_credentials(s)
memory_stick_protocol(s) == ReceiveSize(s) \/ join_goes_on(s)

memory_access(c) == NextChunk(c) \/ TakeResponse(c)

Next ==
    \/ \E s \in Stick : memory_stick_protocol(s) \/ StickStops(s) \/ KmLosesStick(s) \/ ReportCorruption(s)
    \/ \E c \in Cpu : ListCpu(c) \/ send_credentials_list(c) \/ connect_kernel_memory(c) \/ ReceiveUpdate(c)
                      \/ CpuBegin(c) \/ CpuResponse(c) \/ \E s \in Stick : CpuLosesStick(c, s)
    \/ KmBegin \/ KmResponse
    \/ \E c \in Client : memory_access(c) \/ handle_read(c) \/ handle_write(c)

Spec == Init /\ [][Next]_vars

\* The threads of clients and Memory Sticks run, and who has begun to join goes on.
FairSpec ==
    /\ Spec
    /\ \A s \in Stick : WF_vars(join_goes_on(s))
    /\ \A c \in Client : WF_vars(memory_access(c)) /\ WF_vars(handle_read(c) \/ handle_write(c))
    /\ \A c \in Cpu : WF_vars(CpuResponse(c))
    /\ WF_vars(KmResponse)

-----------------------------------------------------------------------------
(* Properties.                                                             *)

AccessRecords ==
    [at : {"idle", "active", "done", "failed"}, kind : {"read", "write"}, addr : Nat, size : Nat,
     data : Seq(Byte), done : Nat]

\* Types; no access transfers more than it was asked to, and a message is for a
\* Memory Stick that its client knows.
TypeOK ==
    /\ join \in [Stick -> {"off", "sized", "listed", "known", "sending", "garbled", "joined", "lost", "gone"}]
    /\ todo \in [Stick -> Seq(Cpu)]
    /\ total \in Nat
    /\ sticks \in [Client -> Seq(Stick)] /\ creds \in Seq(Stick) /\ list_cpu \in Seq(Cpu)
    /\ cpuAt \in [Cpu -> {"off", "listed", "starting", "connected", "failed"}]
    /\ chan \in [Cpu -> Seq([op : {"PACKAGE", "CREDENTIALS_UPDATE"}, list : Seq(Stick)])]
    /\ toKs \in Seq({"MEMORY_UPDATE", "CORRUPTED_MEMORY"})
    /\ alive \in [Stick -> BOOLEAN]
    /\ \A s \in Stick : mem[s] \in [0 .. Size[s] - 1 -> Byte]
    /\ acc \in [Client -> AccessRecords]
    /\ net \in [Client -> [at : {"none", "request", "response", "posted", "lost"},
                           stick : Stick \cup {NoStick}, offset : Nat, size : Nat,
                           data : Seq(Byte), ok : BOOLEAN]]
    /\ \A c \in Client : acc[c].done <= acc[c].size
    /\ \A c \in Client : net[c].at = "request" => net[c].stick \in Range(sticks[c])
    /\ accesses \in [Client -> Nat]

corrupted == \E s \in Stick : ~alive[s]

Prefix(q, r) == Len(q) <= Len(r) /\ \A i \in DOMAIN q : q[i] = r[i]

\* memory_stick_protocol lists, announces and forwards a new Memory Stick in steps
\* under different mutexes, and a CPU learns of it later.  Still the list by which a
\* CPU resolves addresses is a prefix of the one by which Kernel Memory gave them out,
\* what it has been sent continues that prefix, and total_memory_size covers the list.
AddressMapsAgree ==
    ~corrupted =>
        /\ \A c \in Cpu : Prefix(sticks[c], sticks[KM])
        /\ \A c \in Cpu : cpuAt[c] = "connected" /\ Quiet =>
              Len(sticks[c]) + Len(chan[c]) = Len(sticks[KM])
        /\ total >= Capacity(sticks[KM])
        /\ Quiet => total = Capacity(sticks[KM])

\* The refinement mapping: the Memory Sticks in the order of Kernel Memory's list
\* are one memory; a chunk is done when the Memory Stick has handled it.
FlatBytes ==
    [i \in 1 .. Capacity(sticks[KM]) |->
        LET ms == get_memory_stick_by_address(sticks[KM], i - 1) IN mem[ms.stick][ms.offset]]

FlatOp(c) ==
    IF net[c].at \in {"response", "posted"} /\ net[c].ok
    THEN [acc[c] EXCEPT !.done = @ + net[c].size, !.data = @ \o net[c].data]
    ELSE acc[c]

FlatAccess(c) ==
    LET ranges == IF c = KM THEN {r \in KmRegion \X (1 .. MaxSize) : r[1] .. r[1] + r[2] - 1 \subseteq KmRegion}
                  ELSE UNION {{r \in (g.base .. g.base + g.size - 1) \X (1 .. MaxSize) :
                                  r[1] + r[2] <= g.base + g.size} : g \in SegmentTable[c]}
    IN  UNION {{Request("read", r[1], r[2], <<>>)}
               \cup {Request("write", r[1], r[2], data) : data \in Payload[r[2]]} : r \in ranges}

Flat == INSTANCE FlatMemory WITH
            Client <- Client, Grain <- {Size[s] : s \in Stick}, Access <- FlatAccess,
            bytes <- FlatBytes,
            visible <- [c \in Client |-> Capacity(sticks[c])],
            op <- [c \in Client |-> FlatOp(c)],
            corrupted <- corrupted

\* mmu_translate, memory_read, memory_write, handle_read, handle_write: until a Memory
\* Stick is lost, accesses that are cut at the ends of Memory Sticks, sent piece by
\* piece and interleaved with those of other clients and with new Memory Sticks
\* read and write exactly the bytes of one memory that they should, a CPU only
\* those of its process's segments, and an access fails only for lack of memory.
ImplementsFlat == Flat!Spec

\* Every access ends, also one to a Memory Stick that is still joining: no handler
\* drops an answer and the chunks always advance, as long as no Memory Stick is lost
\* (a client then waits for ever).
AccessEnds == \A c \in Client : acc[c].at = "active" ~> (acc[c].at # "active" \/ corrupted)
===============================================================================
