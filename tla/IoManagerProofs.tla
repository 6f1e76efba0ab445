--------------------------- MODULE IoManagerProofs ---------------------------
(***************************************************************************)
(* No device stands idle while a request for its type is pending; every    *)
(* request of a process is in one place; and the states, the lists and the *)
(* messages with which the medium-term scheduler suspends processes and    *)
(* takes them back fit together: proved for any processes, devices,        *)
(* programs and bounds.                                                    *)
(*                                                                         *)
(* NoIdleWhilePending: a request becomes pending only when                 *)
(* get_available_io_type finds no device, so the proof needs that every    *)
(* device whose handler serves is in the list that is searched; and a      *)
(* handler that goes back to receiving must either have found nothing      *)
(* pending or have taken itself before.                                    *)
(*                                                                         *)
(* IndInv: requests are counted wherever a thread, a list or a message may *)
(* hold one, and a step takes a request from one place to another.  A      *)
(* process is followed from its SWAP_OUT over suspended_processes to its   *)
(* SWAP_IN in the same way.  What makes it inductive is AskedInv: several  *)
(* SWAP_IN may name one process, but none is behind a SWAP_OUT of it, so   *)
(* one that finds it in SWAP was sent after that SWAP_OUT was confirmed.   *)
(***************************************************************************)
EXTENDS IoManager, ListProofs, FiniteSetTheorems, TLAPS

Serving == {"next", "send", "recv", "free"}

\* The parts of the state the argument is about have their types.
Shape ==
    /\ list \in [IoTypes -> Seq(Device)]
    /\ avail \in [Device -> BOOLEAN]
    /\ pend = [t \in IoTypes |-> pend[t]]
    /\ hpc = [d \in Device |-> hpc[d]]
    /\ \A p \in Proc : sysc[p].type \in IoTypes
    /\ sysc = [p \in Proc |-> sysc[p]]

\* A device whose handler serves is listed.
Listed == \A d \in Device : hpc[d].at \in Serving => d \in Range(list[Type[d]])

\* A handler that sends a pending request has taken its device.
SendingIsTaken == \A d \in Device : hpc[d].at = "send" => ~avail[d]

IInv == Shape /\ Listed /\ SendingIsTaken /\ NoIdleWhilePending

-----------------------------------------------------------------------------
\* A non-empty set of positions has a first one.
LEMMA FirstExists ==
    ASSUME NEW S \in SUBSET Nat, S # {}
    PROVE  FirstIn(S) \in S
<1>4. \E i \in S : \A j \in S : i <= j
  BY LeastNat
<1> QED BY <1>4, Zenon DEF FirstIn

-----------------------------------------------------------------------------
\* What the handlers of requests change together.
handled == <<list, avail, pend, hpc>>

\* A step that leaves devices and pending requests alone keeps the invariant.
LEMMA Frame ==
    ASSUME IInv, UNCHANGED handled, UNCHANGED sysc
    PROVE  IInv'
BY DEF IInv, Shape, Listed, SendingIsTaken, NoIdleWhilePending, handled, Range

\* So does a system call that goes on to its next point, of a known type.
LEMMA CallMoves ==
    ASSUME IInv, UNCHANGED handled,
           NEW p \in Proc, NEW call, call.type \in IoTypes, sysc' = [sysc EXCEPT ![p] = call]
    PROVE  IInv'
<1>1. Shape' /\ UNCHANGED handled
  BY DEF IInv, Shape, handled
<1> QED BY <1>1 DEF IInv, Listed, SendingIsTaken, NoIdleWhilePending, handled, Range

\* Taking a device: pending grows only when no device that serves is available.
LEMMA TakeDeviceKeeps ==
    ASSUME IInv, NEW p, NEW t \in IoTypes, TakeDevice(p, t), UNCHANGED <<list, hpc>>,
           sysc' = [q \in Proc |-> sysc'[q]], \A q \in Proc : sysc'[q].type \in IoTypes
    PROVE  IInv'
<1> USE IoAssumption
<1> DEFINE d == get_available_io_type(t)
<1>1. CASE d = NoDevice
  <2>1. pend' = [pend EXCEPT ![t] = Append(@, p)] /\ UNCHANGED avail
    BY <1>1 DEF TakeDevice
  <2>2. \A i \in DOMAIN list[t] : ~avail[list[t][i]]
    <3> SUFFICES ASSUME NEW i \in DOMAIN list[t], avail[list[t][i]]
                 PROVE  FALSE
      OBVIOUS
    <3> DEFINE free == {k \in DOMAIN list[t] : avail[list[t][k]]}
    <3>1. list[t] \in Seq(Device)
      BY DEF IInv, Shape
    <3>2. free # {} /\ free \in SUBSET Nat /\ free \subseteq DOMAIN list[t]
      BY <3>1
    <3>3. FirstIn(free) \in free
      BY <3>2, FirstExists
    <3>4. list[t][FirstIn(free)] \in Device
      <4> DEFINE i0 == FirstIn(free)
      <4>1. i0 \in DOMAIN list[t]
        BY <3>2, <3>3
      <4> HIDE DEF i0
      <4>2. list[t][i0] \in Device
        BY <4>1, <3>1
      <4> QED BY <4>2 DEF i0
    <3>5. d = list[t][FirstIn(free)]
      BY <3>2 DEF get_available_io_type
    <3> QED BY <3>4, <3>5, <1>1
  <2>3. \A e \in Device : Type[e] = t /\ hpc[e].at = "recv" => ~avail[e]
    BY <2>2 DEF IInv, Listed, Serving, Range
  <2>4. Shape'
    BY <2>1 DEF IInv, Shape
  <2>5. Listed' /\ SendingIsTaken'
    BY <2>1 DEF IInv, Listed, SendingIsTaken, Range
  <2>6. NoIdleWhilePending'
    BY <2>1, <2>3 DEF IInv, Shape, NoIdleWhilePending, IoTypes
  <2> QED BY <2>4, <2>5, <2>6 DEF IInv
<1>2. CASE d # NoDevice
  <2>1. avail' = [avail EXCEPT ![d] = FALSE] /\ UNCHANGED pend
    BY <1>2 DEF TakeDevice
  <2> HIDE DEF d
  <2>2. \A e \in Device : avail'[e] => avail[e]
    BY <2>1 DEF IInv, Shape
  <2>3. Shape'
    BY <2>1 DEF IInv, Shape
  <2>4. Listed'
    BY DEF IInv, Listed, Range
  <2>5. SendingIsTaken'
    BY <2>2 DEF IInv, SendingIsTaken
  <2>6. NoIdleWhilePending'
    BY <2>1, <2>2 DEF IInv, NoIdleWhilePending
  <2> QED BY <2>3, <2>4, <2>5, <2>6 DEF IInv
<1> QED BY <1>1, <1>2

\* A handler that serves goes on to another point: to "send" with its device taken,
\* to "recv" with its device taken or nothing pending.
LEMMA HandlerMoves ==
    ASSUME IInv, UNCHANGED <<list, sysc>>,
           NEW d \in Device, NEW new, hpc' = [hpc EXCEPT ![d] = new],
           hpc[d].at \in Serving, new.at \in Serving,
           avail' \in [Device -> BOOLEAN], \A e \in Device : e # d => avail'[e] = avail[e],
           pend' = [t \in IoTypes |-> pend'[t]],
           \A t \in IoTypes : pend'[t] # <<>> => pend[t] # <<>>,
           new.at = "send" => ~avail'[d],
           new.at = "recv" => pend'[Type[d]] = <<>> \/ ~avail'[d]
    PROVE  IInv'
<1> USE IoAssumption
<1>1. \A e \in Device : hpc'[e] = IF e = d THEN new ELSE hpc[e]
  BY DEF IInv, Shape
<1>2. Shape'
  <2>1. hpc' = [e \in Device |-> hpc'[e]]
    BY DEF IInv, Shape
  <2> QED BY <2>1 DEF IInv, Shape
<1>3. Listed'
  BY <1>1 DEF IInv, Listed
<1>4. SendingIsTaken'
  <2> SUFFICES ASSUME NEW e \in Device, hpc'[e].at = "send"
               PROVE  ~avail'[e]
    BY DEF SendingIsTaken
  <2>1. CASE e = d
    BY <1>1, <2>1
  <2>2. CASE e # d
    BY <1>1, <2>2 DEF IInv, SendingIsTaken
  <2> QED BY <2>1, <2>2
<1>5. NoIdleWhilePending'
  BY <1>1 DEF IInv, NoIdleWhilePending
<1> QED BY <1>2, <1>3, <1>4, <1>5 DEF IInv

-----------------------------------------------------------------------------
\* Nothing is pending at first, and each fixed device is the one listed of its type.
LEMMA InitInv == Init => IInv
<1> SUFFICES ASSUME Init PROVE IInv
  OBVIOUS
<1> USE IoAssumption DEF Init
<1>1. Shape
  <2>1. list \in [IoTypes -> Seq(Device)]
    <3> SUFFICES ASSUME NEW t \in IoTypes
                 PROVE  (IF \E d \in Fixed : Type[d] = t
                         THEN <<CHOOSE d \in Fixed : Type[d] = t>> ELSE <<>>) \in Seq(Device)
      OBVIOUS
    <3> QED OBVIOUS
  <2> QED BY <2>1 DEF Shape, NoCall, IoTypes
<1>2. Listed
  <2> SUFFICES ASSUME NEW d \in Device, hpc[d].at \in Serving
               PROVE  d \in Range(list[Type[d]])
    BY DEF Listed
  <2>1. d \in Fixed
    BY DEF At, Serving
  <2>2. Type[d] \in IoTypes /\ (CHOOSE e \in Fixed : Type[e] = Type[d]) = d
    BY <2>1
  <2>3. list[Type[d]] = <<d>>
    BY <2>1, <2>2
  <2>4. 1 \in DOMAIN list[Type[d]] /\ list[Type[d]][1] = d
    <3> HIDE DEF Init
    <3> QED BY <2>3
  <2> HIDE DEF Init
  <2> QED BY <2>4 DEF Range
<1>3. SendingIsTaken
  BY DEF SendingIsTaken, At
<1>4. NoIdleWhilePending
  BY DEF NoIdleWhilePending
<1> QED BY <1>1, <1>2, <1>3, <1>4 DEF IInv

\* Every step keeps the invariant: one case for each action that touches the
\* devices, their lists or the pending requests, the rest by Frame.
LEMMA NextInv == IInv /\ [Next]_vars => IInv'
<1> SUFFICES ASSUME IInv, [Next]_vars PROVE IInv'
  OBVIOUS
<1> USE IoAssumption
<1> USE DEF handled
<1>1. ASSUME NEW p \in Proc, CpuHandler(p) PROVE IInv'
  <2>1. CASE sleep_syscall_manager(p)
    <3> DEFINE call == [at |-> "assign", type |-> "SLEEP", dev |-> NoDevice]
    <3>1. UNCHANGED handled /\ sysc' = [sysc EXCEPT ![p] = call] /\ call.type \in IoTypes
      BY <2>1 DEF sleep_syscall_manager, Block, devices, IoTypes
    <3> HIDE DEF call
    <3> QED BY <3>1, CallMoves
  <2>2. CASE stdin_syscall_manager(p)
    <3> DEFINE call == [at |-> "assign", type |-> "STDIN", dev |-> NoDevice]
    <3>1. UNCHANGED handled /\ (UNCHANGED sysc \/ sysc' = [sysc EXCEPT ![p] = call]) /\ call.type \in IoTypes
      BY <2>2 DEF stdin_syscall_manager, Block, devices, IoTypes
    <3> HIDE DEF call
    <3> QED BY <3>1, CallMoves, Frame
  <2>3. CASE stdout_syscall_manager(p)
    <3> DEFINE call == [at |-> "read", type |-> "STDOUT", dev |-> NoDevice]
    <3>1. UNCHANGED handled /\ sysc' = [sysc EXCEPT ![p] = call] /\ call.type \in IoTypes
      BY <2>3 DEF stdout_syscall_manager, Block, devices, IoTypes
    <3> HIDE DEF call
    <3> QED BY <3>1, CallMoves
  <2>4. CASE SendMemoryRead(p) \/ SendToDevice(p)
    <3>1. UNCHANGED handled /\ sysc' = [sysc EXCEPT ![p] = NoCall] /\ NoCall.type \in IoTypes
      BY <2>4 DEF SendMemoryRead, SendToDevice, devices, NoCall, IoTypes
    <3> QED BY <3>1, CallMoves
  <2>5. CASE AssignDevice(p)
    <3> DEFINE t == sysc[p].type
               call == IF get_available_io_type(t) = NoDevice THEN NoCall
                       ELSE [at |-> "send", type |-> t, dev |-> get_available_io_type(t)]
    <3>1. t \in IoTypes
      BY DEF IInv, Shape
    <3>2. TakeDevice(p, t) /\ UNCHANGED <<list, hpc>> /\ sysc' = [sysc EXCEPT ![p] = call]
      BY <2>5, Zenon DEF AssignDevice, devices
    <3>3. call.type \in IoTypes
      BY <3>1 DEF NoCall, IoTypes
    <3> HIDE DEF t, call
    <3>4. sysc' = [q \in Proc |-> sysc'[q]] /\ \A q \in Proc : sysc'[q].type \in IoTypes
      BY <3>2, <3>3 DEF IInv, Shape
    <3> QED BY <3>1, <3>2, <3>4, TakeDeviceKeeps
  <2> QED BY <1>1, <2>1, <2>2, <2>3, <2>4, <2>5 DEF CpuHandler
<1>2. ASSUME NEW d \in Device, Connect(d) PROVE IInv'
  <2>1. Type[d] \in IoTypes /\ list[Type[d]] \in Seq(Device)
    BY DEF IInv, Shape
  <2>2. /\ list' = [list EXCEPT ![Type[d]] = Append(list[Type[d]], d)]
        /\ avail' = [avail EXCEPT ![d] = TRUE]
        /\ hpc' = [hpc EXCEPT ![d] = At("next")] /\ At("next").at = "next"
        /\ UNCHANGED <<pend, sysc>>
    BY <1>2 DEF Connect, At
  <2>3. \A e \in Device : hpc'[e] = IF e = d THEN At("next") ELSE hpc[e]
    BY <2>2 DEF IInv, Shape
  <2>4. Shape'
    <3>1. hpc' = [e \in Device |-> hpc'[e]]
      BY <2>2 DEF IInv, Shape
    <3>2. list' \in [IoTypes -> Seq(Device)]
      BY <2>1, <2>2 DEF IInv, Shape
    <3> QED BY <2>2, <3>1, <3>2 DEF IInv, Shape
  <2>5. \A t \in IoTypes : Range(list[t]) \subseteq Range(list'[t])
    <3> SUFFICES ASSUME NEW t \in IoTypes, NEW i \in DOMAIN list[t]
                 PROVE  \E j \in DOMAIN list'[t] : list'[t][j] = list[t][i]
      BY DEF Range
    <3>1. list[t] \in Seq(Device) /\ list'[t] = IF t = Type[d] THEN Append(list[t], d) ELSE list[t]
      BY <2>2 DEF IInv, Shape
    <3>2. i \in DOMAIN list'[t] /\ list'[t][i] = list[t][i]
      BY <3>1
    <3> QED BY <3>2
  <2>6. d \in Range(list'[Type[d]])
    <3>1. list'[Type[d]] = Append(list[Type[d]], d)
      BY <2>1, <2>2 DEF IInv, Shape
    <3>2. Len(list[Type[d]]) + 1 \in DOMAIN list'[Type[d]] /\ list'[Type[d]][Len(list[Type[d]]) + 1] = d
      BY <3>1, <2>1
    <3> QED BY <3>2 DEF Range
  <2>7. Listed'
    BY <2>3, <2>5, <2>6 DEF IInv, Listed
  <2>8. SendingIsTaken' /\ NoIdleWhilePending'
    BY <2>2, <2>3 DEF IInv, Shape, SendingIsTaken, NoIdleWhilePending
  <2> QED BY <2>4, <2>7, <2>8 DEF IInv
<1>3. ASSUME NEW d \in Device, LoseDevice(d) PROVE IInv'
  <2> USE <1>3 DEF LoseDevice, At
  <2>1. Type[d] \in IoTypes /\ list[Type[d]] \in Seq(Device)
    BY DEF IInv, Shape
  <2>2. /\ RemoveFirst(list[Type[d]], d) \in Seq(Device)
        /\ \A e \in Range(list[Type[d]]) : e # d => e \in Range(RemoveFirst(list[Type[d]], d))
    BY <2>1, RemoveFirstOthers
  <2>3. Shape'
    BY <2>1, <2>2 DEF IInv, Shape
  <2>4. \A t \in IoTypes : list'[t] = IF t = Type[d] THEN RemoveFirst(list[t], d) ELSE list[t]
    BY <2>1 DEF IInv, Shape
  <2>5. Listed'
    BY <2>2, <2>4 DEF IInv, Shape, Listed, Serving
  <2>6. SendingIsTaken' /\ NoIdleWhilePending'
    BY DEF IInv, Shape, SendingIsTaken, NoIdleWhilePending
  <2> QED BY <2>3, <2>5, <2>6 DEF IInv
<1>4. ASSUME NEW d \in Device, io_finish_process(d) PROVE IInv'
  <2>1. /\ UNCHANGED <<list, avail, pend, sysc>> /\ hpc[d].at = "recv"
        /\ hpc' = [hpc EXCEPT ![d] = At("free")] /\ At("free").at = "free"
    BY <1>4 DEF io_finish_process, At
  <2> QED BY <2>1, HandlerMoves DEF Serving, IInv, Shape
<1>5. ASSUME NEW d \in Device, StdinAnswer(d) PROVE IInv'
  <2> DEFINE p == Head(outbox[d])
  <2>1. /\ UNCHANGED <<list, avail, pend, sysc>> /\ hpc[d].at = "recv"
        /\ UNCHANGED hpc \/ hpc' = [hpc EXCEPT ![d] = For("free", p)]
        /\ For("free", p).at = "free"
    BY <1>5 DEF StdinAnswer, For
  <2> HIDE DEF p
  <2> QED BY <2>1, HandlerMoves, Frame DEF Serving, IInv, Shape
<1>6. ASSUME NEW d \in Device, SetAvailable(d) PROVE IInv'
  <2>1. /\ UNCHANGED <<list, pend, sysc>> /\ hpc[d].at = "free"
        /\ hpc' = [hpc EXCEPT ![d] = At("next")] /\ At("next").at = "next"
        /\ avail' = [avail EXCEPT ![d] = TRUE]
    BY <1>6 DEF SetAvailable, At
  <2> QED BY <2>1, HandlerMoves DEF Serving, IInv, Shape
<1>7. ASSUME NEW d \in Device, handle_next_operation(d) PROVE IInv'
  <2> DEFINE p == Head(pend[Type[d]])
  <2>1. Type[d] \in IoTypes /\ UNCHANGED <<list, sysc>> /\ hpc[d].at = "next"
    BY <1>7 DEF handle_next_operation
  <2>2. CASE pend[Type[d]] = <<>>
    <3>1. /\ hpc' = [hpc EXCEPT ![d] = At("recv")] /\ At("recv").at = "recv"
          /\ UNCHANGED <<pend, avail>>
      BY <1>7, <2>2 DEF handle_next_operation, At
    <3> QED BY <2>1, <2>2, <3>1, HandlerMoves DEF Serving, IInv, Shape
  <2>3. CASE pend[Type[d]] # <<>>
    <3>1. /\ hpc' = [hpc EXCEPT ![d] = For("send", p)] /\ For("send", p).at = "send"
          /\ pend' = [pend EXCEPT ![Type[d]] = Tail(@)]
          /\ avail' = [avail EXCEPT ![d] = FALSE]
      BY <1>7, <2>3 DEF handle_next_operation, For
    <3> HIDE DEF p
    <3>2. /\ pend' = [t \in IoTypes |-> pend'[t]]
          /\ \A t \in IoTypes : pend'[t] # <<>> => pend[t] # <<>>
      BY <2>1, <2>3, <3>1 DEF IInv, Shape
    <3> QED BY <2>1, <3>1, <3>2, HandlerMoves DEF Serving, IInv, Shape
  <2> QED BY <2>2, <2>3
<1>8. ASSUME NEW d \in Device, SendPending(d) PROVE IInv'
  <2>1. /\ UNCHANGED <<list, avail, pend, sysc>> /\ hpc[d].at = "send"
        /\ hpc' = [hpc EXCEPT ![d] = At("recv")] /\ At("recv").at = "recv"
    BY <1>8 DEF SendPending, At
  <2>2. ~avail[d]
    BY <2>1 DEF IInv, SendingIsTaken
  <2> QED BY <2>1, <2>2, HandlerMoves DEF Serving, IInv, Shape
<1>9. CASE StdoutAssign
  <2>1. "STDOUT" \in IoTypes
    BY DEF IoTypes
  <2>2. TakeDevice(Head(kh.pids), "STDOUT") /\ UNCHANGED <<list, hpc, sysc>>
    BY <1>9 DEF StdoutAssign, devices
  <2>3. sysc' = [q \in Proc |-> sysc'[q]] /\ \A q \in Proc : sysc'[q].type \in IoTypes
    BY <2>2 DEF IInv, Shape
  <2> QED BY <2>1, <2>2, <2>3, TakeDeviceKeeps
<1>10. CASE \/ \E p \in Proc : Dispatch(p) \/ wait_memory_write_confirmation(p) \/ SendSwapOut(p)
            \/ \E d \in Device : handle_operation(d) \/ DeviceStops(d)
           \/ suspension_manager \/ KernelMemory \/ MemoryUpdate
           \/ ReceiveRead \/ StdoutSend \/ ReceiveWrite \/ wait_confirmation_swap_out
           \/ ListBlocked \/ ListSuspended \/ request_swap_in \/ ReceiveSwapIn \/ SwapInNext \/ SwapInApply
           \/ UNCHANGED vars
  <2>1. UNCHANGED handled /\ UNCHANGED sysc
    BY <1>10, Zenon
       DEF Dispatch, wait_memory_write_confirmation, SendSwapOut, handle_operation,
           DeviceStops,
           suspension_manager, KernelMemory, MemoryUpdate, ReceiveRead, StdoutSend, ReceiveWrite,
           wait_confirmation_swap_out, ListBlocked, ListSuspended, request_swap_in, ReceiveSwapIn,
           SwapInNext, SwapInApply, vars, devices
  <2> QED BY <2>1, Frame
<1> QED
  BY <1>1, <1>2, <1>3, <1>4, <1>5, <1>6, <1>7, <1>8, <1>9, <1>10
     DEF Next, io_handler, kernel_memory_handler

\* io_finish_process, handle_next_operation, get_available_io_type: in every reachable
\* state a device whose handler waits for it is not available while a request for its
\* type is pending, for any number of processes and devices.
THEOREM NoIdleTheorem == Spec => []NoIdleWhilePending
<1>1. IInv => NoIdleWhilePending
  BY DEF IInv
<1> QED BY InitInv, NextInv, <1>1, PTL DEF Spec

-----------------------------------------------------------------------------
(* The invariants.                                                         *)

\* Messages about one process, with Kernel Memory.
Single == {"IO_MEMORY_READ", "IO_MEMORY_WRITE", "SWAP_OUT", "PROCESS_END"}
OnePid(q) == \E p \in Proc : q = <<p>>
ToKm == {m \in [op : Messages, pids : Seq(Proc)] : m.op \in Single => OnePid(m.pids)}
FromKm == {m \in [op : Messages, pids : Seq(Proc), ok : BOOLEAN] : m.op \in Single => OnePid(m.pids)}

Calling == [at : {"idle", "read", "assign", "send"}, type : IoTypes, dev : Device \cup {NoDevice}]

\* The types, with what the program points say about the arguments: of processes, ...
ProcTypes ==
    /\ state \in [Proc -> States]
    /\ queued \in [Proc -> Nat] /\ blocked \in [Proc -> Nat]
    /\ suspended \in Seq(Proc) /\ suspending \subseteq Proc
    /\ writers \in [Proc -> Nat] /\ memSem \in [Proc -> Nat]
    /\ reading \subseteq Proc
    /\ swapped \subseteq Proc /\ ended \subseteq Proc /\ lost \subseteq Proc
    /\ used \in [calls : [Proc -> Nat], suspensions : 0 .. MaxSuspensions, updates : 0 .. MaxUpdates]

\* ... the system calls, the devices and their handlers, ...
CallTypes ==
    /\ sysc \in [Proc -> Calling]
    /\ \A p \in Proc : sysc[p].at = "send" => sysc[p].dev \in Device /\ Type[sysc[p].dev] = sysc[p].type
ListTypes ==
    /\ list \in [IoTypes -> Seq(Device)]
    /\ \A t \in IoTypes : \A i \in DOMAIN list[t] : Type[list[t][i]] = t
DeviceTypes ==
    /\ avail \in [Device -> BOOLEAN] /\ alive \in [Device -> BOOLEAN]
    /\ pend \in [IoTypes -> Seq(Proc)]
    /\ inbox \in [Device -> Seq(Proc)] /\ outbox \in [Device -> Seq(Proc)]
HandlerTypes ==
    /\ hpc \in [Device -> [at : HandlerPoints, pids : Seq(Proc)]]
    /\ \A d \in Device : hpc[d].at = "send" => OnePid(hpc[d].pids)

\* ... and the handler of Kernel Memory and its messages.
KhTypes ==
    /\ kh \in [at : KhPoints, pids : Seq(Proc), dev : Device \cup {NoDevice}, seen : States]
    /\ kh.at \in {"assign", "send", "suspend"} => OnePid(kh.pids)
    /\ kh.at \in {"block", "apply"} => kh.pids # <<>>
    /\ kh.at = "send" => kh.dev \in Device /\ Type[kh.dev] = "STDOUT"
KmTypes == kmIn \in Seq(ToKm) /\ kmOut \in Seq(FromKm)

Types == ProcTypes /\ CallTypes /\ ListTypes /\ DeviceTypes /\ HandlerTypes /\ KhTypes /\ KmTypes

\* The devices that have a request of p are finitely many, so that they can be counted.
AtDevices(p) == {d \in Device : RequestsAtDevice(p, d) > 0}
FewDevices == \A p \in Proc : IsFiniteSet(AtDevices(p))

\* A process whose STDIN has got to the devices is in pending_io_stdin_reading.
ReadingInv(p) ==
    /\ sysc[p].at = "send" /\ sysc[p].type = "STDIN" => p \in reading
    /\ p \in Range(pend["STDIN"]) => p \in reading
    /\ \A d \in Device : Type[d] = "STDIN" /\ RequestsAtDevice(p, d) > 0 => p \in reading

RequestInv == FewDevices /\ OneRequest /\ \A p \in Proc : ReadingInv(p)

\* The answers to SWAP_IN that name p.
Backs(p) == Sent(kmOut, {"SWAP_IN"}, p) + One(kh.at \in {"in", "apply"} /\ p \in Range(kh.pids))

\* A process that comes back is SUSP_READY and in memory; it is in suspended_processes
\* until its turn.
Returning(p) ==
    /\ Backs(p) <= 1
    /\ Backs(p) = 1 => /\ ~Killed(p) /\ state[p] = "SUSP_READY" /\ p \notin swapped
                       /\ p \in Range(suspended) \/ (kh.at = "apply" /\ p = Head(kh.pids))

OnceIn(q, p) == \A k, l \in DOMAIN q : q[k] = p /\ q[l] = p => k = l
Distinct(p) ==
    /\ \A i \in DOMAIN kmOut : kmOut[i].op = "SWAP_IN" => OnceIn(kmOut[i].pids, p)
    /\ kh.at \in {"in", "apply"} => OnceIn(kh.pids, p)

\* A process in SWAP was listed there, or will be: its SWAP_OUT was confirmed.
SwappedOut(p) ==
    ~Killed(p) /\ p \in swapped =>
        /\ p \notin suspending /\ Sent(kmIn, {"SWAP_OUT"}, p) = 0 /\ ~(kh.at = "apply" /\ p = Head(kh.pids))
        /\ \A i \in DOMAIN kmOut : kmOut[i].op = "SWAP_OUT" /\ p \in Range(kmOut[i].pids) => kmOut[i].ok

\* A SWAP_IN on its way that Kernel Memory will find p for, unless p is in memory by then.
Ends(m, p) == m.op = "PROCESS_END" /\ p \in Range(m.pids)
Asked(p, i) ==
    /\ kmIn[i].op = "SWAP_IN" /\ p \in Range(kmIn[i].pids) /\ p \notin ended
    /\ \A j \in 1 .. (i - 1) : ~Ends(kmIn[j], p)
AskedInv(p) ==
    \A i \in DOMAIN kmIn : Asked(p, i) =>
        /\ \A j \in 1 .. (i - 1) : ~(kmIn[j].op = "SWAP_OUT" /\ p \in Range(kmIn[j].pids))
        /\ OnceIn(kmIn[i].pids, p)
        /\ p \in swapped => state[p] = "SUSP_READY" /\ p \in Range(suspended) /\ ~Killed(p)

ListedInv(p) ==
    ~Killed(p) =>
        /\ SwapOuts(p) = One(state[p] \in {"SUSP_BLOCK", "SUSP_READY"})
        /\ state[p] = "BLOCK" => blocked[p] > 0 \/ (kh.at = "block" /\ p = Head(kh.pids))
        /\ state[p] \in {"READY", "EXEC", "BLOCK"} => p \notin swapped

MediumInv(p) ==
    /\ queued[p] = One(state[p] = "READY")
    /\ state[p] = "EXIT" => Killed(p)
    /\ ListedInv(p) /\ SwappedOut(p) /\ Returning(p) /\ Distinct(p) /\ AskedInv(p)

KhInv ==
    /\ kh.at = "apply" => kh.seen = "SUSP_READY"
    /\ kh.at = "block" => Tail(kh.pids) = <<>>

IndInv == Types /\ RequestInv /\ KhInv /\ \A p \in Proc : MediumInv(p)

-----------------------------------------------------------------------------
(* Counting in lists.                                                      *)

\* How many elements of s are in G.
Cnt(s, G) == Cardinality({i \in DOMAIN s : s[i] \in G})

\* The count is finite, and positive when there is such an element.
LEMMA CntNat ==
    ASSUME NEW S, NEW s \in Seq(S), NEW G
    PROVE  /\ IsFiniteSet({i \in DOMAIN s : s[i] \in G})
           /\ Cnt(s, G) \in Nat
           /\ Cnt(s, G) > 0 <=> \E i \in DOMAIN s : s[i] \in G
<1> DEFINE I == {i \in DOMAIN s : s[i] \in G}
<1>1. IsFiniteSet(DOMAIN s)
  BY FS_Interval
<1>2. IsFiniteSet(I)
  BY <1>1, FS_Subset
<1> HIDE DEF I
<1>3. Cardinality(I) \in Nat /\ (Cardinality(I) = 0 <=> I = {})
  BY <1>2, FS_CardinalityType, FS_EmptySet
<1> QED BY <1>2, <1>3 DEF I, Cnt

\* Without one position, an element less is counted.
LEMMA CntDrop ==
    ASSUME NEW S, NEW s \in Seq(S), NEW t \in Seq(S), NEW k \in 1 .. Len(s), NEW G,
           Len(t) = Len(s) - 1, \A i \in 1 .. Len(t) : t[i] = IF i < k THEN s[i] ELSE s[i + 1]
    PROVE  Cnt(s, G) = Cnt(t, G) + One(s[k] \in G)
<1> DEFINE A == {i \in DOMAIN s : s[i] \in G}
           B == {i \in DOMAIN t : t[i] \in G}
           f == [i \in B |-> IF i < k THEN i ELSE i + 1]
<1>1. IsFiniteSet(A) /\ IsFiniteSet(B) /\ Cardinality(A) \in Nat /\ Cardinality(B) \in Nat
  BY CntNat DEF Cnt
<1>2. f \in Bijection(B, A \ {k})
  <2>1. f \in [B -> A \ {k}]
    <3> SUFFICES ASSUME NEW i \in B PROVE f[i] \in A \ {k}
      OBVIOUS
    <3>1. i \in 1 .. Len(t) /\ t[i] \in G /\ i \in Nat
      OBVIOUS
    <3>2. CASE i < k
      BY <3>1, <3>2
    <3>3. CASE ~(i < k)
      <4>1. s[i + 1] \in G /\ i + 1 \in 1 .. Len(s) /\ i + 1 # k
        BY <3>1, <3>3
      <4> QED BY <4>1, <3>3
    <3> QED BY <3>2, <3>3
  <2>2. \A i, j \in B : f[i] = f[j] => i = j
    OBVIOUS
  <2>3. \A j \in A \ {k} : \E i \in B : f[i] = j
    <3> SUFFICES ASSUME NEW j \in A \ {k} PROVE \E i \in B : f[i] = j
      OBVIOUS
    <3>1. j \in 1 .. Len(s) /\ s[j] \in G /\ j # k /\ j \in Nat
      OBVIOUS
    <3>2. CASE j < k
      <4>1. j \in 1 .. Len(t) /\ t[j] = s[j]
        BY <3>1, <3>2
      <4>2. j \in B /\ f[j] = j
        BY <3>1, <3>2, <4>1
      <4> QED BY <4>2
    <3>3. CASE j > k
      <4>1. j - 1 \in 1 .. Len(t) /\ t[j - 1] = s[j] /\ ~(j - 1 < k)
        BY <3>1, <3>3
      <4>2. j - 1 \in B /\ f[j - 1] = j
        BY <3>1, <3>3, <4>1
      <4> QED BY <4>2
    <3>4. j < k \/ j > k
      <4> HIDE DEF f, A, B
      <4> QED BY <3>1
    <3> QED BY <3>2, <3>3, <3>4
  <2> HIDE DEF f, A, B
  <2> QED BY <2>1, <2>2, <2>3 DEF Bijection, Injection, Surjection, IsInjective
<1>3. Cardinality(A \ {k}) = Cardinality(B)
  <2> HIDE DEF f, A, B
  <2> QED BY <1>1, <1>2, FS_Bijection DEF ExistsBijection
<1>4. k \in A <=> s[k] \in G
  OBVIOUS
<1>5. Cardinality(A \ {k}) = IF k \in A THEN Cardinality(A) - 1 ELSE Cardinality(A)
  <2> HIDE DEF A
  <2> QED BY <1>1, FS_RemoveElement
<1>6. Cardinality(A) = Cardinality(B) + One(s[k] \in G)
  <2> HIDE DEF A, B
  <2> QED BY <1>1, <1>3, <1>4, <1>5 DEF One
<1> QED BY <1>6 DEF Cnt

\* An element is added, ...
LEMMA CntAppend ==
    ASSUME NEW S, NEW s \in Seq(S), NEW x \in S, NEW G
    PROVE  Cnt(Append(s, x), G) = Cnt(s, G) + One(x \in G)
<1>1. /\ Append(s, x) \in Seq(S) /\ Len(Append(s, x)) = Len(s) + 1 /\ Append(s, x)[Len(s) + 1] = x
      /\ \A i \in 1 .. Len(s) : s[i] = Append(s, x)[i]
  OBVIOUS
<1>2. Len(s) \in Nat
  OBVIOUS
<1>3. PICK k \in 1 .. Len(Append(s, x)) : k = Len(s) + 1
  BY <1>1, <1>2
<1> DEFINE t == Append(s, x)
<1> HIDE DEF t
<1>4. Len(s) = Len(t) - 1 /\ \A i \in 1 .. Len(s) : s[i] = IF i < k THEN t[i] ELSE t[i + 1]
  BY <1>1, <1>2, <1>3 DEF t
<1>5. t \in Seq(S) /\ k \in 1 .. Len(t) /\ t[k] = x
  BY <1>1, <1>3 DEF t
<1>6. Cnt(t, G) = Cnt(s, G) + One(t[k] \in G)
  BY <1>4, <1>5, CntDrop
<1> QED BY <1>5, <1>6 DEF t

\* ... the first is taken, ...
LEMMA CntTail ==
    ASSUME NEW S, NEW s \in Seq(S), s # <<>>, NEW G
    PROVE  Cnt(s, G) = Cnt(Tail(s), G) + One(Head(s) \in G)
<1>1. /\ Tail(s) \in Seq(S) /\ Len(Tail(s)) = Len(s) - 1 /\ Head(s) = s[1] /\ 1 \in 1 .. Len(s)
      /\ \A i \in 1 .. Len(Tail(s)) : Tail(s)[i] = s[i + 1]
  OBVIOUS
<1> DEFINE t == Tail(s)
<1> HIDE DEF t
<1>2. t \in Seq(S) /\ Len(t) = Len(s) - 1 /\ \A i \in 1 .. Len(t) : t[i] = IF i < 1 THEN s[i] ELSE s[i + 1]
  BY <1>1 DEF t
<1>3. Cnt(s, G) = Cnt(t, G) + One(s[1] \in G)
  BY <1>1, <1>2, CntDrop
<1> QED BY <1>1, <1>3 DEF t

\* ... or list_remove_element removes one, if it is there.
LEMMA CntRemoveFirst ==
    ASSUME NEW S, NEW s \in Seq(S), NEW e, NEW G
    PROVE  /\ RemoveFirst(s, e) \in Seq(S)
           /\ e \notin Range(s) => RemoveFirst(s, e) = s
           /\ e \in Range(s) => Cnt(s, G) = Cnt(RemoveFirst(s, e), G) + One(e \in G)
<1>0. e \in Range(s) <=> \E i \in 1 .. Len(s) : s[i] = e
  BY DEF Range
<1>1. CASE e \notin Range(s)
  BY <1>0, <1>1, RemoveFirstAbsent
<1>2. CASE e \in Range(s)
  <2> DEFINE t == RemoveFirst(s, e)
  <2>1. PICK k \in 1 .. Len(s) :
              /\ s[k] = e
              /\ t \in Seq(S)
              /\ Len(t) = Len(s) - 1
              /\ \A i \in 1 .. (Len(s) - 1) : t[i] = IF i < k THEN s[i] ELSE s[i + 1]
    BY <1>0, <1>2, RemoveFirstPresent
  <2> HIDE DEF t
  <2>2. \A i \in 1 .. Len(t) : t[i] = IF i < k THEN s[i] ELSE s[i + 1]
    BY <2>1
  <2>4. t \in Seq(S) /\ Len(t) = Len(s) - 1
    BY <2>1
  <2>3. Cnt(s, G) = Cnt(t, G) + One(s[k] \in G)
    BY <2>2, <2>4, CntDrop
  <2> QED BY <1>2, <2>1, <2>3 DEF t
<1> QED BY <1>1, <1>2

\* The same for one process ...
LEMMA TimesFacts ==
    ASSUME NEW s \in Seq(Proc), NEW p \in Proc
    PROVE  /\ Times(s, p) \in Nat
           /\ Times(s, p) > 0 <=> p \in Range(s)
           /\ \A x \in Proc : Times(Append(s, x), p) = Times(s, p) + One(x = p)
           /\ s # <<>> => Times(s, p) = Times(Tail(s), p) + One(Head(s) = p)
<1>1. \A t \in Seq(Proc) : Times(t, p) = Cnt(t, {p})
  BY DEF Times, Cnt
<1>2. Cnt(s, {p}) \in Nat /\ (Cnt(s, {p}) > 0 <=> \E i \in DOMAIN s : s[i] \in {p})
  BY CntNat
<1>3. p \in Range(s) <=> \E i \in DOMAIN s : s[i] \in {p}
  BY DEF Range
<1>4. ASSUME NEW x \in Proc PROVE Times(Append(s, x), p) = Times(s, p) + One(x = p)
  <2>1. Append(s, x) \in Seq(Proc) /\ Cnt(Append(s, x), {p}) = Cnt(s, {p}) + One(x \in {p})
    BY CntAppend
  <2> QED BY <1>1, <2>1 DEF One
<1>5. s # <<>> => Times(s, p) = Times(Tail(s), p) + One(Head(s) = p)
  <2> SUFFICES ASSUME s # <<>> PROVE Times(s, p) = Times(Tail(s), p) + One(Head(s) = p)
    OBVIOUS
  <2>1. Tail(s) \in Seq(Proc) /\ Cnt(s, {p}) = Cnt(Tail(s), {p}) + One(Head(s) \in {p})
    BY CntTail
  <2> QED BY <1>1, <2>1 DEF One
<1> QED BY <1>1, <1>2, <1>3, <1>4, <1>5

\* What list_remove_element does to the count of a process.
LEMMA TimesRemoveFirst ==
    ASSUME NEW s \in Seq(Proc), NEW e \in Proc, NEW p \in Proc
    PROVE  /\ RemoveFirst(s, e) \in Seq(Proc)
           /\ Times(s, p) = Times(RemoveFirst(s, e), p) + One(e = p /\ e \in Range(s))
<1>1. /\ RemoveFirst(s, e) \in Seq(Proc)
      /\ e \notin Range(s) => RemoveFirst(s, e) = s
      /\ e \in Range(s) => Cnt(s, {p}) = Cnt(RemoveFirst(s, e), {p}) + One(e \in {p})
  <2> DEFINE G == {p}
  <2> HIDE DEF G
  <2>1. /\ RemoveFirst(s, e) \in Seq(Proc)
        /\ e \notin Range(s) => RemoveFirst(s, e) = s
        /\ e \in Range(s) => Cnt(s, G) = Cnt(RemoveFirst(s, e), G) + One(e \in G)
    BY CntRemoveFirst
  <2> QED BY <2>1 DEF G
<1>2. \A t \in Seq(Proc) : Times(t, p) = Cnt(t, {p}) /\ Times(t, p) \in Nat
  BY TimesFacts DEF Times, Cnt
<1>3. CASE e \in Range(s)
  BY <1>1, <1>2, <1>3 DEF One
<1>4. CASE e \notin Range(s)
  BY <1>1, <1>2, <1>4 DEF One
<1> QED BY <1>1, <1>3, <1>4

\* ... and for the messages about a process.
Names(m, ops, p) == m.op \in ops /\ p \in Range(m.pids)

\* Messages are counted as they are sent and received.
LEMMA SentFacts ==
    ASSUME NEW M, NEW s \in Seq(M), NEW ops, NEW p
    PROVE  /\ Sent(s, ops, p) \in Nat
           /\ Sent(s, ops, p) > 0 <=> \E i \in DOMAIN s : Names(s[i], ops, p)
           /\ \A x \in M : Sent(Append(s, x), ops, p) = Sent(s, ops, p) + One(Names(x, ops, p))
           /\ s # <<>> => Sent(s, ops, p) = Sent(Tail(s), ops, p) + One(Names(Head(s), ops, p))
<1> DEFINE G == {m \in M : Names(m, ops, p)}
<1>1. \A t \in Seq(M) : Sent(t, ops, p) = Cnt(t, G)
  <2> SUFFICES ASSUME NEW t \in Seq(M) PROVE Sent(t, ops, p) = Cnt(t, G)
    OBVIOUS
  <2>1. \A i \in DOMAIN t : t[i] \in G <=> t[i].op \in ops /\ p \in Range(t[i].pids)
    BY DEF Names
  <2> HIDE DEF G
  <2>2. {i \in DOMAIN t : t[i] \in G} = {i \in DOMAIN t : t[i].op \in ops /\ p \in Range(t[i].pids)}
    BY <2>1
  <2> QED BY <2>2 DEF Sent, Cnt
<1>2. \A m \in M : m \in G <=> Names(m, ops, p)
  OBVIOUS
<1>3. \A m \in M : One(m \in G) = One(Names(m, ops, p))
  BY <1>2 DEF One
<1> HIDE DEF G
<1>4. Cnt(s, G) \in Nat /\ (Cnt(s, G) > 0 <=> \E i \in DOMAIN s : s[i] \in G)
  BY CntNat
<1>5. (\E i \in DOMAIN s : s[i] \in G) <=> \E i \in DOMAIN s : Names(s[i], ops, p)
  BY <1>2
<1>6. ASSUME NEW x \in M PROVE Sent(Append(s, x), ops, p) = Sent(s, ops, p) + One(Names(x, ops, p))
  <2>1. Append(s, x) \in Seq(M) /\ Cnt(Append(s, x), G) = Cnt(s, G) + One(x \in G)
    BY CntAppend
  <2> QED BY <1>1, <1>3, <2>1
<1>7. s # <<>> => Sent(s, ops, p) = Sent(Tail(s), ops, p) + One(Names(Head(s), ops, p))
  <2> SUFFICES ASSUME s # <<>> PROVE Sent(s, ops, p) = Sent(Tail(s), ops, p) + One(Names(Head(s), ops, p))
    OBVIOUS
  <2>1. Tail(s) \in Seq(M) /\ Cnt(s, G) = Cnt(Tail(s), G) + One(Head(s) \in G) /\ Head(s) \in M
    BY CntTail
  <2> QED BY <1>1, <1>3, <2>1
<1> QED BY <1>1, <1>4, <1>5, <1>6, <1>7

-----------------------------------------------------------------------------
(* list_filter and list_sort.                                              *)

\* In a finite set with a strict order there is one element for every rank.
LEMMA RankExists ==
    ASSUME NEW P, IsFiniteSet(P), NEW before \in SUBSET (P \X P),
           \A i \in P : <<i, i>> \notin before,
           \A i, j, k \in P : <<i, j>> \in before /\ <<j, k>> \in before => <<i, k>> \in before,
           \A i, j \in P : i # j => <<i, j>> \in before \/ <<j, i>> \in before
    PROVE  \A k \in 1 .. Cardinality(P) :
              \E i \in P : Cardinality({j \in P : <<j, i>> \in before}) = k - 1
<1> DEFINE Below(i) == {j \in P : <<j, i>> \in before}
           n == Cardinality(P)
           f == [i \in P |-> Cardinality(Below(i)) + 1]
<1>1. n \in Nat
  BY FS_CardinalityType
<1>2. \A i \in P : IsFiniteSet(Below(i)) /\ Cardinality(Below(i)) \in Nat
  BY FS_Subset, FS_CardinalityType
<1>3. \A i, j \in P : <<i, j>> \in before => Cardinality(Below(i)) < Cardinality(Below(j))
  <2> SUFFICES ASSUME NEW i \in P, NEW j \in P, <<i, j>> \in before
               PROVE  Cardinality(Below(i)) < Cardinality(Below(j))
    OBVIOUS
  <2>1. Below(i) \in SUBSET Below(j) /\ i \in Below(j) /\ i \notin Below(i)
    OBVIOUS
  <2> HIDE DEF Below
  <2>2. Cardinality(Below(i)) <= Cardinality(Below(j)) /\ Cardinality(Below(i)) # Cardinality(Below(j))
    BY <1>2, <2>1, FS_Subset
  <2> QED BY <1>2, <2>2
<1>4. f \in [P -> 1 .. n]
  <2> SUFFICES ASSUME NEW i \in P PROVE Cardinality(Below(i)) + 1 \in 1 .. n
    OBVIOUS
  <2>1. Below(i) \in SUBSET P /\ i \notin Below(i)
    OBVIOUS
  <2> HIDE DEF Below
  <2>2. Cardinality(Below(i)) <= n /\ Cardinality(Below(i)) # n
    BY <2>1, FS_Subset
  <2> QED BY <1>1, <1>2, <2>2
<1>5. f \in Injection(P, 1 .. n)
  <2> SUFFICES ASSUME NEW i \in P, NEW j \in P, i # j PROVE f[i] # f[j]
    BY <1>4 DEF Injection, IsInjective
  <2>1. Cardinality(Below(i)) # Cardinality(Below(j))
    <3>1. <<i, j>> \in before \/ <<j, i>> \in before
      OBVIOUS
    <3> HIDE DEF Below
    <3>2. Cardinality(Below(i)) < Cardinality(Below(j)) \/ Cardinality(Below(j)) < Cardinality(Below(i))
      BY <1>3, <3>1
    <3>3. Cardinality(Below(i)) \in Nat /\ Cardinality(Below(j)) \in Nat
      BY <1>2
    <3> QED BY <3>2, <3>3
  <2> HIDE DEF Below
  <2> QED BY <1>2, <2>1
<1>6. IsFiniteSet(1 .. n) /\ Cardinality(1 .. n) = n
  BY <1>1, FS_Interval
<1>7. f \in Surjection(P, 1 .. n)
  <2> HIDE DEF f
  <2> QED BY <1>5, <1>6, FS_Injection
<1> SUFFICES ASSUME NEW k \in 1 .. n PROVE \E i \in P : Cardinality(Below(i)) = k - 1
  OBVIOUS
<1>8. PICK i \in P : f[i] = k
  <2> HIDE DEF f
  <2> QED BY <1>7 DEF Surjection
<1> HIDE DEF Below
<1>9. Cardinality(Below(i)) + 1 = k
  BY <1>8
<1> QED BY <1>1, <1>2, <1>9

\* A list put in order has the chosen elements, and none of them more often.
LEMMA ArrangedIs ==
    ASSUME NEW s \in Seq(Proc), NEW P \in SUBSET DOMAIN s, NEW before \in SUBSET (P \X P),
           \A i \in P : <<i, i>> \notin before,
           \A i, j, k \in P : <<i, j>> \in before /\ <<j, k>> \in before => <<i, k>> \in before,
           \A i, j \in P : i # j => <<i, j>> \in before \/ <<j, i>> \in before
    PROVE  /\ Arranged(s, P, before) \in Seq(Proc)
           /\ \A p : p \in Range(Arranged(s, P, before)) => \E i \in P : s[i] = p
           /\ \A p \in Proc : OnceIn(s, p) => OnceIn(Arranged(s, P, before), p)
<1> DEFINE Rank(i) == Cardinality({j \in P : <<j, i>> \in before})
           n == Cardinality(P)
           At_(k) == CHOOSE i \in P : Rank(i) = k - 1
           a == [k \in 1 .. n |-> s[At_(k)]]
<1>1. IsFiniteSet(DOMAIN s)
  BY FS_Interval
<1>2. IsFiniteSet(P)
  BY <1>1, FS_Subset
<1>3. n \in Nat
  BY <1>2, FS_CardinalityType
<1>4. \A k \in 1 .. n : \E i \in P : Rank(i) = k - 1
  BY <1>2, RankExists
<1>5. Arranged(s, P, before) = a
  BY DEF Arranged
<1> HIDE DEF Rank, n
<1>6. \A k \in 1 .. n : At_(k) \in P /\ Rank(At_(k)) = k - 1
  BY <1>4
<1> HIDE DEF At_
<1>7. \A k \in 1 .. n : a[k] = s[At_(k)] /\ s[At_(k)] \in Proc
  BY <1>6
<1>8. a \in Seq(Proc) /\ DOMAIN a = 1 .. n
  BY <1>3, <1>7
<1>9. \A p : p \in Range(a) => \E i \in P : s[i] = p
  BY <1>6, <1>7, <1>8 DEF Range
<1>10. ASSUME NEW p \in Proc, OnceIn(s, p) PROVE OnceIn(a, p)
  <2> SUFFICES ASSUME NEW k \in 1 .. n, NEW l \in 1 .. n, s[At_(k)] = p, s[At_(l)] = p PROVE k = l
    BY <1>7, <1>8 DEF OnceIn
  <2>1. At_(k) = At_(l)
    BY <1>6, <1>10 DEF OnceIn
  <2>2. k - 1 = l - 1
    BY <1>6, <2>1
  <2> QED BY <1>3, <2>2
<1> HIDE DEF a
<1> QED BY <1>5, <1>8, <1>9, <1>10

\* list_filter keeps elements that fit, each as often as it was there.
LEMMA FilterIs ==
    ASSUME NEW s \in Seq(Proc), NEW T
    PROVE  /\ Filter(s, T) \in Seq(Proc)
           /\ \A p : p \in Range(Filter(s, T)) => p \in T /\ p \in Range(s)
           /\ \A p \in Proc : OnceIn(s, p) => OnceIn(Filter(s, T), p)
<1> DEFINE P == {i \in DOMAIN s : s[i] \in T}
           before == {e \in P \X P : e[1] < e[2]}
<1>1. P \in SUBSET DOMAIN s /\ before \in SUBSET (P \X P) /\ \A i \in P : i \in Nat /\ s[i] \in T
  OBVIOUS
<1>2. \A i, j \in P : <<i, j>> \in before <=> i < j
  OBVIOUS
<1>3. Filter(s, T) = Arranged(s, P, before)
  BY DEF Filter
<1> HIDE DEF P, before
<1>4. /\ \A i \in P : <<i, i>> \notin before
      /\ \A i, j, k \in P : <<i, j>> \in before /\ <<j, k>> \in before => <<i, k>> \in before
      /\ \A i, j \in P : i # j => <<i, j>> \in before \/ <<j, i>> \in before
  BY <1>1, <1>2
<1>5. /\ Arranged(s, P, before) \in Seq(Proc)
      /\ \A p : p \in Range(Arranged(s, P, before)) => \E i \in P : s[i] = p
      /\ \A p \in Proc : OnceIn(s, p) => OnceIn(Arranged(s, P, before), p)
  BY <1>1, <1>4, ArrangedIs
<1>6. \A p : (\E i \in P : s[i] = p) => p \in T /\ p \in Range(s)
  BY <1>1 DEF Range
<1> QED BY <1>3, <1>5, <1>6

\* list_sort with the priorities of the processes: no process is added or doubled.
LEMMA SortIs ==
    ASSUME NEW s \in Seq(Proc)
    PROVE  /\ sort_processes_by_priority(s) \in Seq(Proc)
           /\ \A p : p \in Range(sort_processes_by_priority(s)) => p \in Range(s)
           /\ \A p \in Proc : OnceIn(s, p) => OnceIn(sort_processes_by_priority(s), p)
<1> DEFINE P == DOMAIN s
           Pr(i) == Priority[s[i]]
           before == {e \in P \X P : \/ Pr(e[1]) < Pr(e[2])
                                     \/ Pr(e[1]) = Pr(e[2]) /\ e[1] < e[2]}
<1>1. before \in SUBSET (P \X P) /\ \A i \in P : i \in Nat
  OBVIOUS
<1>2. \A i \in P : Pr(i) \in Nat
  BY IoAssumption
<1>3. \A i, j \in P : <<i, j>> \in before <=> Pr(i) < Pr(j) \/ (Pr(i) = Pr(j) /\ i < j)
  OBVIOUS
<1>4. sort_processes_by_priority(s) = Arranged(s, P, before)
  BY DEF sort_processes_by_priority
<1> HIDE DEF before, Pr
<1>5. \A i \in P : <<i, i>> \notin before
  BY <1>1, <1>2, <1>3
<1>6. \A i, j, k \in P : <<i, j>> \in before /\ <<j, k>> \in before => <<i, k>> \in before
  <2> SUFFICES ASSUME NEW i \in P, NEW j \in P, NEW k \in P, <<i, j>> \in before, <<j, k>> \in before
               PROVE  <<i, k>> \in before
    OBVIOUS
  <2>1. i \in Nat /\ j \in Nat /\ k \in Nat /\ Pr(i) \in Nat /\ Pr(j) \in Nat /\ Pr(k) \in Nat
    BY <1>1, <1>2
  <2>2. /\ Pr(i) < Pr(j) \/ (Pr(i) = Pr(j) /\ i < j)
        /\ Pr(j) < Pr(k) \/ (Pr(j) = Pr(k) /\ j < k)
    BY <1>3
  <2>3. Pr(i) < Pr(k) \/ (Pr(i) = Pr(k) /\ i < k)
    BY <2>1, <2>2
  <2> QED BY <1>3, <2>3
<1>7. \A i, j \in P : i # j => <<i, j>> \in before \/ <<j, i>> \in before
  <2> SUFFICES ASSUME NEW i \in P, NEW j \in P, i # j
               PROVE  <<i, j>> \in before \/ <<j, i>> \in before
    OBVIOUS
  <2>1. i \in Nat /\ j \in Nat /\ Pr(i) \in Nat /\ Pr(j) \in Nat
    BY <1>1, <1>2
  <2> QED BY <1>3, <2>1
<1>8. P \in SUBSET DOMAIN s
  OBVIOUS
<1>9. /\ Arranged(s, P, before) \in Seq(Proc)
      /\ \A p : p \in Range(Arranged(s, P, before)) => \E i \in P : s[i] = p
      /\ \A p \in Proc : OnceIn(s, p) => OnceIn(Arranged(s, P, before), p)
  <2> HIDE DEF P
  <2> QED BY <1>1, <1>5, <1>6, <1>7, <1>8, ArrangedIs
<1> QED BY <1>4, <1>9 DEF Range

-----------------------------------------------------------------------------
(* Where the requests of a process are.                                    *)

\* What a device and its handler have of p.
DeviceHas(p, in, out, h) == Times(in, p) + Times(out, p) + One(h.at = "send" /\ p \in Range(h.pids))

\* Its requests with the threads, Kernel Memory and in the pending lists.
Pending(p, pe) == Times(pe["SLEEP"], p) + Times(pe["STDIN"], p) + Times(pe["STDOUT"], p)
KhHas(p, k) == One(k.at \in {"assign", "send"} /\ p \in Range(k.pids))

\* The requests of p, now and after the step, part by part.
LEMMA RequestsAre ==
    ASSUME NEW p \in Proc
    PROVE  /\ Requests(p) = One(sysc[p].at # "idle") + Sent(kmIn, IoOps, p) + Sent(kmOut, IoOps, p) + memSem[p]
                            + KhHas(p, kh) + Times(pend["SLEEP"], p) + Times(pend["STDIN"], p)
                            + Times(pend["STDOUT"], p) + One(p \in lost) + Cardinality(AtDevices(p))
           /\ Requests(p)' = One(sysc'[p].at # "idle") + Sent(kmIn', IoOps, p) + Sent(kmOut', IoOps, p) + memSem'[p]
                             + KhHas(p, kh') + Times(pend'["SLEEP"], p) + Times(pend'["STDIN"], p)
                             + Times(pend'["STDOUT"], p) + One(p \in lost') + Cardinality(AtDevices(p)')
           /\ \A d \in Device : /\ RequestsAtDevice(p, d) = DeviceHas(p, inbox[d], outbox[d], hpc[d])
                                /\ RequestsAtDevice(p, d)' = DeviceHas(p, inbox'[d], outbox'[d], hpc'[d])
<1>1. Requests(p) = One(sysc[p].at # "idle") + Sent(kmIn, IoOps, p) + Sent(kmOut, IoOps, p) + memSem[p]
                            + KhHas(p, kh) + Times(pend["SLEEP"], p) + Times(pend["STDIN"], p)
                            + Times(pend["STDOUT"], p) + One(p \in lost) + Cardinality(AtDevices(p))
  BY DEF Requests, AtDevices, KhHas
<1>2. Requests(p)' = One(sysc'[p].at # "idle") + Sent(kmIn', IoOps, p) + Sent(kmOut', IoOps, p) + memSem'[p]
                             + KhHas(p, kh') + Times(pend'["SLEEP"], p) + Times(pend'["STDIN"], p)
                             + Times(pend'["STDOUT"], p) + One(p \in lost') + Cardinality(AtDevices(p)')
  BY DEF Requests, AtDevices, KhHas
<1>3. \A d \in Device : /\ RequestsAtDevice(p, d) = DeviceHas(p, inbox[d], outbox[d], hpc[d])
                        /\ RequestsAtDevice(p, d)' = DeviceHas(p, inbox'[d], outbox'[d], hpc'[d])
  BY DEF RequestsAtDevice, DeviceHas
<1> QED BY <1>1, <1>2, <1>3

\* All of these are numbers.
LEMMA RequestParts ==
    ASSUME Types, FewDevices, NEW p \in Proc
    PROVE  /\ One(sysc[p].at # "idle") \in Nat /\ Sent(kmIn, IoOps, p) \in Nat /\ Sent(kmOut, IoOps, p) \in Nat
           /\ memSem[p] \in Nat /\ KhHas(p, kh) \in Nat /\ One(p \in lost) \in Nat
           /\ \A t \in IoTypes : Times(pend[t], p) \in Nat
           /\ Cardinality(AtDevices(p)) \in Nat
           /\ Cardinality(AtDevices(p)) = 0 <=> \A d \in Device : ~(RequestsAtDevice(p, d) > 0)
           /\ \A d \in Device : RequestsAtDevice(p, d) \in Nat
<1>1. \A b \in BOOLEAN : One(b) \in Nat
  BY DEF One
<1>2. One(sysc[p].at # "idle") \in Nat /\ KhHas(p, kh) \in Nat /\ One(p \in lost) \in Nat
  BY DEF One, KhHas
<1>3. Sent(kmIn, IoOps, p) \in Nat /\ Sent(kmOut, IoOps, p) \in Nat
  <2>1. kmIn \in Seq(ToKm) /\ kmOut \in Seq(FromKm)
    BY DEF Types, KmTypes
  <2> QED BY <2>1, SentFacts
<1>4. memSem[p] \in Nat
  BY DEF Types, ProcTypes
<1>5. ASSUME NEW t \in IoTypes PROVE Times(pend[t], p) \in Nat
  <2>1. pend[t] \in Seq(Proc)
    BY DEF Types, DeviceTypes
  <2> QED BY <2>1, TimesFacts
<1>6. IsFiniteSet(AtDevices(p))
  BY DEF FewDevices
<1>7. Cardinality(AtDevices(p)) \in Nat /\ (Cardinality(AtDevices(p)) = 0 <=> AtDevices(p) = {})
  BY <1>6, FS_CardinalityType, FS_EmptySet
<1>8. AtDevices(p) = {} <=> \A d \in Device : ~(RequestsAtDevice(p, d) > 0)
  BY DEF AtDevices
<1>9. ASSUME NEW d \in Device PROVE RequestsAtDevice(p, d) \in Nat
  <2>1. inbox[d] \in Seq(Proc) /\ outbox[d] \in Seq(Proc)
    BY DEF Types, DeviceTypes
  <2>2. Times(inbox[d], p) \in Nat /\ Times(outbox[d], p) \in Nat
    BY <2>1, TimesFacts
  <2>3. One(hpc[d].at = "send" /\ p \in Range(hpc[d].pids)) \in Nat
    BY <1>1
  <2> QED BY <2>2, <2>3 DEF RequestsAtDevice
<1> QED BY <1>2, <1>3, <1>4, <1>5, <1>7, <1>8, <1>9

\* A step of one device d: the devices that have a request of p change by what d has.
LEMMA DeviceStep ==
    ASSUME FewDevices, NEW p \in Proc, NEW d \in Device,
           \A e \in Device : RequestsAtDevice(p, e) \in Nat,
           \A e \in Device : e # d => RequestsAtDevice(p, e)' = RequestsAtDevice(p, e),
           \A e \in Device : RequestsAtDevice(p, e) <= 1,
           RequestsAtDevice(p, d)' \in {0, 1}
    PROVE  /\ IsFiniteSet(AtDevices(p)')
           /\ Cardinality(AtDevices(p)') + RequestsAtDevice(p, d) = Cardinality(AtDevices(p)) + RequestsAtDevice(p, d)'
           /\ \A e \in Device : RequestsAtDevice(p, e)' <= 1
<1> DEFINE A == AtDevices(p)
           B == AtDevices(p)'
           r == RequestsAtDevice(p, d)
           s == RequestsAtDevice(p, d)'
<1>1. /\ \A e \in Device : e # d => (e \in B <=> e \in A)
      /\ A \subseteq Device /\ B \subseteq Device
      /\ d \in A <=> r > 0
      /\ d \in B <=> s > 0
  BY DEF AtDevices
<1>2. IsFiniteSet(A)
  BY DEF FewDevices
<1>3. r \in {0, 1} /\ s \in {0, 1}
  OBVIOUS
<1>4. \A e \in Device : RequestsAtDevice(p, e)' <= 1
  <2> SUFFICES ASSUME NEW e \in Device PROVE RequestsAtDevice(p, e)' <= 1
    OBVIOUS
  <2>1. CASE e = d
    BY <1>3, <2>1
  <2>2. CASE e # d
    BY <2>2
  <2> QED BY <2>1, <2>2
<1> HIDE DEF A, B, r, s
<1>5. Cardinality(A) \in Nat
  BY <1>2, FS_CardinalityType
<1>6. CASE s = 1
  <2>1. B = A \cup {d} /\ (d \in A <=> r = 1)
    BY <1>1, <1>3, <1>6
  <2>2. IsFiniteSet(B) /\ Cardinality(B) = IF d \in A THEN Cardinality(A) ELSE Cardinality(A) + 1
    BY <1>2, <2>1, FS_AddElement
  <2>3. Cardinality(B) + r = Cardinality(A) + s
    BY <1>3, <1>5, <1>6, <2>1, <2>2
  <2> QED BY <1>4, <2>2, <2>3 DEF A, B, r, s
<1>7. CASE s = 0
  <2>1. B = A \ {d} /\ (d \in A <=> r = 1)
    BY <1>1, <1>3, <1>7
  <2>2. IsFiniteSet(B) /\ Cardinality(B) = IF d \in A THEN Cardinality(A) - 1 ELSE Cardinality(A)
    BY <1>2, <2>1, FS_RemoveElement
  <2>3. Cardinality(B) + r = Cardinality(A) + s
    BY <1>3, <1>5, <1>7, <2>1, <2>2
  <2> QED BY <1>4, <2>2, <2>3 DEF A, B, r, s
<1> QED BY <1>3, <1>6, <1>7

\* The processes that wait for a request, and those that have none.
Waits(x) == x \in {"BLOCK", "SUSP_BLOCK"}
HasNone(x) == x \in {"READY", "EXEC", "SUSP_READY"}

\* How a step may change the requests of q and its state.
RequestsMove(q) ==
    \/ /\ Requests(q)' = Requests(q)
       /\ Waits(state'[q]) => Waits(state[q])
       /\ HasNone(state'[q]) => HasNone(state[q])
    \/ Requests(q)' = 1 /\ ~HasNone(state'[q])
    \/ Requests(q)' = 0 /\ ~Waits(state'[q])

\* A step after which every process has the requests its state asks for keeps the invariant.
LEMMA RequestStep ==
    ASSUME OneRequest,
           \A q \in Proc : IsFiniteSet(AtDevices(q)') /\ \A e \in Device : RequestsAtDevice(q, e)' <= 1,
           \A q \in Proc : RequestsMove(q),
           \A q \in Proc : ReadingInv(q)'
    PROVE  RequestInv'
<1>1. FewDevices'
  BY DEF FewDevices
<1>2. OneRequest'
  <2> SUFFICES ASSUME NEW q \in Proc
               PROVE  /\ Requests(q)' <= 1
                      /\ Waits(state'[q]) => Requests(q)' = 1
                      /\ HasNone(state'[q]) => Requests(q)' = 0
    BY DEF OneRequest, Waits, HasNone
  <2>1. /\ Requests(q) <= 1
        /\ Waits(state[q]) => Requests(q) = 1
        /\ HasNone(state[q]) => Requests(q) = 0
    BY DEF OneRequest, Waits, HasNone
  <2>2. RequestsMove(q)
    OBVIOUS
  <2>3. ~(Waits(state'[q]) /\ HasNone(state'[q]))
    BY DEF Waits, HasNone
  <2> QED BY <2>1, <2>2, <2>3 DEF RequestsMove
<1> QED BY <1>1, <1>2 DEF RequestInv

\* A step that no device takes part in, but for its handler.
LEMMA DevicesKept ==
    ASSUME RequestInv, NEW q \in Proc, inbox' = inbox, outbox' = outbox,
           \A d \in Device : hpc'[d] = hpc[d] \/ (hpc[d].at # "send" /\ hpc'[d].at # "send")
    PROVE  /\ IsFiniteSet(AtDevices(q)') /\ AtDevices(q)' = AtDevices(q)
           /\ \A e \in Device : RequestsAtDevice(q, e)' = RequestsAtDevice(q, e) /\ RequestsAtDevice(q, e)' <= 1
<1>1. ASSUME NEW e \in Device PROVE RequestsAtDevice(q, e)' = RequestsAtDevice(q, e)
  <2>1. DeviceHas(q, inbox'[e], outbox'[e], hpc'[e]) = DeviceHas(q, inbox[e], outbox[e], hpc[e])
    BY DEF DeviceHas, One
  <2> QED BY <2>1, RequestsAre
<1>2. AtDevices(q)' = AtDevices(q)
  BY <1>1 DEF AtDevices
<1>3. IsFiniteSet(AtDevices(q)) /\ \A e \in Device : RequestsAtDevice(q, e) <= 1
  BY DEF RequestInv, FewDevices, OneRequest
<1> QED BY <1>1, <1>2, <1>3

\* Of ten numbers whose sum is at most 1, one is positive: the others are 0.
LEMMA OneOfMany ==
    ASSUME NEW a \in Nat, NEW b \in Nat, NEW c \in Nat, NEW f \in Nat, NEW g \in Nat, NEW h \in Nat,
           NEW i \in Nat, NEW j \in Nat, NEW k \in Nat, NEW l \in Nat,
           a + b + c + f + g + h + i + j + k + l <= 1,
           a = 1 \/ b > 0 \/ c > 0 \/ f > 0 \/ g = 1 \/ h > 0 \/ i > 0 \/ j > 0
    PROVE  l = 0 /\ k = 0 /\ a + b + c + f + g + h + i + j + k + l = 1
OBVIOUS

\* A process with a request elsewhere has none with a device.
LEMMA Elsewhere ==
    ASSUME Types, RequestInv, NEW q \in Proc,
           \/ sysc[q].at # "idle" \/ Sent(kmIn, IoOps, q) > 0 \/ Sent(kmOut, IoOps, q) > 0 \/ memSem[q] > 0
           \/ KhHas(q, kh) = 1 \/ \E t \in IoTypes : Times(pend[t], q) > 0
    PROVE  /\ \A d \in Device : RequestsAtDevice(q, d) = 0
           /\ q \notin lost /\ Cardinality(AtDevices(q)) = 0 /\ Requests(q) = 1
           /\ ~HasNone(state[q])
<1>1. FewDevices /\ Requests(q) <= 1 /\ (HasNone(state[q]) => Requests(q) = 0)
  BY DEF RequestInv, OneRequest, HasNone
<1>2. /\ One(sysc[q].at # "idle") \in Nat /\ Sent(kmIn, IoOps, q) \in Nat /\ Sent(kmOut, IoOps, q) \in Nat
      /\ memSem[q] \in Nat /\ KhHas(q, kh) \in Nat /\ One(q \in lost) \in Nat
      /\ \A t \in IoTypes : Times(pend[t], q) \in Nat
      /\ Cardinality(AtDevices(q)) \in Nat
      /\ Cardinality(AtDevices(q)) = 0 <=> \A d \in Device : ~(RequestsAtDevice(q, d) > 0)
      /\ \A d \in Device : RequestsAtDevice(q, d) \in Nat
  BY <1>1, RequestParts
<1>3. Requests(q) = One(sysc[q].at # "idle") + Sent(kmIn, IoOps, q) + Sent(kmOut, IoOps, q) + memSem[q]
                            + KhHas(q, kh) + Times(pend["SLEEP"], q) + Times(pend["STDIN"], q)
                            + Times(pend["STDOUT"], q) + One(q \in lost) + Cardinality(AtDevices(q))
  BY RequestsAre
<1>4. sysc[q].at # "idle" => One(sysc[q].at # "idle") = 1
  BY DEF One
<1>5. q \in lost => One(q \in lost) = 1
  BY DEF One
<1>6. Times(pend["SLEEP"], q) \in Nat /\ Times(pend["STDIN"], q) \in Nat /\ Times(pend["STDOUT"], q) \in Nat
  BY <1>2 DEF IoTypes
<1>7. \/ One(sysc[q].at # "idle") = 1 \/ Sent(kmIn, IoOps, q) > 0 \/ Sent(kmOut, IoOps, q) > 0 \/ memSem[q] > 0
      \/ KhHas(q, kh) = 1 \/ Times(pend["SLEEP"], q) > 0 \/ Times(pend["STDIN"], q) > 0 \/ Times(pend["STDOUT"], q) > 0
  BY <1>4 DEF IoTypes
<1>8. Cardinality(AtDevices(q)) = 0 /\ One(q \in lost) = 0 /\ Requests(q) = 1
  <2> DEFINE a == One(sysc[q].at # "idle")
             b == Sent(kmIn, IoOps, q)
             c == Sent(kmOut, IoOps, q)
             f == memSem[q]
             g == KhHas(q, kh)
             h == Times(pend["SLEEP"], q)
             i == Times(pend["STDIN"], q)
             j == Times(pend["STDOUT"], q)
             k == One(q \in lost)
             l == Cardinality(AtDevices(q))
             n == Requests(q)
  <2>1. /\ a \in Nat /\ b \in Nat /\ c \in Nat /\ f \in Nat /\ g \in Nat /\ h \in Nat /\ i \in Nat /\ j \in Nat
        /\ k \in Nat /\ l \in Nat /\ n <= 1
    BY <1>1, <1>2, <1>6
  <2>2. n = a + b + c + f + g + h + i + j + k + l
    BY <1>3
  <2>3. a = 1 \/ b > 0 \/ c > 0 \/ f > 0 \/ g = 1 \/ h > 0 \/ i > 0 \/ j > 0
    BY <1>7
  <2> HIDE DEF a, b, c, f, g, h, i, j, k, l, n
  <2>4. l = 0 /\ k = 0 /\ n = 1
    BY <2>1, <2>2, <2>3, OneOfMany
  <2> QED BY <2>4 DEF k, l, n
<1>9. \A d \in Device : RequestsAtDevice(q, d) = 0
  BY <1>2, <1>8
<1> QED BY <1>1, <1>5, <1>8, <1>9

\* A request arrives at device d, or goes with it.
LEMMA DeliverIs ==
    ASSUME Types, RequestInv, NEW p \in Proc, NEW d \in Device, Deliver(p, d), outbox' = outbox, hpc' = hpc,
           p \notin lost, \A e \in Device : RequestsAtDevice(p, e) = 0
    PROVE  /\ inbox' \in [Device -> Seq(Proc)] /\ lost' \subseteq Proc
           /\ \A q \in Proc :
                 /\ IsFiniteSet(AtDevices(q)')
                 /\ \A e \in Device : RequestsAtDevice(q, e)' <= 1
                 /\ Cardinality(AtDevices(q)') \in Nat
                 /\ Cardinality(AtDevices(q)') + One(q \in lost')
                       = Cardinality(AtDevices(q)) + One(q \in lost) + One(q = p)
                 /\ \A e \in Device : RequestsAtDevice(q, e)' > 0 => RequestsAtDevice(q, e) > 0 \/ (q = p /\ e = d)
<1>0. inbox \in [Device -> Seq(Proc)] /\ lost \subseteq Proc
  BY DEF Types, ProcTypes, DeviceTypes
<1>1. CASE alive[d]
  <2>1. inbox' = [inbox EXCEPT ![d] = Append(@, p)] /\ lost' = lost
    BY <1>1 DEF Deliver
  <2>2. inbox' \in [Device -> Seq(Proc)]
    BY <1>0, <2>1
  <2>3. ASSUME NEW q \in Proc
        PROVE  /\ IsFiniteSet(AtDevices(q)')
               /\ \A e \in Device : RequestsAtDevice(q, e)' <= 1
               /\ Cardinality(AtDevices(q)') \in Nat
               /\ Cardinality(AtDevices(q)') + One(q \in lost')
                       = Cardinality(AtDevices(q)) + One(q \in lost) + One(q = p)
               /\ \A e \in Device : RequestsAtDevice(q, e)' > 0 => RequestsAtDevice(q, e) > 0 \/ (q = p /\ e = d)
    <3>0. FewDevices /\ \A e \in Device : RequestsAtDevice(q, e) <= 1
      BY DEF RequestInv, OneRequest
    <3>1. /\ \A e \in Device : RequestsAtDevice(q, e) \in Nat
          /\ Cardinality(AtDevices(q)) \in Nat
      BY <3>0, RequestParts
    <3>2. Times(Append(inbox[d], p), q) = Times(inbox[d], q) + One(p = q) /\ Times(inbox[d], q) \in Nat
      BY <1>0, TimesFacts
    <3>3. inbox'[d] = Append(inbox[d], p) /\ \A e \in Device : e # d => inbox'[e] = inbox[e]
      BY <1>0, <2>1
    <3>4. One(p = q) = One(q = p) /\ One(q = p) \in {0, 1} /\ (q = p <=> One(q = p) = 1)
      BY DEF One
    <3>5. RequestsAtDevice(q, d)' = RequestsAtDevice(q, d) + One(q = p)
      <4>1. outbox[d] \in Seq(Proc)
        BY DEF Types, DeviceTypes
      <4>2. Times(outbox[d], q) \in Nat /\ One(hpc[d].at = "send" /\ q \in Range(hpc[d].pids)) \in Nat
        BY <4>1, TimesFacts DEF One
      <4>3. /\ RequestsAtDevice(q, d) = Times(inbox[d], q) + Times(outbox[d], q)
                                        + One(hpc[d].at = "send" /\ q \in Range(hpc[d].pids))
            /\ RequestsAtDevice(q, d)' = Times(inbox'[d], q) + Times(outbox[d], q)
                                        + One(hpc[d].at = "send" /\ q \in Range(hpc[d].pids))
        BY DEF RequestsAtDevice
      <4> QED BY <3>2, <3>3, <3>4, <4>2, <4>3
    <3>6. ASSUME NEW e \in Device, e # d PROVE RequestsAtDevice(q, e)' = RequestsAtDevice(q, e)
      BY <3>3, <3>6 DEF RequestsAtDevice
    <3>7. RequestsAtDevice(q, d)' \in {0, 1}
      <4>1. RequestsAtDevice(q, d) \in Nat /\ RequestsAtDevice(q, d) <= 1 /\ (q = p => RequestsAtDevice(q, d) = 0)
        BY <3>0, <3>1
      <4> QED BY <3>4, <3>5, <4>1
    <3>8. /\ IsFiniteSet(AtDevices(q)')
          /\ Cardinality(AtDevices(q)') + RequestsAtDevice(q, d) = Cardinality(AtDevices(q)) + RequestsAtDevice(q, d)'
          /\ \A e \in Device : RequestsAtDevice(q, e)' <= 1
      BY <3>0, <3>1, <3>6, <3>7, DeviceStep
    <3>9. Cardinality(AtDevices(q)') \in Nat
      BY <3>8, FS_CardinalityType
    <3>10. One(q \in lost') = One(q \in lost) /\ One(q \in lost) \in Nat
      BY <2>1 DEF One
    <3>11. Cardinality(AtDevices(q)') + One(q \in lost') = Cardinality(AtDevices(q)) + One(q \in lost) + One(q = p)
      BY <3>1, <3>4, <3>5, <3>8, <3>9, <3>10
    <3>12. \A e \in Device : RequestsAtDevice(q, e)' > 0 => RequestsAtDevice(q, e) > 0 \/ (q = p /\ e = d)
      BY <3>1, <3>4, <3>5, <3>6
    <3> QED BY <3>8, <3>9, <3>11, <3>12
  <2> QED BY <1>0, <2>1, <2>2, <2>3
<1>2. CASE ~alive[d]
  <2>1. lost' = lost \cup {p} /\ inbox' = inbox
    BY <1>2 DEF Deliver
  <2>2. ASSUME NEW q \in Proc
        PROVE  /\ IsFiniteSet(AtDevices(q)')
               /\ \A e \in Device : RequestsAtDevice(q, e)' <= 1
               /\ Cardinality(AtDevices(q)') \in Nat
               /\ Cardinality(AtDevices(q)') + One(q \in lost')
                       = Cardinality(AtDevices(q)) + One(q \in lost) + One(q = p)
               /\ \A e \in Device : RequestsAtDevice(q, e)' > 0 => RequestsAtDevice(q, e) > 0 \/ (q = p /\ e = d)
    <3>1. /\ IsFiniteSet(AtDevices(q)') /\ AtDevices(q)' = AtDevices(q)
          /\ \A e \in Device : RequestsAtDevice(q, e)' = RequestsAtDevice(q, e) /\ RequestsAtDevice(q, e)' <= 1
      BY <2>1, DevicesKept
    <3>2. One(q \in lost') = One(q \in lost) + One(q = p)
      BY <2>1 DEF One
    <3>3. Cardinality(AtDevices(q)') \in Nat
      BY <3>1, FS_CardinalityType
    <3>4. Cardinality(AtDevices(q)') + One(q \in lost') = Cardinality(AtDevices(q)) + One(q \in lost) + One(q = p)
      <4>1. One(q \in lost) \in Nat /\ One(q = p) \in Nat
        BY DEF One
      <4> QED BY <3>1, <3>2, <3>3, <4>1
    <3> QED BY <3>1, <3>3, <3>4
  <2> QED BY <1>0, <2>1, <2>2
<1> QED BY <1>1, <1>2

-----------------------------------------------------------------------------
(* Every step keeps the types.                                             *)

\* What a step does not touch keeps its type.
LEMMA TypesFrame ==
    ASSUME Types
    PROVE  /\ UNCHANGED sysc => CallTypes'
           /\ UNCHANGED list => ListTypes'
           /\ UNCHANGED <<avail, alive, pend, inbox, outbox>> => DeviceTypes'
           /\ UNCHANGED hpc => HandlerTypes'
           /\ UNCHANGED kh => KhTypes'
           /\ UNCHANGED <<kmIn, kmOut>> => KmTypes'
<1>1. UNCHANGED sysc => CallTypes'
  BY DEF Types, CallTypes
<1>2. UNCHANGED list => ListTypes'
  BY DEF Types, ListTypes
<1>3. UNCHANGED <<avail, alive, pend, inbox, outbox>> => DeviceTypes'
  BY DEF Types, DeviceTypes
<1>4. UNCHANGED hpc => HandlerTypes'
  BY DEF Types, HandlerTypes
<1>5. UNCHANGED kh => KhTypes'
  BY DEF Types, KhTypes
<1>6. UNCHANGED <<kmIn, kmOut>> => KmTypes'
  BY DEF Types, KmTypes
<1> QED BY <1>1, <1>2, <1>3, <1>4, <1>5, <1>6

\* A message about one process.
LEMMA RequestIs ==
    ASSUME NEW p \in Proc, NEW op \in Single
    PROVE  /\ Request(op, <<p>>) \in ToKm /\ Request(op, <<p>>).op = op /\ Range(Request(op, <<p>>).pids) = {p}
           /\ \A ops, q : Names(Request(op, <<p>>), ops, q) <=> op \in ops /\ q = p
<1>1. Range(<<p>>) = {p}
  BY DEF Range
<1>2. /\ Request(op, <<p>>).op = op /\ Request(op, <<p>>).pids = <<p>>
      /\ Request(op, <<p>>) \in [op : Messages, pids : Seq(Proc)]
  BY DEF Request, Single, Messages
<1>3. OnePid(<<p>>)
  BY DEF OnePid
<1> QED BY <1>1, <1>2, <1>3 DEF ToKm, Names

\* A message to Kernel Memory is added.
LEMMA Sends ==
    ASSUME Types, NEW m \in ToKm, kmIn' = Append(kmIn, m), kmOut' = kmOut
    PROVE  KmTypes'
BY DEF Types, KmTypes

\* The message that the handler of Kernel Memory reads.
LEMMA Reads ==
    ASSUME Types, kmOut # <<>>
    PROVE  /\ Head(kmOut) \in FromKm /\ Tail(kmOut) \in Seq(FromKm) /\ kmOut[1] = Head(kmOut) /\ 1 \in DOMAIN kmOut
           /\ Head(kmOut).op \in Messages /\ Head(kmOut).pids \in Seq(Proc) /\ Head(kmOut).ok \in BOOLEAN
           /\ Head(kmOut).op \in Single =>
                 /\ Pid \in Proc /\ Head(kmOut).pids = <<Pid>> /\ Range(Head(kmOut).pids) = {Pid}
                 /\ \A ops, q : Names(Head(kmOut), ops, q) <=> Head(kmOut).op \in ops /\ q = Pid
<1>1. Head(kmOut) \in FromKm /\ Tail(kmOut) \in Seq(FromKm) /\ kmOut[1] = Head(kmOut) /\ 1 \in DOMAIN kmOut
  BY DEF Types, KmTypes
<1>2. Head(kmOut).op \in Messages /\ Head(kmOut).pids \in Seq(Proc) /\ Head(kmOut).ok \in BOOLEAN
  BY <1>1 DEF FromKm
<1>3. ASSUME Head(kmOut).op \in Single
      PROVE  /\ Pid \in Proc /\ Head(kmOut).pids = <<Pid>> /\ Range(Head(kmOut).pids) = {Pid}
             /\ \A ops, q : Names(Head(kmOut), ops, q) <=> Head(kmOut).op \in ops /\ q = Pid
  <2>1. PICK p \in Proc : Head(kmOut).pids = <<p>>
    BY <1>1, <1>3 DEF FromKm, OnePid
  <2>2. Pid = p
    BY <2>1 DEF Pid
  <2>3. Range(<<p>>) = {p}
    BY DEF Range
  <2> QED BY <2>1, <2>2, <2>3 DEF Names
<1> QED BY <1>1, <1>2, <1>3

\* get_available_io_type and what is done with its device.
LEMMA TakeDeviceIs ==
    ASSUME Types, NEW p \in Proc, NEW t \in IoTypes, TakeDevice(p, t)
    PROVE  /\ avail' \in [Device -> BOOLEAN] /\ pend' \in [IoTypes -> Seq(Proc)]
           /\ \/ /\ get_available_io_type(t) = NoDevice
                 /\ pend' = [pend EXCEPT ![t] = Append(pend[t], p)]
              \/ /\ get_available_io_type(t) \in Device /\ Type[get_available_io_type(t)] = t
                 /\ get_available_io_type(t) # NoDevice
                 /\ pend' = pend
<1> DEFINE free == {i \in DOMAIN list[t] : avail[list[t][i]]}
           d == get_available_io_type(t)
<1>0. /\ list[t] \in Seq(Device) /\ \A i \in DOMAIN list[t] : Type[list[t][i]] = t
      /\ avail \in [Device -> BOOLEAN] /\ pend \in [IoTypes -> Seq(Proc)]
  BY DEF Types, ListTypes, DeviceTypes
<1>1. d = NoDevice \/ (d \in Device /\ Type[d] = t /\ d # NoDevice)
  <2>1. CASE free = {}
    BY <2>1 DEF get_available_io_type
  <2>2. CASE free # {}
    <3>1. free \subseteq Nat
      BY <1>0
    <3>2. FirstIn(free) \in free
      BY <2>2, <3>1, FirstExists
    <3>3. d = list[t][FirstIn(free)]
      BY <2>2 DEF get_available_io_type
    <3>4. FirstIn(free) \in DOMAIN list[t]
      BY <3>2
    <3>5. d \in Device /\ Type[d] = t
      <4> HIDE DEF free, d
      <4> QED BY <1>0, <3>3, <3>4
    <3> QED BY <3>5, IoAssumption
  <2> QED BY <2>1, <2>2
<1>2. IF d = NoDevice
      THEN pend' = [pend EXCEPT ![t] = Append(@, p)] /\ UNCHANGED avail
      ELSE avail' = [avail EXCEPT ![d] = FALSE] /\ UNCHANGED pend
  BY DEF TakeDevice
<1> HIDE DEF d
<1>3. CASE d = NoDevice
  <2>1. pend' = [pend EXCEPT ![t] = Append(pend[t], p)] /\ avail' = avail
    BY <1>0, <1>2, <1>3
  <2>2. Append(pend[t], p) \in Seq(Proc)
    BY <1>0
  <2>3. pend' \in [IoTypes -> Seq(Proc)]
    BY <1>0, <2>1, <2>2
  <2> QED BY <1>0, <1>3, <2>1, <2>3 DEF d
<1>4. CASE d # NoDevice
  <2>1. avail' \in [Device -> BOOLEAN]
    BY <1>0, <1>1, <1>2, <1>4
  <2> QED BY <1>0, <1>1, <1>2, <1>4, <2>1 DEF d
<1> QED BY <1>3, <1>4

\* process_set_ready.
LEMMA WakeUpIs ==
    ASSUME Types, NEW p \in Proc, WakeUp(p)
    PROVE  /\ state' \in [Proc -> States] /\ queued' \in [Proc -> Nat] /\ blocked' \in [Proc -> Nat]
           /\ state'[p] = IF state[p] = "SUSP_BLOCK" THEN "SUSP_READY" ELSE "READY"
           /\ queued'[p] = IF state'[p] = "READY" THEN queued[p] + 1 ELSE queued[p]
           /\ \A q \in Proc : q # p => state'[q] = state[q] /\ queued'[q] = queued[q] /\ blocked'[q] = blocked[q]
<1>0. state \in [Proc -> States] /\ queued \in [Proc -> Nat] /\ blocked \in [Proc -> Nat]
  BY DEF Types, ProcTypes
<1>1. /\ state' = [state EXCEPT ![p] = IF state[p] = "SUSP_BLOCK" THEN "SUSP_READY" ELSE "READY"]
      /\ queued' = [queued EXCEPT ![p] = IF state'[p] = "READY" THEN queued[p] + 1 ELSE queued[p]]
      /\ blocked' = [blocked EXCEPT ![p] = IF blocked[p] > 0 THEN blocked[p] - 1 ELSE 0]
  BY <1>0 DEF WakeUp, RemoveOne
<1>2. state' \in [Proc -> States]
  BY <1>0, <1>1 DEF States
<1>3. queued' \in [Proc -> Nat]
  BY <1>0, <1>1
<1>4. blocked' \in [Proc -> Nat]
  BY <1>0, <1>1
<1> QED BY <1>0, <1>1, <1>2, <1>3, <1>4
\* Taking an element out of a list adds none.
LEMMA RemoveFirstWithin ==
    ASSUME NEW S, NEW s \in Seq(S), NEW e
    PROVE  RemoveFirst(s, e) \in Seq(S) /\ Range(RemoveFirst(s, e)) \subseteq Range(s)
<1>1. CASE ~ \E i \in 1 .. Len(s) : s[i] = e
  BY <1>1, RemoveFirstAbsent
<1>2. CASE \E i \in 1 .. Len(s) : s[i] = e
  <2> DEFINE r == RemoveFirst(s, e)
  <2>1. PICK k \in 1 .. Len(s) : /\ r \in Seq(S) /\ Len(r) = Len(s) - 1
                                /\ \A i \in 1 .. (Len(s) - 1) : r[i] = IF i < k THEN s[i] ELSE s[i + 1]
    BY <1>2, RemoveFirstPresent
  <2> HIDE DEF r
  <2>2. ASSUME NEW i \in DOMAIN r PROVE r[i] \in Range(s)
    <3>1. i \in 1 .. (Len(s) - 1) /\ DOMAIN s = 1 .. Len(s) /\ Len(s) \in Nat
      BY <2>1
    <3>2. i \in DOMAIN s /\ i + 1 \in DOMAIN s
      BY <3>1
    <3>3. r[i] = s[i] \/ r[i] = s[i + 1]
      BY <2>1, <3>1
    <3> QED BY <3>2, <3>3 DEF Range
  <2>3. Range(r) \subseteq Range(s)
    BY <2>2 DEF Range
  <2> QED BY <2>1, <2>3 DEF r
<1> QED BY <1>1, <1>2

\* What is sent to a device.
LEMMA DeliverTypes ==
    ASSUME Types, NEW p \in Proc, NEW d \in Device, Deliver(p, d)
    PROVE  inbox' \in [Device -> Seq(Proc)] /\ lost' \subseteq Proc
<1>0. inbox \in [Device -> Seq(Proc)] /\ lost \subseteq Proc
  BY DEF Types, DeviceTypes, ProcTypes
<1>1. \/ inbox' = [inbox EXCEPT ![d] = Append(inbox[d], p)] /\ lost' = lost
      \/ lost' = lost \cup {p} /\ inbox' = inbox
  BY DEF Deliver
<1>2. Append(inbox[d], p) \in Seq(Proc)
  BY <1>0
<1> QED BY <1>0, <1>1, <1>2

\* The system calls ...
LEMMA CallStepTypes ==
    ASSUME Types, NEW p \in Proc,
           Dispatch(p) \/ CpuHandler(p) \/ wait_memory_write_confirmation(p) \/ SendSwapOut(p)
    PROVE  Types'
<1> USE DEF procs, medium, devices, memory
<1>0. ProcTypes /\ sysc \in [Proc -> Calling] /\ KmTypes
  BY DEF Types, CallTypes
<1>1. CASE Dispatch(p)
  <2>1. /\ UNCHANGED <<blocked, suspended, suspending, sysc, list, avail, pend, reading, hpc, alive, inbox, outbox,
                       writers, memSem, kh, kmIn, kmOut, swapped, ended, lost>>
        /\ used' = [used EXCEPT !.calls[p] = @ + 1]
        /\ state' = [state EXCEPT ![p] = "EXEC"]
        /\ queued' = [queued EXCEPT ![p] = @ - 1] /\ queued[p] > 0
    BY <1>1 DEF Dispatch
  <2>2. used' \in [calls : [Proc -> Nat], suspensions : 0 .. MaxSuspensions, updates : 0 .. MaxUpdates]
    <3>1. used \in [calls : [Proc -> Nat], suspensions : 0 .. MaxSuspensions, updates : 0 .. MaxUpdates]
      BY <1>0 DEF ProcTypes
    <3>2. used' = [used EXCEPT !.calls = [used.calls EXCEPT ![p] = @ + 1]]
      BY <2>1, <3>1
    <3>3. [used.calls EXCEPT ![p] = @ + 1] \in [Proc -> Nat]
      BY <3>1
    <3> QED BY <3>1, <3>2, <3>3
  <2>3. state' \in [Proc -> States] /\ queued' \in [Proc -> Nat]
    BY <1>0, <2>1 DEF ProcTypes, States
  <2>4. ProcTypes'
    BY <1>0, <2>1, <2>2, <2>3 DEF ProcTypes
  <2> QED BY <2>1, <2>4, TypesFrame DEF Types
<1>2. ASSUME Block(p), NEW call \in Calling, call.at # "send", sysc' = [sysc EXCEPT ![p] = call] PROVE Types'
  <2>1. /\ UNCHANGED <<queued, suspended, suspending, list, avail, pend, reading, hpc, alive, inbox, outbox,
                       writers, memSem, kh, kmIn, kmOut, swapped, ended, used, lost>>
        /\ state' = [state EXCEPT ![p] = "BLOCK"]
        /\ blocked' = [blocked EXCEPT ![p] = @ + 1]
    BY <1>2 DEF Block
  <2>2. state' \in [Proc -> States] /\ blocked' \in [Proc -> Nat]
    BY <1>0, <2>1 DEF ProcTypes, States
  <2>3. ProcTypes'
    BY <1>0, <2>1, <2>2 DEF ProcTypes
  <2>4. CallTypes'
    BY <1>0, <1>2 DEF Types, CallTypes
  <2> QED BY <2>1, <2>3, <2>4, TypesFrame DEF Types
<1>3. CASE sleep_syscall_manager(p)
  BY <1>2, <1>3 DEF sleep_syscall_manager, Calling, IoTypes
<1>4. CASE stdout_syscall_manager(p)
  BY <1>2, <1>4 DEF stdout_syscall_manager, Calling, IoTypes
<1>5. CASE stdin_syscall_manager(p)
  <2>1. CASE Block(p) /\ sysc' = [sysc EXCEPT ![p] = [at |-> "assign", type |-> "STDIN", dev |-> NoDevice]]
    BY <1>2, <2>1 DEF Calling, IoTypes
  <2>2. CASE /\ UNCHANGED <<queued, blocked, suspended, suspending, sysc, list, avail, pend, reading, hpc, alive,
                            inbox, outbox, writers, memSem, kh, kmOut, swapped, ended, used, lost>>
             /\ state' = [state EXCEPT ![p] = "EXIT"]
             /\ kmIn' = Append(kmIn, Request("PROCESS_END", <<p>>))
    <3>1. state' \in [Proc -> States]
      BY <1>0, <2>2 DEF ProcTypes, States
    <3>2. ProcTypes'
      BY <1>0, <2>2, <3>1 DEF ProcTypes
    <3>3. Request("PROCESS_END", <<p>>) \in ToKm
      BY RequestIs DEF Single
    <3>4. KmTypes'
      BY <2>2, <3>3, Sends
    <3> QED BY <2>2, <3>2, <3>4, TypesFrame DEF Types
  <2> QED BY <1>5, <2>1, <2>2 DEF stdin_syscall_manager
<1>6. NoCall \in Calling /\ NoCall.at = "idle"
  BY DEF NoCall, Calling, IoTypes
<1>7. CASE SendMemoryRead(p)
  <2>1. /\ UNCHANGED <<state, queued, blocked, suspended, suspending, list, avail, pend, reading, hpc, alive, inbox,
                       outbox, writers, memSem, kh, kmOut, swapped, ended, used, lost>>
        /\ kmIn' = Append(kmIn, Request("IO_MEMORY_READ", <<p>>))
        /\ sysc' = [sysc EXCEPT ![p] = NoCall]
    BY <1>7 DEF SendMemoryRead
  <2>2. ProcTypes'
    BY <1>0, <2>1 DEF ProcTypes
  <2>3. CallTypes'
    BY <1>0, <1>6, <2>1 DEF Types, CallTypes
  <2>4. Request("IO_MEMORY_READ", <<p>>) \in ToKm
    BY RequestIs DEF Single
  <2>5. KmTypes'
    BY <2>1, <2>4, Sends
  <2> QED BY <2>1, <2>2, <2>3, <2>5, TypesFrame DEF Types
<1>8. CASE AssignDevice(p)
  <2> DEFINE t == sysc[p].type
             d == get_available_io_type(t)
             call == IF d = NoDevice THEN NoCall ELSE [at |-> "send", type |-> t, dev |-> d]
  <2>1. /\ UNCHANGED <<state, queued, blocked, suspended, suspending, list, hpc, alive, inbox,
                       outbox, writers, memSem, kh, kmIn, kmOut, swapped, ended, used, lost>>
        /\ TakeDevice(p, t)
        /\ sysc' = [sysc EXCEPT ![p] = call]
        /\ reading' = IF t = "STDIN" THEN reading \cup {p} ELSE reading
    BY <1>8, Zenon DEF AssignDevice
  <2>2. t \in IoTypes
    BY <1>0 DEF Calling
  <2> HIDE DEF t
  <2>3. /\ avail' \in [Device -> BOOLEAN] /\ pend' \in [IoTypes -> Seq(Proc)]
        /\ d = NoDevice \/ (d \in Device /\ Type[d] = t /\ d # NoDevice)
    BY <2>1, <2>2, TakeDeviceIs
  <2> HIDE DEF d
  <2>4. call \in Calling /\ (call.at = "send" => call.dev \in Device /\ Type[call.dev] = call.type)
    BY <1>6, <2>2, <2>3 DEF Calling
  <2> HIDE DEF call
  <2>5. ProcTypes'
    BY <1>0, <2>1 DEF ProcTypes
  <2>6. CallTypes'
    BY <1>0, <2>1, <2>4 DEF Types, CallTypes
  <2>7. DeviceTypes'
    BY <2>1, <2>3 DEF Types, DeviceTypes
  <2> QED BY <2>1, <2>5, <2>6, <2>7, TypesFrame DEF Types
<1>9. CASE SendToDevice(p)
  <2>1. /\ UNCHANGED <<state, queued, blocked, suspended, suspending, list, avail, pend, reading, hpc, alive,
                       outbox, writers, memSem, kh, kmIn, kmOut, swapped, ended, used>>
        /\ Deliver(p, sysc[p].dev) /\ sysc[p].at = "send"
        /\ sysc' = [sysc EXCEPT ![p] = NoCall]
    BY <1>9 DEF SendToDevice
  <2>2. sysc[p].dev \in Device
    BY <2>1 DEF Types, CallTypes
  <2>3. inbox' \in [Device -> Seq(Proc)] /\ lost' \subseteq Proc
    BY <2>1, <2>2, DeliverTypes
  <2>4. ProcTypes'
    BY <1>0, <2>1, <2>3 DEF ProcTypes
  <2>5. CallTypes'
    BY <1>0, <1>6, <2>1 DEF Types, CallTypes
  <2>6. DeviceTypes'
    BY <2>1, <2>3 DEF Types, DeviceTypes
  <2> QED BY <2>1, <2>4, <2>5, <2>6, TypesFrame DEF Types
<1>10. CASE wait_memory_write_confirmation(p)
  <2>1. /\ UNCHANGED <<suspended, suspending, sysc, list, avail, pend, reading, hpc, alive, inbox,
                       outbox, kh, kmIn, kmOut, swapped, ended, used, lost>>
        /\ writers[p] > 0 /\ memSem[p] > 0
        /\ writers' = [writers EXCEPT ![p] = @ - 1]
        /\ memSem' = [memSem EXCEPT ![p] = @ - 1]
        /\ WakeUp(p)
    BY <1>10 DEF wait_memory_write_confirmation
  <2>2. state' \in [Proc -> States] /\ queued' \in [Proc -> Nat] /\ blocked' \in [Proc -> Nat]
    BY <2>1, WakeUpIs
  <2>3. writers' \in [Proc -> Nat] /\ memSem' \in [Proc -> Nat]
    BY <1>0, <2>1 DEF ProcTypes
  <2>4. ProcTypes'
    BY <1>0, <2>1, <2>2, <2>3 DEF ProcTypes
  <2> QED BY <2>1, <2>4, TypesFrame DEF Types
<1>11. CASE SendSwapOut(p)
  <2>1. /\ UNCHANGED <<state, queued, blocked, suspended, sysc, list, avail, pend, reading, hpc, alive, inbox,
                       outbox, writers, memSem, kh, kmOut, swapped, ended, used, lost>>
        /\ suspending' = suspending \ {p}
        /\ kmIn' = Append(kmIn, Request("SWAP_OUT", <<p>>))
    BY <1>11 DEF SendSwapOut
  <2>2. ProcTypes'
    BY <1>0, <2>1 DEF ProcTypes
  <2>3. Request("SWAP_OUT", <<p>>) \in ToKm
    BY RequestIs DEF Single
  <2>4. KmTypes'
    BY <2>1, <2>3, Sends
  <2> QED BY <2>1, <2>2, <2>4, TypesFrame DEF Types
<1> QED BY <1>1, <1>3, <1>4, <1>5, <1>7, <1>8, <1>9, <1>10, <1>11 DEF CpuHandler

\* ... the devices and their handlers ...
LEMMA DeviceStepTypes ==
    ASSUME Types, NEW d \in Device,
           Connect(d) \/ handle_operation(d) \/ DeviceStops(d) \/ io_handler(d)
    PROVE  Types'
<1> USE DEF procs, medium, devices, memory
<1>0. /\ ProcTypes /\ DeviceTypes /\ hpc \in [Device -> [at : HandlerPoints, pids : Seq(Proc)]]
      /\ list \in [IoTypes -> Seq(Device)] /\ Type[d] \in IoTypes /\ Type \in [Device -> IoTypes]
  BY IoAssumption DEF Types, HandlerTypes, ListTypes
<1>1. ASSUME NEW h \in [at : HandlerPoints, pids : Seq(Proc)], h.at = "send" => OnePid(h.pids),
             hpc' = [hpc EXCEPT ![d] = h]
      PROVE  HandlerTypes'
  BY <1>0, <1>1 DEF Types, HandlerTypes
<1>2. ASSUME NEW x \in {"next", "recv", "free", "gone"}, hpc' = [hpc EXCEPT ![d] = At(x)]
      PROVE  HandlerTypes'
  <2>1. At(x) \in [at : HandlerPoints, pids : Seq(Proc)] /\ At(x).at # "send"
    BY DEF At, HandlerPoints
  <2> QED BY <1>1, <1>2, <2>1
<1>3. CASE Connect(d)
  <2>1. /\ UNCHANGED <<state, queued, blocked, suspended, suspending, sysc, pend, reading, inbox, outbox,
                       writers, memSem, kh, kmIn, kmOut, swapped, ended, used, lost>>
        /\ alive' = [alive EXCEPT ![d] = TRUE]
        /\ list' = [list EXCEPT ![Type[d]] = Append(@, d)]
        /\ avail' = [avail EXCEPT ![d] = TRUE]
        /\ hpc' = [hpc EXCEPT ![d] = At("next")]
    BY <1>3 DEF Connect
  <2>2. ProcTypes'
    BY <1>0, <2>1 DEF ProcTypes
  <2>3. DeviceTypes'
    BY <1>0, <2>1 DEF DeviceTypes
  <2>4. HandlerTypes'
    BY <1>2, <2>1
  <2>5. ListTypes'
    <3>1. list' \in [IoTypes -> Seq(Device)]
      BY <1>0, <2>1
    <3>2. ASSUME NEW t \in IoTypes, NEW i \in DOMAIN list'[t] PROVE Type[list'[t][i]] = t
      <4>1. CASE t = Type[d]
        <5>1. list'[t] = Append(list[t], d)
          BY <1>0, <2>1, <4>1
        <5> QED BY <1>0, <4>1, <5>1 DEF Types, ListTypes
      <4>2. CASE t # Type[d]
        <5>1. list'[t] = list[t]
          BY <1>0, <2>1, <4>2
        <5> QED BY <5>1 DEF Types, ListTypes
      <4> QED BY <4>1, <4>2
    <3> QED BY <3>1, <3>2 DEF ListTypes
  <2> QED BY <2>1, <2>2, <2>3, <2>4, <2>5, TypesFrame DEF Types
<1>4. CASE handle_operation(d)
  <2>1. /\ UNCHANGED <<state, queued, blocked, suspended, suspending, sysc, list, avail, pend, reading, hpc, alive,
                       writers, memSem, kh, kmIn, kmOut, swapped, ended, used, lost>>
        /\ inbox[d] # <<>>
        /\ inbox' = [inbox EXCEPT ![d] = Tail(@)]
        /\ outbox' = [outbox EXCEPT ![d] = Append(@, Head(inbox[d]))]
    BY <1>4 DEF handle_operation
  <2>2. ProcTypes'
    BY <1>0, <2>1 DEF ProcTypes
  <2>3. inbox[d] \in Seq(Proc) /\ Head(inbox[d]) \in Proc
    BY <1>0, <2>1 DEF DeviceTypes
  <2>4. DeviceTypes'
    BY <1>0, <2>1, <2>3 DEF DeviceTypes
  <2> QED BY <2>1, <2>2, <2>4, TypesFrame DEF Types
<1>5. CASE DeviceStops(d)
  <2>1. /\ UNCHANGED <<state, queued, blocked, suspended, suspending, sysc, list, avail, pend, reading, hpc, outbox,
                       writers, memSem, kh, kmIn, kmOut, swapped, ended, used>>
        /\ alive' = [alive EXCEPT ![d] = FALSE]
        /\ lost' = lost \cup Range(inbox[d])
        /\ inbox' = [inbox EXCEPT ![d] = <<>>]
    BY <1>5 DEF DeviceStops
  <2>2. inbox[d] \in Seq(Proc)
    BY <1>0 DEF DeviceTypes
  <2>3. Range(inbox[d]) \subseteq Proc
    BY <2>2 DEF Range
  <2>4. ProcTypes'
    BY <1>0, <2>1, <2>3 DEF ProcTypes
  <2>5. DeviceTypes'
    BY <1>0, <2>1 DEF DeviceTypes
  <2> QED BY <2>1, <2>4, <2>5, TypesFrame DEF Types
<1>6. CASE LoseDevice(d)
  <2>1. /\ UNCHANGED <<state, queued, blocked, suspended, suspending, sysc, avail, pend, reading, alive, inbox, outbox,
                       writers, memSem, kh, kmIn, kmOut, swapped, ended, used, lost>>
        /\ list' = [list EXCEPT ![Type[d]] = RemoveFirst(@, d)]
        /\ hpc' = [hpc EXCEPT ![d] = At("gone")]
    BY <1>6 DEF LoseDevice
  <2>2. ProcTypes'
    BY <1>0, <2>1 DEF ProcTypes
  <2>3. HandlerTypes'
    BY <1>2, <2>1
  <2>4. ListTypes'
    <3> DEFINE s == list[Type[d]]
    <3>1. s \in Seq(Device)
      BY <1>0
    <3>2. RemoveFirst(s, d) \in Seq(Device) /\ Range(RemoveFirst(s, d)) \subseteq Range(s)
      BY <3>1, RemoveFirstWithin
    <3>3. \A x \in Range(s) : Type[x] = Type[d]
      BY <1>0 DEF Types, ListTypes, Range
    <3>4. list' = [list EXCEPT ![Type[d]] = RemoveFirst(s, d)]
      BY <2>1
    <3> HIDE DEF s
    <3>5. list' \in [IoTypes -> Seq(Device)]
      BY <1>0, <3>2, <3>4
    <3>6. ASSUME NEW t \in IoTypes, NEW i \in DOMAIN list'[t] PROVE Type[list'[t][i]] = t
      <4>1. CASE t = Type[d]
        <5>1. list'[t] = RemoveFirst(s, d)
          BY <1>0, <3>4, <4>1
        <5>2. list'[t][i] \in Range(s)
          BY <3>2, <5>1 DEF Range
        <5> QED BY <3>3, <4>1, <5>2
      <4>2. CASE t # Type[d]
        <5>1. list'[t] = list[t]
          BY <1>0, <3>4, <4>2
        <5> QED BY <5>1 DEF Types, ListTypes
      <4> QED BY <4>1, <4>2
    <3> QED BY <3>5, <3>6 DEF ListTypes
  <2> QED BY <2>1, <2>2, <2>3, <2>4, TypesFrame DEF Types
<1>7. CASE io_finish_process(d)
  <2>1. /\ UNCHANGED <<suspended, suspending, sysc, list, avail, pend, reading, alive, inbox,
                       writers, memSem, kh, kmIn, kmOut, swapped, ended, used, lost>>
        /\ outbox[d] # <<>> /\ WakeUp(Head(outbox[d]))
        /\ outbox' = [outbox EXCEPT ![d] = Tail(@)]
        /\ hpc' = [hpc EXCEPT ![d] = At("free")]
    BY <1>7 DEF io_finish_process
  <2>2. outbox[d] \in Seq(Proc) /\ Head(outbox[d]) \in Proc
    BY <1>0, <2>1 DEF DeviceTypes
  <2>3. state' \in [Proc -> States] /\ queued' \in [Proc -> Nat] /\ blocked' \in [Proc -> Nat]
    BY <2>1, <2>2, WakeUpIs
  <2>4. ProcTypes'
    BY <1>0, <2>1, <2>3 DEF ProcTypes
  <2>5. DeviceTypes'
    BY <1>0, <2>1, <2>2 DEF DeviceTypes
  <2>6. HandlerTypes'
    BY <1>2, <2>1
  <2> QED BY <2>1, <2>4, <2>5, <2>6, TypesFrame DEF Types
<1>8. CASE StdinAnswer(d)
  <2> DEFINE p == Head(outbox[d])
  <2>1. /\ UNCHANGED <<state, queued, blocked, suspended, suspending, sysc, list, avail, pend, alive, inbox,
                       writers, memSem, kh, kmOut, swapped, ended, used, lost>>
        /\ outbox[d] # <<>>
        /\ outbox' = [outbox EXCEPT ![d] = Tail(@)]
        /\ \/ /\ reading' = reading \ {p}
              /\ kmIn' = Append(kmIn, Request("IO_MEMORY_WRITE", <<p>>))
              /\ hpc' = [hpc EXCEPT ![d] = For("free", p)]
           \/ UNCHANGED <<reading, kmIn, hpc>>
    BY <1>8, Zenon DEF StdinAnswer
  <2>2. outbox[d] \in Seq(Proc) /\ p \in Proc
    BY <1>0, <2>1 DEF DeviceTypes
  <2> HIDE DEF p
  <2>3. ProcTypes'
    BY <1>0, <2>1 DEF ProcTypes
  <2>4. DeviceTypes'
    BY <1>0, <2>1, <2>2 DEF DeviceTypes
  <2>5. HandlerTypes'
    <3>1. For("free", p) \in [at : HandlerPoints, pids : Seq(Proc)] /\ For("free", p).at # "send"
      BY <2>2 DEF For, HandlerPoints
    <3> QED BY <1>1, <2>1, <3>1, TypesFrame
  <2>6. KmTypes'
    <3>1. Request("IO_MEMORY_WRITE", <<p>>) \in ToKm
      BY <2>2, RequestIs DEF Single
    <3> QED BY <2>1, <3>1, Sends, TypesFrame
  <2> QED BY <2>1, <2>3, <2>4, <2>5, <2>6, TypesFrame DEF Types
<1>9. CASE SetAvailable(d)
  <2>1. /\ UNCHANGED <<state, queued, blocked, suspended, suspending, sysc, list, pend, reading, alive, inbox, outbox,
                       memSem, kh, kmIn, kmOut, swapped, ended, used, lost>>
        /\ avail' = [avail EXCEPT ![d] = TRUE]
        /\ writers' = [p \in Proc |-> IF p \in Range(hpc[d].pids) THEN writers[p] + 1 ELSE writers[p]]
        /\ hpc' = [hpc EXCEPT ![d] = At("next")]
    BY <1>9 DEF SetAvailable
  <2>2. writers' \in [Proc -> Nat]
    BY <1>0, <2>1 DEF ProcTypes
  <2>3. ProcTypes'
    BY <1>0, <2>1, <2>2 DEF ProcTypes
  <2>4. DeviceTypes'
    BY <1>0, <2>1 DEF DeviceTypes
  <2>5. HandlerTypes'
    BY <1>2, <2>1
  <2> QED BY <2>1, <2>3, <2>4, <2>5, TypesFrame DEF Types
<1>10. CASE handle_next_operation(d)
  <2> DEFINE t == Type[d]
             p == Head(pend[t])
  <2>1. /\ UNCHANGED <<state, queued, blocked, suspended, suspending, sysc, list, reading, alive, inbox, outbox,
                       writers, memSem, kh, kmIn, kmOut, swapped, ended, used, lost>>
        /\ \/ hpc' = [hpc EXCEPT ![d] = At("recv")] /\ UNCHANGED <<pend, avail>>
           \/ /\ pend[t] # <<>>
              /\ hpc' = [hpc EXCEPT ![d] = For("send", p)]
              /\ pend' = [pend EXCEPT ![t] = Tail(@)]
              /\ avail' = [avail EXCEPT ![d] = FALSE]
    BY <1>10, Zenon DEF handle_next_operation
  <2>2. pend[t] \in Seq(Proc) /\ (pend[t] # <<>> => p \in Proc /\ Tail(pend[t]) \in Seq(Proc)) /\ t \in IoTypes
    BY <1>0 DEF DeviceTypes
  <2> HIDE DEF p, t
  <2>3. ProcTypes'
    BY <1>0, <2>1 DEF ProcTypes
  <2>4. DeviceTypes'
    <3>1. avail' \in [Device -> BOOLEAN]
      BY <1>0, <2>1 DEF DeviceTypes
    <3>2. pend' \in [IoTypes -> Seq(Proc)]
      BY <1>0, <2>1, <2>2 DEF DeviceTypes
    <3> QED BY <1>0, <2>1, <3>1, <3>2 DEF DeviceTypes
  <2>5. HandlerTypes'
    <3>1. CASE hpc' = [hpc EXCEPT ![d] = At("recv")]
      BY <1>2, <3>1
    <3>2. CASE pend[t] # <<>> /\ hpc' = [hpc EXCEPT ![d] = For("send", p)]
      <4>1. For("send", p) \in [at : HandlerPoints, pids : Seq(Proc)] /\ OnePid(For("send", p).pids)
        BY <2>2, <3>2 DEF For, HandlerPoints, OnePid
      <4> QED BY <1>1, <3>2, <4>1
    <3> QED BY <2>1, <3>1, <3>2
  <2> QED BY <2>1, <2>3, <2>4, <2>5, TypesFrame DEF Types
<1>11. CASE SendPending(d)
  <2>1. /\ UNCHANGED <<state, queued, blocked, suspended, suspending, sysc, list, avail, pend, reading, alive, outbox,
                       writers, memSem, kh, kmIn, kmOut, swapped, ended, used>>
        /\ hpc[d].at = "send" /\ Deliver(Head(hpc[d].pids), d)
        /\ hpc' = [hpc EXCEPT ![d] = At("recv")]
    BY <1>11 DEF SendPending
  <2>2. Head(hpc[d].pids) \in Proc
    BY <2>1 DEF Types, HandlerTypes, OnePid
  <2>3. inbox' \in [Device -> Seq(Proc)] /\ lost' \subseteq Proc
    BY <2>1, <2>2, DeliverTypes
  <2>4. ProcTypes'
    BY <1>0, <2>1, <2>3 DEF ProcTypes
  <2>5. DeviceTypes'
    BY <1>0, <2>1, <2>3 DEF DeviceTypes
  <2>6. HandlerTypes'
    BY <1>2, <2>1
  <2> QED BY <2>1, <2>4, <2>5, <2>6, TypesFrame DEF Types
<1> QED BY <1>3, <1>4, <1>5, <1>6, <1>7, <1>8, <1>9, <1>10, <1>11 DEF io_handler

\* The end of a process.
LEMMA EndProcessTypes ==
    ASSUME Types, NEW p \in Proc, EndProcess(p)
    PROVE  state' \in [Proc -> States] /\ kmIn' \in Seq(ToKm)
<1> DEFINE m == Request("PROCESS_END", <<p>>)
<1>1. m \in ToKm
  BY RequestIs DEF Single
<1>2. state' = [state EXCEPT ![p] = "EXIT"] /\ kmIn' = Append(kmIn, m)
  BY DEF EndProcess
<1>3. state \in [Proc -> States] /\ kmIn \in Seq(ToKm)
  BY DEF Types, ProcTypes, KmTypes
<1>4. state' \in [Proc -> States]
  BY <1>2, <1>3 DEF States
<1> HIDE DEF m
<1>5. kmIn' \in Seq(ToKm)
  BY <1>1, <1>2, <1>3
<1> QED BY <1>4, <1>5

\* ... the handler of Kernel Memory ...
LEMMA HandlerStepTypes ==
    ASSUME Types, kernel_memory_handler
    PROVE  Types'
<1> USE DEF procs, medium, devices, memory
<1> DEFINE KhSet == [at : KhPoints, pids : Seq(Proc), dev : Device \cup {NoDevice}, seen : States]
           KhOK(k) == /\ k.at \in {"assign", "send", "suspend"} => OnePid(k.pids)
                      /\ k.at \in {"block", "apply"} => k.pids # <<>>
                      /\ k.at = "send" => k.dev \in Device /\ Type[k.dev] = "STDOUT"
<1>0. ProcTypes /\ DeviceTypes /\ KmTypes /\ kh \in KhSet /\ KhOK(kh)
  BY DEF Types, KhTypes
<1>1. kh' \in KhSet /\ KhOK(kh') => KhTypes'
  BY DEF KhTypes
<1>2. Idle(kh) \in KhSet /\ KhOK(Idle(kh)) /\ Idle(kh).at = "idle"
  <2>1. "idle" \in KhPoints /\ "READY" \in States /\ <<>> \in Seq(Proc)
    BY DEF KhPoints, States
  <2>2. Idle(kh) \in KhSet /\ Idle(kh).at = "idle"
    BY <1>0, <2>1 DEF Idle
  <2> QED BY <2>2
<1>3. ASSUME NEW at \in KhPoints, NEW q \in Seq(Proc)
      PROVE  /\ [kh EXCEPT !.at = at, !.pids = q] \in KhSet
             /\ [kh EXCEPT !.at = at, !.pids = q].at = at
             /\ [kh EXCEPT !.at = at, !.pids = q].pids = q
  BY <1>0
<1>4. \A p \in Proc : <<p>> \in Seq(Proc) /\ OnePid(<<p>>) /\ <<p>> # <<>>
  BY DEF OnePid
<1>5. /\ KhPoints = {"idle", "assign", "send", "block", "suspend", "in", "apply"}
      /\ {"IO_MEMORY_READ", "IO_MEMORY_WRITE", "SWAP_OUT", "PROCESS_END"} = Single
  BY DEF KhPoints, Single
<1> HIDE DEF KhSet
<1>6. CASE ReceiveRead
  <2>1. /\ UNCHANGED <<queued, blocked, suspended, suspending, sysc, list, avail, pend, reading, hpc, alive, inbox,
                       outbox, writers, memSem, swapped, ended, used, lost>>
        /\ kmOut # <<>> /\ Head(kmOut).op = "IO_MEMORY_READ"
        /\ UNCHANGED <<state, kmIn>> \/ EndProcess(Pid)
        /\ kh' = [kh EXCEPT !.at = "assign", !.pids = <<Pid>>]
        /\ kmOut' = Tail(kmOut)
    BY <1>6 DEF ReceiveRead, Receives
  <2>2. Pid \in Proc /\ Tail(kmOut) \in Seq(FromKm)
    BY <1>5, <2>1, Reads
  <2>3. ProcTypes'
    <3>1. state' \in [Proc -> States]
      BY <1>0, <2>1, <2>2, EndProcessTypes DEF ProcTypes
    <3> QED BY <1>0, <2>1, <3>1 DEF ProcTypes
  <2>4. KmTypes'
    <3>1. kmIn' \in Seq(ToKm)
      BY <1>0, <2>1, <2>2, EndProcessTypes DEF KmTypes
    <3> QED BY <2>1, <2>2, <3>1 DEF KmTypes
  <2>5. kh' \in KhSet /\ KhOK(kh')
    <3> DEFINE q == <<Pid>>
               at == "assign"
    <3>1. q \in Seq(Proc) /\ OnePid(q) /\ at \in KhPoints
      BY <1>4, <1>5, <2>2
    <3>2. kh' = [kh EXCEPT !.at = at, !.pids = q]
      BY <2>1
    <3> HIDE DEF q
    <3> QED BY <1>3, <3>1, <3>2
  <2> QED BY <1>1, <2>1, <2>3, <2>4, <2>5, TypesFrame DEF Types
<1>7. CASE StdoutAssign
  <2> DEFINE d == get_available_io_type("STDOUT")
  <2>1. /\ UNCHANGED <<state, queued, blocked, suspended, suspending, sysc, list, reading, hpc, alive, inbox,
                       outbox, writers, memSem, kmIn, kmOut, swapped, ended, used, lost>>
        /\ kh.at = "assign"
        /\ TakeDevice(Head(kh.pids), "STDOUT")
        /\ kh' = IF d = NoDevice THEN Idle(kh) ELSE [kh EXCEPT !.at = "send", !.dev = d]
    BY <1>7, Zenon DEF StdoutAssign
  <2>2. OnePid(kh.pids) /\ Head(kh.pids) \in Proc
    BY <1>0, <2>1 DEF OnePid
  <2>3. /\ avail' \in [Device -> BOOLEAN] /\ pend' \in [IoTypes -> Seq(Proc)]
        /\ d = NoDevice \/ (d \in Device /\ Type[d] = "STDOUT" /\ d # NoDevice)
    BY <2>1, <2>2, TakeDeviceIs DEF IoTypes
  <2> HIDE DEF d
  <2>4. ProcTypes'
    BY <1>0, <2>1 DEF ProcTypes
  <2>5. DeviceTypes'
    BY <1>0, <2>1, <2>3 DEF DeviceTypes
  <2>6. kh' \in KhSet /\ KhOK(kh')
    <3>1. CASE d = NoDevice
      BY <1>2, <2>1, <3>1
    <3>2. CASE d # NoDevice
      BY <1>0, <2>1, <2>2, <2>3, <3>2 DEF KhSet, KhPoints
    <3> QED BY <3>1, <3>2
  <2> QED BY <1>1, <2>1, <2>4, <2>5, <2>6, TypesFrame DEF Types
<1>8. CASE StdoutSend
  <2>1. /\ UNCHANGED <<state, queued, blocked, suspended, suspending, sysc, list, avail, pend, reading, hpc, alive,
                       outbox, writers, memSem, kmIn, kmOut, swapped, ended, used>>
        /\ kh.at = "send" /\ Deliver(Head(kh.pids), kh.dev)
        /\ kh' = Idle(kh)
    BY <1>8 DEF StdoutSend
  <2>2. Head(kh.pids) \in Proc /\ kh.dev \in Device
    BY <1>0, <2>1 DEF OnePid
  <2>3. inbox' \in [Device -> Seq(Proc)] /\ lost' \subseteq Proc
    BY <2>1, <2>2, DeliverTypes
  <2>4. ProcTypes'
    BY <1>0, <2>1, <2>3 DEF ProcTypes
  <2>5. DeviceTypes'
    BY <1>0, <2>1, <2>3 DEF DeviceTypes
  <2> QED BY <1>1, <1>2, <2>1, <2>4, <2>5, TypesFrame DEF Types
<1>9. CASE ReceiveWrite
  <2>1. /\ UNCHANGED <<queued, blocked, suspended, suspending, sysc, list, avail, pend, reading, hpc, alive, inbox,
                       outbox, writers, kh, swapped, ended, used, lost>>
        /\ kmOut # <<>> /\ Head(kmOut).op = "IO_MEMORY_WRITE"
        /\ \/ memSem' = [memSem EXCEPT ![Pid] = @ + 1] /\ UNCHANGED <<state, kmIn>>
           \/ EndProcess(Pid) /\ UNCHANGED memSem
        /\ kmOut' = Tail(kmOut)
    BY <1>9 DEF ReceiveWrite, Receives
  <2>2. Pid \in Proc /\ Tail(kmOut) \in Seq(FromKm)
    BY <1>5, <2>1, Reads
  <2>3. ProcTypes'
    <3>1. state' \in [Proc -> States]
      BY <1>0, <2>1, <2>2, EndProcessTypes DEF ProcTypes
    <3>2. memSem \in [Proc -> Nat]
      BY <1>0 DEF ProcTypes
    <3>3. memSem' \in [Proc -> Nat]
      BY <2>1, <2>2, <3>2
    <3> QED BY <1>0, <2>1, <3>1, <3>3 DEF ProcTypes
  <2>4. KmTypes'
    <3>1. kmIn' \in Seq(ToKm)
      BY <1>0, <2>1, <2>2, EndProcessTypes DEF KmTypes
    <3> QED BY <2>1, <2>2, <3>1 DEF KmTypes
  <2> QED BY <2>1, <2>3, <2>4, TypesFrame DEF Types
<1>10. CASE wait_confirmation_swap_out
  <2>1. /\ UNCHANGED <<blocked, suspended, suspending, sysc, list, avail, pend, reading, hpc, alive, inbox,
                       outbox, writers, memSem, kmIn, swapped, ended, used, lost>>
        /\ kmOut # <<>> /\ Head(kmOut).op = "SWAP_OUT"
        /\ \E x \in States \cup {state[Pid]} : state' = [state EXCEPT ![Pid] = x]
        /\ \E x \in {queued[Pid], queued[Pid] + 1} : queued' = [queued EXCEPT ![Pid] = x]
        /\ kh' = kh \/ \E x \in {"block", "suspend"} : kh' = [kh EXCEPT !.at = x, !.pids = <<Pid>>]
        /\ kmOut' = Tail(kmOut)
    <3>1. /\ UNCHANGED <<blocked, suspended, suspending, sysc, list, avail, pend, reading, hpc, alive, inbox,
                         outbox, writers, memSem, kmIn, swapped, ended, used, lost>>
          /\ kmOut # <<>> /\ Head(kmOut).op = "SWAP_OUT"
          /\ kmOut' = Tail(kmOut)
      BY <1>10 DEF wait_confirmation_swap_out, Receives
    <3> DEFINE rejected == ~Head(kmOut).ok /\ state[Pid] \in {"SUSP_READY", "SUSP_BLOCK"}
               confirmed == Head(kmOut).ok /\ state[Pid] \in {"SUSP_READY", "SUSP_BLOCK"}
               x == IF rejected THEN IF state[Pid] = "SUSP_READY" THEN "READY" ELSE "BLOCK" ELSE state[Pid]
    <3>2. /\ state' = [state EXCEPT ![Pid] = IF rejected THEN IF @ = "SUSP_READY" THEN "READY" ELSE "BLOCK" ELSE @]
          /\ queued' = [queued EXCEPT ![Pid] = IF rejected /\ state[Pid] = "SUSP_READY" THEN @ + 1 ELSE @]
          /\ kh' = CASE rejected /\ state[Pid] = "SUSP_BLOCK" -> [kh EXCEPT !.at = "block", !.pids = <<Pid>>]
                     [] confirmed -> [kh EXCEPT !.at = "suspend", !.pids = <<Pid>>]
                     [] OTHER -> kh
      BY <1>10 DEF wait_confirmation_swap_out
    <3>3. Pid \in Proc
      BY <1>5, <3>1, Reads
    <3>4. state' = [state EXCEPT ![Pid] = x]
      BY <1>0, <3>2, <3>3 DEF ProcTypes
    <3>5. x \in States \cup {state[Pid]}
      BY DEF States
    <3>6. \E z \in {queued[Pid], queued[Pid] + 1} : queued' = [queued EXCEPT ![Pid] = z]
      BY <1>0, <3>2, <3>3 DEF ProcTypes
    <3>7. kh' = kh \/ \E z \in {"block", "suspend"} : kh' = [kh EXCEPT !.at = z, !.pids = <<Pid>>]
      <4> HIDE DEF rejected, confirmed
      <4>1. CASE rejected /\ state[Pid] = "SUSP_BLOCK"
        BY <3>2, <4>1 DEF rejected, confirmed
      <4>2. CASE confirmed
        BY <3>2, <4>2 DEF rejected, confirmed
      <4>3. CASE ~confirmed /\ ~(rejected /\ state[Pid] = "SUSP_BLOCK")
        BY <3>2, <4>3
      <4> QED BY <4>1, <4>2, <4>3
    <3> HIDE DEF x
    <3> QED BY <3>1, <3>4, <3>5, <3>6, <3>7
  <2>2. Pid \in Proc /\ Tail(kmOut) \in Seq(FromKm)
    BY <1>5, <2>1, Reads
  <2>3. ProcTypes'
    <3>1. state' \in [Proc -> States]
      BY <1>0, <2>1, <2>2 DEF ProcTypes
    <3>2. queued' \in [Proc -> Nat]
      BY <1>0, <2>1, <2>2 DEF ProcTypes
    <3> QED BY <1>0, <2>1, <3>1, <3>2 DEF ProcTypes
  <2>4. KmTypes'
    BY <1>0, <2>1, <2>2 DEF KmTypes
  <2>5. kh' \in KhSet /\ KhOK(kh')
    <3>1. CASE kh' = kh
      BY <1>0, <3>1
    <3>2. ASSUME NEW x \in {"block", "suspend"}, kh' = [kh EXCEPT !.at = x, !.pids = <<Pid>>] PROVE kh' \in KhSet /\ KhOK(kh')
      <4> DEFINE q == <<Pid>>
      <4>1. q \in Seq(Proc) /\ OnePid(q) /\ x \in KhPoints /\ q # <<>>
        BY <1>4, <1>5, <2>2
      <4>2. kh' = [kh EXCEPT !.at = x, !.pids = q]
        BY <3>2
      <4> HIDE DEF q
      <4> QED BY <1>3, <4>1, <4>2
    <3> QED BY <2>1, <3>1, <3>2
  <2> QED BY <1>1, <2>1, <2>3, <2>4, <2>5, TypesFrame DEF Types
<1>11. CASE ListBlocked
  <2>1. /\ UNCHANGED <<state, queued, suspended, suspending, sysc, list, avail, pend, reading, hpc, alive, inbox,
                       outbox, writers, memSem, kmIn, kmOut, swapped, ended, used, lost>>
        /\ kh.at = "block"
        /\ blocked' = [blocked EXCEPT ![Head(kh.pids)] = @ + 1]
        /\ kh' = [kh EXCEPT !.at = "in", !.pids = Tail(@)]
    BY <1>11 DEF ListBlocked
  <2>2. kh.pids \in Seq(Proc) /\ kh.pids # <<>>
    BY <1>0, <2>1 DEF KhSet
  <2>3. Head(kh.pids) \in Proc /\ Tail(kh.pids) \in Seq(Proc)
    BY <2>2
  <2>4. ProcTypes'
    <3> DEFINE h == Head(kh.pids)
    <3>0. blocked \in [Proc -> Nat] /\ h \in Proc /\ blocked' = [blocked EXCEPT ![h] = @ + 1]
      BY <1>0, <2>1, <2>3 DEF ProcTypes
    <3> HIDE DEF h
    <3>1. blocked' \in [Proc -> Nat]
      BY <3>0
    <3> QED BY <1>0, <2>1, <3>1 DEF ProcTypes
  <2>5. kh' \in KhSet /\ KhOK(kh')
    BY <1>0, <2>1, <2>3 DEF KhSet, KhPoints
  <2> QED BY <1>1, <2>1, <2>4, <2>5, TypesFrame DEF Types
<1>12. CASE ListSuspended
  <2>1. /\ UNCHANGED <<state, queued, blocked, suspending, sysc, list, avail, pend, reading, hpc, alive, inbox,
                       outbox, writers, memSem, kmIn, kmOut, swapped, ended, used, lost>>
        /\ kh.at = "suspend"
        /\ suspended' = Append(suspended, Head(kh.pids))
        /\ kh' = Idle(kh)
    BY <1>12 DEF ListSuspended
  <2>2. Head(kh.pids) \in Proc
    BY <1>0, <2>1 DEF OnePid
  <2>3. ProcTypes'
    <3>1. suspended' \in Seq(Proc)
      BY <1>0, <2>1, <2>2 DEF ProcTypes
    <3> QED BY <1>0, <2>1, <3>1 DEF ProcTypes
  <2> QED BY <1>1, <1>2, <2>1, <2>3, TypesFrame DEF Types
<1>13. CASE request_swap_in
  <2> DEFINE ready == Filter(suspended, {p \in Proc : state[p] = "SUSP_READY"})
             sorted == sort_processes_by_priority(ready)
  <2>1. /\ UNCHANGED <<state, queued, blocked, suspended, suspending, sysc, list, avail, pend, reading, hpc, alive,
                       inbox, outbox, writers, memSem, kh, swapped, ended, used, lost>>
        /\ kmOut # <<>>
        /\ kmIn' = kmIn \/ kmIn' = Append(kmIn, Request("SWAP_IN", sorted))
        /\ kmOut' = Tail(kmOut)
    BY <1>13, Zenon DEF request_swap_in, Receives
  <2>2. sorted \in Seq(Proc)
    <3>1. suspended \in Seq(Proc)
      BY <1>0 DEF ProcTypes
    <3>2. ready \in Seq(Proc)
      BY <3>1, FilterIs
    <3> QED BY <3>2, SortIs
  <2> HIDE DEF sorted
  <2>3. ProcTypes'
    BY <1>0, <2>1 DEF ProcTypes
  <2>4. Request("SWAP_IN", sorted) \in ToKm
    BY <2>2 DEF Request, ToKm, Messages, Single
  <2>5. KmTypes'
    <3> DEFINE m == Request("SWAP_IN", sorted)
    <3>1. kmIn \in Seq(ToKm) /\ m \in ToKm /\ (kmIn' = kmIn \/ kmIn' = Append(kmIn, m))
      BY <1>0, <2>1, <2>4 DEF KmTypes
    <3> HIDE DEF m
    <3>2. kmIn' \in Seq(ToKm)
      BY <3>1
    <3> QED BY <2>1, <3>2, Reads DEF KmTypes
  <2> QED BY <2>1, <2>3, <2>5, TypesFrame DEF Types
<1>14. CASE ReceiveSwapIn
  <2>1. /\ UNCHANGED <<state, queued, blocked, suspended, suspending, sysc, list, avail, pend, reading, hpc, alive,
                       inbox, outbox, writers, memSem, kmIn, swapped, ended, used, lost>>
        /\ kmOut # <<>>
        /\ kh' = [kh EXCEPT !.at = "in", !.pids = Head(kmOut).pids]
        /\ kmOut' = Tail(kmOut)
    BY <1>14 DEF ReceiveSwapIn, Receives
  <2>2. Head(kmOut).pids \in Seq(Proc) /\ Tail(kmOut) \in Seq(FromKm)
    BY <2>1, Reads
  <2>3. ProcTypes'
    BY <1>0, <2>1 DEF ProcTypes
  <2>4. KmTypes'
    BY <1>0, <2>1, <2>2 DEF KmTypes
  <2>5. kh' \in KhSet /\ KhOK(kh')
    BY <1>0, <2>1, <2>2 DEF KhSet, KhPoints
  <2> QED BY <1>1, <2>1, <2>3, <2>4, <2>5, TypesFrame DEF Types
<1>15. CASE SwapInNext
  <2>1. /\ UNCHANGED <<state, queued, blocked, suspending, sysc, list, avail, pend, reading, hpc, alive, inbox,
                       outbox, writers, memSem, kmIn, kmOut, swapped, ended, used, lost>>
        /\ \/ kh' = Idle(kh) /\ UNCHANGED suspended
           \/ /\ kh.pids # <<>>
              /\ suspended' = RemoveFirst(suspended, Head(kh.pids))
              /\ kh' = [kh EXCEPT !.at = "apply", !.seen = state[Head(kh.pids)]]
    BY <1>15 DEF SwapInNext
  <2>2. kh.pids # <<>> => Head(kh.pids) \in Proc /\ state[Head(kh.pids)] \in States
    BY <1>0 DEF KhSet, ProcTypes
  <2>3. ProcTypes'
    <3>1. suspended' \in Seq(Proc)
      BY <1>0, <2>1, RemoveFirstWithin DEF ProcTypes
    <3> QED BY <1>0, <2>1, <3>1 DEF ProcTypes
  <2>4. kh' \in KhSet /\ KhOK(kh')
    <3>1. CASE kh' = Idle(kh)
      BY <1>2, <3>1
    <3>2. CASE kh.pids # <<>> /\ kh' = [kh EXCEPT !.at = "apply", !.seen = state[Head(kh.pids)]]
      BY <1>0, <2>2, <3>2 DEF KhSet, KhPoints
    <3> QED BY <2>1, <3>1, <3>2
  <2> QED BY <1>1, <2>1, <2>3, <2>4, TypesFrame DEF Types
<1>16. CASE SwapInApply
  <2> DEFINE p == Head(kh.pids)
             x == CASE kh.seen = "SUSP_READY" -> "READY" [] kh.seen = "SUSP_BLOCK" -> "BLOCK" [] OTHER -> state[p]
  <2>0. kh.at = "apply"
    BY <1>16, Zenon DEF SwapInApply
  <2>1. UNCHANGED <<blocked, suspended, suspending, sysc, list, avail, pend, reading, hpc, alive, inbox,
                    outbox, writers, memSem, kmIn, kmOut, swapped, ended, used, lost>>
    BY <1>16 DEF SwapInApply
  <2>2. p \in Proc /\ Tail(kh.pids) \in Seq(Proc)
    BY <1>0, <2>0 DEF KhSet
  <2>3. /\ state' = [state EXCEPT ![p] = x]
        /\ queued' = [queued EXCEPT ![p] = IF kh.seen = "SUSP_READY" THEN queued[p] + 1 ELSE queued[p]]
        /\ kh' = IF kh.seen = "SUSP_BLOCK" THEN [kh EXCEPT !.at = "block"]
                 ELSE [kh EXCEPT !.at = "in", !.pids = Tail(kh.pids)]
    BY <1>0, <1>16, <2>2 DEF SwapInApply, ProcTypes, KhSet
  <2>4. x \in States
    BY <1>0, <2>2 DEF ProcTypes, States
  <2> HIDE DEF p, x
  <2>5. ProcTypes'
    <3>0. state \in [Proc -> States] /\ queued \in [Proc -> Nat]
      BY <1>0 DEF ProcTypes
    <3>1. state' \in [Proc -> States] /\ queued' \in [Proc -> Nat]
      BY <2>2, <2>3, <2>4, <3>0
    <3> QED BY <1>0, <2>1, <3>1 DEF ProcTypes
  <2>6. kh' \in KhSet /\ KhOK(kh')
    BY <1>0, <2>0, <2>2, <2>3 DEF KhSet, KhPoints
  <2> QED BY <1>1, <2>1, <2>5, <2>6, TypesFrame DEF Types
<1> QED BY <1>6, <1>7, <1>8, <1>9, <1>10, <1>11, <1>12, <1>13, <1>14, <1>15, <1>16 DEF kernel_memory_handler

\* ... Kernel Memory and the suspension_manager.
LEMMA OtherStepTypes ==
    ASSUME Types, suspension_manager \/ KernelMemory \/ MemoryUpdate
    PROVE  Types'
<1> USE DEF procs, medium, devices, memory
<1>0. /\ ProcTypes /\ KmTypes
      /\ used \in [calls : [Proc -> Nat], suspensions : 0 .. MaxSuspensions, updates : 0 .. MaxUpdates]
      /\ MaxSuspensions \in Nat /\ MaxUpdates \in Nat
  BY IoAssumption DEF Types, ProcTypes
<1>1. CASE suspension_manager
  <2>1. /\ UNCHANGED <<queued, suspended, sysc, list, avail, pend, reading, hpc, alive, inbox, outbox,
                       writers, memSem, kh, kmIn, kmOut, swapped, ended, lost>>
        /\ used.suspensions < MaxSuspensions /\ used' = [used EXCEPT !.suspensions = @ + 1]
    BY <1>1 DEF suspension_manager
  <2>2. PICK S \in SUBSET {p \in Proc : blocked[p] > 0 /\ state[p] = "BLOCK"} :
          /\ state' = [p \in Proc |-> IF p \in S THEN "SUSP_BLOCK" ELSE state[p]]
          /\ blocked' = [p \in Proc |-> IF p \in S THEN blocked[p] - 1 ELSE blocked[p]]
          /\ suspending' = S
    BY <1>1 DEF suspension_manager
  <2>3. used' \in [calls : [Proc -> Nat], suspensions : 0 .. MaxSuspensions, updates : 0 .. MaxUpdates]
    BY <1>0, <2>1
  <2>4. state' \in [Proc -> States]
    BY <1>0, <2>2 DEF ProcTypes, States
  <2>5. blocked' \in [Proc -> Nat]
    BY <1>0, <2>2 DEF ProcTypes
  <2>6. ProcTypes'
    BY <1>0, <2>1, <2>2, <2>3, <2>4, <2>5 DEF ProcTypes
  <2> QED BY <2>1, <2>6, TypesFrame DEF Types
<1>2. CASE KernelMemory
  <2> DEFINE m == Head(kmIn)
  <2>1. /\ UNCHANGED <<state, queued, blocked, suspended, suspending, sysc, list, avail, pend, reading, hpc, alive,
                       inbox, outbox, writers, memSem, kh, used, lost>>
        /\ kmIn # <<>> /\ kmIn' = Tail(kmIn)
    BY <1>2 DEF KernelMemory
  <2>2. \/ m.op \in IoOps /\ UNCHANGED <<swapped, ended>> /\ \E ok \in BOOLEAN : kmOut' = Append(kmOut, Answer(m.op, m.pids, ok))
        \/ /\ m.op = "SWAP_OUT" /\ UNCHANGED ended
           /\ \E ok \in BOOLEAN : /\ kmOut' = Append(kmOut, Answer(m.op, m.pids, ok))
                                  /\ swapped' = IF ok THEN swapped \cup {Head(m.pids)} ELSE swapped
        \/ /\ m.op = "SWAP_IN" /\ UNCHANGED ended
           /\ \E T \in SUBSET ((Range(m.pids) \cap swapped) \ ended) :
                 /\ kmOut' = Append(kmOut, Answer(m.op, Filter(m.pids, T), TRUE))
                 /\ swapped' = swapped \ T
        \/ m.op = "PROCESS_END" /\ ended' = ended \cup {Head(m.pids)} /\ UNCHANGED <<swapped, kmOut>>
    BY <1>2, Zenon DEF KernelMemory, IoOps
  <2>3. /\ m \in ToKm /\ Tail(kmIn) \in Seq(ToKm) /\ m.pids \in Seq(Proc) /\ m.op \in Messages
        /\ m.op \in Single => Head(m.pids) \in Proc /\ OnePid(m.pids)
    <3>1. m \in ToKm /\ Tail(kmIn) \in Seq(ToKm)
      BY <1>0, <2>1 DEF KmTypes
    <3> QED BY <3>1 DEF ToKm, OnePid
  <2> HIDE DEF m
  <2>4. swapped' \subseteq Proc /\ ended' \subseteq Proc
    <3>1. swapped \subseteq Proc /\ ended \subseteq Proc
      BY <1>0 DEF ProcTypes
    <3> QED BY <2>2, <2>3, <3>1 DEF Single
  <2>5. ProcTypes'
    BY <1>0, <2>1, <2>4 DEF ProcTypes
  <2>6. kmOut' \in Seq(FromKm)
    <3>0. kmOut \in Seq(FromKm)
      BY <1>0 DEF KmTypes
    <3>1. \A a \in FromKm : Append(kmOut, a) \in Seq(FromKm)
      BY <3>0
    <3>2. ASSUME NEW ok \in BOOLEAN, m.op \in Single PROVE Answer(m.op, m.pids, ok) \in FromKm
      BY <2>3, <3>2 DEF Answer, FromKm
    <3>3. ASSUME NEW T, m.op = "SWAP_IN" PROVE Answer(m.op, Filter(m.pids, T), TRUE) \in FromKm
      <4>1. Filter(m.pids, T) \in Seq(Proc)
        BY <2>3, FilterIs
      <4> QED BY <2>3, <3>3, <4>1 DEF Answer, FromKm, Single
    <3>4. m.op \in IoOps \/ m.op = "SWAP_OUT" => m.op \in Single
      BY DEF Single, IoOps
    <3> QED BY <2>2, <3>0, <3>1, <3>2, <3>3, <3>4
  <2>7. KmTypes'
    BY <2>1, <2>3, <2>6 DEF KmTypes
  <2> QED BY <2>1, <2>5, <2>7, TypesFrame DEF Types
<1>3. CASE MemoryUpdate
  <2> DEFINE a == Answer("MEMORY_UPDATE", <<>>, TRUE)
  <2>1. /\ UNCHANGED <<state, queued, blocked, suspended, suspending, sysc, list, avail, pend, reading, hpc, alive,
                       inbox, outbox, writers, memSem, kh, kmIn, swapped, ended, lost>>
        /\ used.updates < MaxUpdates /\ used' = [used EXCEPT !.updates = @ + 1]
        /\ kmOut' = Append(kmOut, a)
    BY <1>3 DEF MemoryUpdate
  <2>2. a \in FromKm
    BY DEF Answer, FromKm, Messages, Single
  <2> HIDE DEF a
  <2>3. used' \in [calls : [Proc -> Nat], suspensions : 0 .. MaxSuspensions, updates : 0 .. MaxUpdates]
    BY <1>0, <2>1
  <2>4. ProcTypes'
    BY <1>0, <2>1, <2>3 DEF ProcTypes
  <2>5. KmTypes'
    BY <1>0, <2>1, <2>2 DEF KmTypes
  <2> QED BY <2>1, <2>4, <2>5, TypesFrame DEF Types
<1> QED BY <1>1, <1>2, <1>3

\* Every step of the system keeps the types, ...
LEMMA TypesNext == Types /\ [Next]_vars => Types'
<1> SUFFICES ASSUME Types, [Next]_vars PROVE Types'
  OBVIOUS
<1>1. CASE UNCHANGED vars
  <2>1. UNCHANGED <<state, queued, blocked, suspended, suspending, sysc, list, avail, pend, reading, hpc, alive,
                    inbox, outbox, writers, memSem, kh, kmIn, kmOut, swapped, ended, used, lost>>
    BY <1>1 DEF vars
  <2>2. ProcTypes'
    BY <2>1 DEF Types, ProcTypes
  <2> QED BY <2>1, <2>2, TypesFrame DEF Types
<1>2. ASSUME NEW p \in Proc, Dispatch(p) \/ CpuHandler(p) \/ wait_memory_write_confirmation(p) \/ SendSwapOut(p)
      PROVE  Types'
  BY <1>2, CallStepTypes
<1>3. ASSUME NEW d \in Device, Connect(d) \/ handle_operation(d) \/ DeviceStops(d) \/ io_handler(d)
      PROVE  Types'
  BY <1>3, DeviceStepTypes
<1> QED BY <1>1, <1>2, <1>3, HandlerStepTypes, OtherStepTypes DEF Next

\* ... the first state has them, ...
LEMMA TypesInit == Init => Types
<1> SUFFICES ASSUME Init PROVE Types
  OBVIOUS
<1>1. ProcTypes
  BY IoAssumption DEF Init, ProcTypes, States
<1>2. CallTypes
  BY DEF Init, CallTypes, NoCall, Calling, IoTypes
<1>3. ListTypes
  <2> DEFINE Of(t) == \E d \in Fixed : Type[d] = t
             The(t) == CHOOSE d \in Fixed : Type[d] = t
  <2>1. list = [t \in IoTypes |-> IF Of(t) THEN <<The(t)>> ELSE <<>>]
    BY Zenon DEF Init
  <2>2. \A t \in IoTypes : Of(t) => The(t) \in Device /\ Type[The(t)] = t
    BY IoAssumption
  <2> HIDE DEF Of, The
  <2>3. list \in [IoTypes -> Seq(Device)]
    BY <2>1, <2>2
  <2>4. ASSUME NEW t \in IoTypes, NEW i \in DOMAIN list[t] PROVE Type[list[t][i]] = t
    BY <2>1, <2>2
  <2> QED BY <2>3, <2>4 DEF ListTypes
<1>4. DeviceTypes
  BY IoAssumption DEF Init, DeviceTypes
<1>5. HandlerTypes
  BY IoAssumption DEF Init, HandlerTypes, At, HandlerPoints
<1>6. KhTypes
  BY DEF Init, KhTypes, KhIdle, KhPoints, States
<1>7. KmTypes
  BY DEF Init, KmTypes
<1> QED BY <1>1, <1>2, <1>3, <1>4, <1>5, <1>6, <1>7 DEF Types

\* ... and they say what the runs check.
LEMMA TypesImply == Types => TypeOK
<1> SUFFICES ASSUME Types PROVE TypeOK
  OBVIOUS
<1>0. \A A, B : A \subseteq B => \A s \in Seq(A) : s \in Seq(B)
  <2> SUFFICES ASSUME NEW A, NEW B, A \subseteq B, NEW s \in Seq(A) PROVE s \in Seq(B)
    OBVIOUS
  <2>1. Len(s) \in Nat /\ s = [i \in 1 .. Len(s) |-> s[i]] /\ \A i \in 1 .. Len(s) : s[i] \in B
    OBVIOUS
  <2> QED BY <2>1
<1>1. kmIn \in Seq([op : Messages, pids : Seq(Proc)])
  <2>1. ToKm \subseteq [op : Messages, pids : Seq(Proc)]
    BY DEF ToKm
  <2> QED BY <1>0, <2>1, Zenon DEF Types, KmTypes
<1>2. kmOut \in Seq([op : Messages, pids : Seq(Proc), ok : BOOLEAN])
  <2>1. FromKm \subseteq [op : Messages, pids : Seq(Proc), ok : BOOLEAN]
    BY DEF FromKm
  <2> QED BY <1>0, <2>1, Zenon DEF Types, KmTypes
<1>3. \A p \in Proc : /\ sysc[p].at \in {"idle", "read", "assign", "send"}
                      /\ sysc[p].type \in IoTypes
                      /\ sysc[p].at = "send" => Type[sysc[p].dev] = sysc[p].type
  BY DEF Types, CallTypes, Calling
<1> QED BY <1>1, <1>2, <1>3 DEF TypeOK, Types, ProcTypes, ListTypes, DeviceTypes, HandlerTypes, KhTypes

\* Every variable keeps its type, a thread about to send to a device has one of the
\* type of its request, and a message about one process names one.
THEOREM TypeCorrect == Spec => []TypeOK
BY TypesInit, TypesNext, TypesImply, PTL DEF Spec

-----------------------------------------------------------------------------
(* Every step keeps the requests.                                          *)

\* The places of a request, and the requests as their sum.
Calls(q) == One(sysc[q].at # "idle")
Asks(q) == Sent(kmIn, IoOps, q)
Answers(q) == Sent(kmOut, IoOps, q)
Holds(q) == KhHas(q, kh)
Queues(q) == Pending(q, pend)
Out(q) == One(q \in lost) + Cardinality(AtDevices(q))

\* The requests of q are the sum of these parts, before the step ...
LEMMA TotalNow ==
    ASSUME Types, FewDevices, NEW q \in Proc
    PROVE  /\ Calls(q) \in Nat /\ Asks(q) \in Nat /\ Answers(q) \in Nat /\ memSem[q] \in Nat
           /\ Holds(q) \in Nat /\ Queues(q) \in Nat /\ Out(q) \in Nat
           /\ Requests(q) = Calls(q) + Asks(q) + Answers(q) + memSem[q] + Holds(q) + Queues(q) + Out(q)
<1> DEFINE c == One(sysc[q].at # "idle")
           i == Sent(kmIn, IoOps, q)
           o == Sent(kmOut, IoOps, q)
           m == memSem[q]
           k == KhHas(q, kh)
           x == Times(pend["SLEEP"], q)
           y == Times(pend["STDIN"], q)
           z == Times(pend["STDOUT"], q)
           l == One(q \in lost)
           n == Cardinality(AtDevices(q))
<1>1. c \in Nat /\ i \in Nat /\ o \in Nat /\ m \in Nat /\ k \in Nat /\ l \in Nat /\ n \in Nat
  BY RequestParts
<1>2. x \in Nat /\ y \in Nat /\ z \in Nat
  BY RequestParts DEF IoTypes
<1>3. Requests(q) = c + i + o + m + k + x + y + z + l + n
  BY RequestsAre
<1>4. Calls(q) = c /\ Asks(q) = i /\ Answers(q) = o /\ Holds(q) = k /\ Queues(q) = x + y + z /\ Out(q) = l + n
  BY DEF Calls, Asks, Answers, Holds, Queues, Out, Pending
<1> HIDE DEF c, i, o, k, x, y, z, l, n
<1>5. c + i + o + m + k + (x + y + z) + (l + n) = c + i + o + m + k + x + y + z + l + n
  BY <1>1, <1>2
<1>6. x + y + z \in Nat /\ l + n \in Nat
  BY <1>1, <1>2
<1> QED BY <1>1, <1>3, <1>4, <1>5, <1>6

\* ... and after it.
LEMMA TotalNext ==
    ASSUME Types', NEW q \in Proc, IsFiniteSet(AtDevices(q)')
    PROVE  /\ Calls(q)' \in Nat /\ Asks(q)' \in Nat /\ Answers(q)' \in Nat /\ memSem'[q] \in Nat
           /\ Holds(q)' \in Nat /\ Queues(q)' \in Nat /\ Out(q)' \in Nat
           /\ Requests(q)' = Calls(q)' + Asks(q)' + Answers(q)' + memSem'[q] + Holds(q)' + Queues(q)' + Out(q)'
<1> DEFINE c == One(sysc'[q].at # "idle")
           i == Sent(kmIn', IoOps, q)
           o == Sent(kmOut', IoOps, q)
           m == memSem'[q]
           k == KhHas(q, kh')
           x == Times(pend'["SLEEP"], q)
           y == Times(pend'["STDIN"], q)
           z == Times(pend'["STDOUT"], q)
           l == One(q \in lost')
           n == Cardinality(AtDevices(q)')
<1>1. c \in Nat /\ k \in Nat /\ l \in Nat
  BY DEF One, KhHas
<1>2. /\ kmIn' \in Seq(ToKm) /\ kmOut' \in Seq(FromKm) /\ m \in Nat
      /\ pend'["SLEEP"] \in Seq(Proc) /\ pend'["STDIN"] \in Seq(Proc) /\ pend'["STDOUT"] \in Seq(Proc)
  BY DEF Types, ProcTypes, KmTypes, DeviceTypes, IoTypes
<1>3. i \in Nat /\ o \in Nat
  BY <1>2, SentFacts
<1>4. x \in Nat /\ y \in Nat /\ z \in Nat
  BY <1>2, TimesFacts
<1>5. n \in Nat
  BY FS_CardinalityType
<1>6. Requests(q)' = c + i + o + m + k + x + y + z + l + n
  BY RequestsAre
<1>7. /\ Calls(q)' = c /\ Asks(q)' = i /\ Answers(q)' = o /\ Holds(q)' = k /\ Queues(q)' = x + y + z
      /\ Out(q)' = l + n
  BY DEF Calls, Asks, Answers, Holds, Queues, Out, Pending, KhHas
<1> HIDE DEF c, i, o, m, k, x, y, z, l, n
<1>8. c + i + o + m + k + (x + y + z) + (l + n) = c + i + o + m + k + x + y + z + l + n
  BY <1>1, <1>2, <1>3, <1>4, <1>5
<1>9. x + y + z \in Nat /\ l + n \in Nat
  BY <1>1, <1>4, <1>5
<1> QED BY <1>1, <1>2, <1>3, <1>6, <1>7, <1>8, <1>9 DEF m

\* A step in which no request comes to a device or leaves it.
DevicesQuiet ==
    /\ inbox' = inbox /\ outbox' = outbox /\ lost' = lost
    /\ \A d \in Device : hpc'[d] = hpc[d] \/ (hpc[d].at # "send" /\ hpc'[d].at # "send")

\* Such a step changes nothing at the devices.
LEMMA QuietDevices ==
    ASSUME RequestInv, DevicesQuiet, NEW q \in Proc
    PROVE  /\ IsFiniteSet(AtDevices(q)') /\ Out(q)' = Out(q)
           /\ \A e \in Device : RequestsAtDevice(q, e)' = RequestsAtDevice(q, e) /\ RequestsAtDevice(q, e)' <= 1
<1>1. /\ IsFiniteSet(AtDevices(q)') /\ AtDevices(q)' = AtDevices(q)
      /\ \A e \in Device : RequestsAtDevice(q, e)' = RequestsAtDevice(q, e) /\ RequestsAtDevice(q, e)' <= 1
  BY DevicesKept DEF DevicesQuiet
<1>2. Out(q)' = Out(q)
  BY <1>1 DEF Out, DevicesQuiet
<1> QED BY <1>1, <1>2

\* pending_io_stdin_reading loses nobody, and has whoever comes to need it.
ReadingGrows(q) ==
    /\ reading \subseteq reading'
    /\ sysc'[q].at = "send" /\ sysc'[q].type = "STDIN" => sysc'[q] = sysc[q] \/ q \in reading'
    /\ q \in Range(pend'["STDIN"]) => q \in Range(pend["STDIN"]) \/ q \in reading'

\* So pending_io_stdin_reading has every process whose STDIN is on.
LEMMA ReadingKept ==
    ASSUME NEW q \in Proc, ReadingInv(q), ReadingGrows(q),
           \A e \in Device : Type[e] = "STDIN" /\ RequestsAtDevice(q, e)' > 0
                                => RequestsAtDevice(q, e) > 0 \/ q \in reading'
    PROVE  ReadingInv(q)'
BY DEF ReadingInv, ReadingGrows

\* A step in which requests move between the threads, but not the devices.
LEMMA QuietStep ==
    ASSUME RequestInv, DevicesQuiet, \A q \in Proc : RequestsMove(q), \A q \in Proc : ReadingGrows(q)
    PROVE  RequestInv'
<1>1. \A q \in Proc : /\ IsFiniteSet(AtDevices(q)')
                      /\ \A e \in Device : RequestsAtDevice(q, e)' = RequestsAtDevice(q, e) /\ RequestsAtDevice(q, e)' <= 1
  BY QuietDevices
<1>2. OneRequest /\ \A q \in Proc : ReadingInv(q)
  BY DEF RequestInv
<1>3. \A q \in Proc : ReadingInv(q)'
  BY <1>1, <1>2, ReadingKept
<1> QED BY <1>1, <1>2, <1>3, RequestStep

\* The requests that are not with a device.
Within(q) == Calls(q) + Asks(q) + Answers(q) + memSem[q] + Holds(q) + Queues(q)

\* A quiet step that moves requests between threads and lists.
LEMMA QuietMove ==
    ASSUME Types, Types', RequestInv, DevicesQuiet, NEW q \in Proc
    PROVE  /\ Within(q) \in Nat /\ Within(q)' \in Nat /\ Out(q) \in Nat
           /\ Requests(q) = Within(q) + Out(q) /\ Requests(q)' = Within(q)' + Out(q)
           /\ Requests(q) <= 1
           /\ Waits(state[q]) => Requests(q) = 1
           /\ HasNone(state[q]) => Requests(q) = 0
<1>1. FewDevices /\ IsFiniteSet(AtDevices(q)') /\ Out(q)' = Out(q)
  BY QuietDevices DEF RequestInv
<1>2. /\ Calls(q) \in Nat /\ Asks(q) \in Nat /\ Answers(q) \in Nat /\ memSem[q] \in Nat
      /\ Holds(q) \in Nat /\ Queues(q) \in Nat /\ Out(q) \in Nat
      /\ Requests(q) = Calls(q) + Asks(q) + Answers(q) + memSem[q] + Holds(q) + Queues(q) + Out(q)
  BY <1>1, TotalNow
<1>3. /\ Calls(q)' \in Nat /\ Asks(q)' \in Nat /\ Answers(q)' \in Nat /\ memSem'[q] \in Nat
      /\ Holds(q)' \in Nat /\ Queues(q)' \in Nat /\ Out(q)' \in Nat
      /\ Requests(q)' = Calls(q)' + Asks(q)' + Answers(q)' + memSem'[q] + Holds(q)' + Queues(q)' + Out(q)'
  BY <1>1, TotalNext
<1>4. Within(q) \in Nat /\ Requests(q) = Within(q) + Out(q)
  BY <1>2 DEF Within
<1>5. Within(q)' \in Nat /\ Requests(q)' = Within(q)' + Out(q)'
  BY <1>3 DEF Within
<1>6. /\ Requests(q) <= 1
      /\ Waits(state[q]) => Requests(q) = 1
      /\ HasNone(state[q]) => Requests(q) = 0
  BY DEF RequestInv, OneRequest, Waits, HasNone
<1> QED BY <1>1, <1>2, <1>4, <1>5, <1>6

\* A state stays one of a process that waits for a request, or of one without.
SameClass(q) ==
    /\ Waits(state'[q]) => Waits(state[q])
    /\ HasNone(state'[q]) => HasNone(state[q])

\* A step in which no request moves at all.
Unmoved(q) ==
    /\ sysc'[q] = sysc[q] /\ Asks(q)' = Asks(q) /\ Answers(q)' = Answers(q) /\ memSem'[q] = memSem[q]
    /\ Holds(q)' = Holds(q)

\* A step in which no request moves keeps the invariant.
LEMMA UnmovedStep ==
    ASSUME Types, Types', RequestInv, DevicesQuiet, pend' = pend, reading' = reading,
           \A q \in Proc : Unmoved(q) /\ SameClass(q)
    PROVE  RequestInv'
<1>1. ASSUME NEW q \in Proc PROVE RequestsMove(q)
  <2>1. Calls(q)' = Calls(q) /\ Queues(q)' = Queues(q) /\ Asks(q)' = Asks(q) /\ Answers(q)' = Answers(q)
        /\ memSem'[q] = memSem[q] /\ Holds(q)' = Holds(q)
    BY DEF Calls, Queues, Pending, Unmoved
  <2>2. Within(q)' = Within(q)
    BY <2>1 DEF Within
  <2>3. Requests(q)' = Requests(q)
    BY <2>2, QuietMove
  <2> QED BY <2>3 DEF RequestsMove, SameClass
<1>2. \A q \in Proc : ReadingGrows(q)
  BY DEF ReadingGrows, Unmoved
<1> QED BY <1>1, <1>2, QuietStep

\* Messages for Kernel Memory and from it.
LEMMA AsksAfter ==
    ASSUME Types, NEW q \in Proc
    PROVE  /\ UNCHANGED kmIn => Asks(q)' = Asks(q)
           /\ UNCHANGED kmOut => Answers(q)' = Answers(q)
           /\ \A m \in ToKm : kmIn' = Append(kmIn, m) => Asks(q)' = Asks(q) + One(Names(m, IoOps, q))
           /\ kmIn # <<>> /\ kmIn' = Tail(kmIn) => Asks(q) = Asks(q)' + One(Names(Head(kmIn), IoOps, q))
           /\ \A m \in FromKm : kmOut' = Append(kmOut, m) => Answers(q)' = Answers(q) + One(Names(m, IoOps, q))
           /\ kmOut # <<>> /\ kmOut' = Tail(kmOut) => Answers(q) = Answers(q)' + One(Names(Head(kmOut), IoOps, q))
           /\ Asks(q) \in Nat /\ Answers(q) \in Nat
<1>1. kmIn \in Seq(ToKm) /\ kmOut \in Seq(FromKm)
  BY DEF Types, KmTypes
<1>2. Asks(q) = Sent(kmIn, IoOps, q) /\ Asks(q)' = Sent(kmIn', IoOps, q)
      /\ Answers(q) = Sent(kmOut, IoOps, q) /\ Answers(q)' = Sent(kmOut', IoOps, q)
  BY DEF Asks, Answers
<1>3. /\ Sent(kmIn, IoOps, q) \in Nat
      /\ \A x \in ToKm : Sent(Append(kmIn, x), IoOps, q) = Sent(kmIn, IoOps, q) + One(Names(x, IoOps, q))
      /\ kmIn # <<>> => Sent(kmIn, IoOps, q) = Sent(Tail(kmIn), IoOps, q) + One(Names(Head(kmIn), IoOps, q))
  BY <1>1, SentFacts
<1>4. /\ Sent(kmOut, IoOps, q) \in Nat
      /\ \A x \in FromKm : Sent(Append(kmOut, x), IoOps, q) = Sent(kmOut, IoOps, q) + One(Names(x, IoOps, q))
      /\ kmOut # <<>> => Sent(kmOut, IoOps, q) = Sent(Tail(kmOut), IoOps, q) + One(Names(Head(kmOut), IoOps, q))
  BY <1>1, SentFacts
<1>5. /\ UNCHANGED kmIn => Asks(q)' = Asks(q)
      /\ \A m \in ToKm : kmIn' = Append(kmIn, m) => Asks(q)' = Asks(q) + One(Names(m, IoOps, q))
      /\ kmIn # <<>> /\ kmIn' = Tail(kmIn) => Asks(q) = Asks(q)' + One(Names(Head(kmIn), IoOps, q))
  BY <1>2, <1>3
<1>6. /\ UNCHANGED kmOut => Answers(q)' = Answers(q)
      /\ \A m \in FromKm : kmOut' = Append(kmOut, m) => Answers(q)' = Answers(q) + One(Names(m, IoOps, q))
      /\ kmOut # <<>> /\ kmOut' = Tail(kmOut) => Answers(q) = Answers(q)' + One(Names(Head(kmOut), IoOps, q))
  BY <1>2, <1>4
<1> QED BY <1>2, <1>3, <1>4, <1>5, <1>6

\* Messages that are not about a transfer.
LEMMA AsksSame ==
    ASSUME Types, Types', NEW q \in Proc
    PROVE  /\ \A m \in ToKm : kmIn' = Append(kmIn, m) /\ m.op \notin IoOps => Asks(q)' = Asks(q)
           /\ kmIn # <<>> /\ kmIn' = Tail(kmIn) /\ Head(kmIn).op \notin IoOps => Asks(q)' = Asks(q)
           /\ \A m \in FromKm : kmOut' = Append(kmOut, m) /\ m.op \notin IoOps => Answers(q)' = Answers(q)
           /\ kmOut # <<>> /\ kmOut' = Tail(kmOut) /\ Head(kmOut).op \notin IoOps => Answers(q)' = Answers(q)
<1>1. \A m : m.op \notin IoOps => One(Names(m, IoOps, q)) = 0
  BY DEF One, Names
<1>2. Asks(q)' \in Nat /\ Answers(q)' \in Nat
  <2>1. kmIn' \in Seq(ToKm) /\ kmOut' \in Seq(FromKm)
    BY DEF Types, KmTypes
  <2> QED BY <2>1, SentFacts DEF Asks, Answers
<1>3. Asks(q) \in Nat /\ Answers(q) \in Nat
  BY AsksAfter
<1>4. \A m \in ToKm : kmIn' = Append(kmIn, m) /\ m.op \notin IoOps => Asks(q)' = Asks(q)
  <2> SUFFICES ASSUME NEW m \in ToKm, kmIn' = Append(kmIn, m), m.op \notin IoOps PROVE Asks(q)' = Asks(q)
    OBVIOUS
  <2>1. Asks(q)' = Asks(q) + One(Names(m, IoOps, q))
    BY AsksAfter
  <2> QED BY <1>1, <1>3, <2>1
<1>5. \A m \in FromKm : kmOut' = Append(kmOut, m) /\ m.op \notin IoOps => Answers(q)' = Answers(q)
  <2> SUFFICES ASSUME NEW m \in FromKm, kmOut' = Append(kmOut, m), m.op \notin IoOps PROVE Answers(q)' = Answers(q)
    OBVIOUS
  <2>1. Answers(q)' = Answers(q) + One(Names(m, IoOps, q))
    BY AsksAfter
  <2> QED BY <1>1, <1>3, <2>1
<1>6. kmIn # <<>> /\ kmIn' = Tail(kmIn) /\ Head(kmIn).op \notin IoOps => Asks(q)' = Asks(q)
  <2> SUFFICES ASSUME kmIn # <<>>, kmIn' = Tail(kmIn), Head(kmIn).op \notin IoOps PROVE Asks(q)' = Asks(q)
    OBVIOUS
  <2>1. Asks(q) = Asks(q)' + One(Names(Head(kmIn), IoOps, q))
    BY AsksAfter
  <2> QED BY <1>1, <1>2, <2>1
<1>7. kmOut # <<>> /\ kmOut' = Tail(kmOut) /\ Head(kmOut).op \notin IoOps => Answers(q)' = Answers(q)
  <2> SUFFICES ASSUME kmOut # <<>>, kmOut' = Tail(kmOut), Head(kmOut).op \notin IoOps PROVE Answers(q)' = Answers(q)
    OBVIOUS
  <2>1. Answers(q) = Answers(q)' + One(Names(Head(kmOut), IoOps, q))
    BY AsksAfter
  <2> QED BY <1>1, <1>2, <2>1
<1> QED BY <1>4, <1>5, <1>6, <1>7

\* What wait_confirmation_swap_in saw of the process whose turn it is still holds.
Applies == kh.at = "apply" => kh.seen = "SUSP_READY" /\ state[Head(kh.pids)] = "SUSP_READY"

\* The steps in which no request moves.
LEMMA UnmovedCalls ==
    ASSUME Types, Types', RequestInv, NEW p \in Proc,
           \/ Dispatch(p) \/ SendSwapOut(p)
           \/ stdin_syscall_manager(p) /\ ~Block(p)
    PROVE  RequestInv'
<1> USE DEF procs, medium, devices, memory
<1>0. state \in [Proc -> States]
  BY DEF Types, ProcTypes
<1>1. CASE Dispatch(p)
  <2>1. /\ UNCHANGED <<sysc, pend, reading, hpc, inbox, outbox, memSem, kh, kmIn, kmOut, lost>>
        /\ state[p] = "READY" /\ state' = [state EXCEPT ![p] = "EXEC"]
    BY <1>1 DEF Dispatch
  <2>2. DevicesQuiet
    BY <2>1 DEF DevicesQuiet
  <2>3. \A q \in Proc : Unmoved(q)
    BY <2>1 DEF Unmoved, Asks, Answers, Holds
  <2>4. \A q \in Proc : SameClass(q)
    BY <1>0, <2>1 DEF SameClass, Waits, HasNone
  <2> QED BY <2>1, <2>2, <2>3, <2>4, UnmovedStep
<1>2. CASE stdin_syscall_manager(p) /\ ~Block(p)
  <2> DEFINE m == Request("PROCESS_END", <<p>>)
  <2>1. /\ UNCHANGED <<sysc, pend, reading, hpc, inbox, outbox, memSem, kh, kmOut, lost>>
        /\ state' = [state EXCEPT ![p] = "EXIT"]
        /\ kmIn' = Append(kmIn, m)
    BY <1>2 DEF stdin_syscall_manager
  <2>2. DevicesQuiet
    BY <2>1 DEF DevicesQuiet
  <2>3. m \in ToKm /\ m.op \notin IoOps
    BY RequestIs DEF Single, IoOps
  <2> HIDE DEF m
  <2>4. \A q \in Proc : Asks(q)' = Asks(q)
    BY <2>1, <2>3, AsksSame
  <2>5. \A q \in Proc : Unmoved(q)
    BY <2>1, <2>4 DEF Unmoved, Answers, Holds
  <2>6. \A q \in Proc : SameClass(q)
    BY <1>0, <2>1 DEF SameClass, Waits, HasNone
  <2> QED BY <2>1, <2>2, <2>5, <2>6, UnmovedStep
<1>3. CASE SendSwapOut(p)
  <2> DEFINE m == Request("SWAP_OUT", <<p>>)
  <2>1. /\ UNCHANGED <<state, sysc, pend, reading, hpc, inbox, outbox, memSem, kh, kmOut, lost>>
        /\ kmIn' = Append(kmIn, m)
    BY <1>3 DEF SendSwapOut
  <2>2. DevicesQuiet
    BY <2>1 DEF DevicesQuiet
  <2>3. m \in ToKm /\ m.op \notin IoOps
    BY RequestIs DEF Single, IoOps
  <2> HIDE DEF m
  <2>4. \A q \in Proc : Asks(q)' = Asks(q)
    BY <2>1, <2>3, AsksSame
  <2>5. \A q \in Proc : Unmoved(q) /\ SameClass(q)
    BY <2>1, <2>4 DEF Unmoved, SameClass, Answers, Holds
  <2> QED BY <2>1, <2>2, <2>5, UnmovedStep
<1> QED BY <1>1, <1>2, <1>3

\* Devices that connect or stop, and handlers that only set their device available.
LEMMA UnmovedDevices ==
    ASSUME Types, Types', RequestInv, NEW d \in Device,
           Connect(d) \/ LoseDevice(d) \/ SetAvailable(d) \/ (handle_next_operation(d) /\ pend[Type[d]] = <<>>)
    PROVE  RequestInv'
<1> USE DEF procs, medium, devices, memory
<1>0. hpc \in [Device -> [at : HandlerPoints, pids : Seq(Proc)]]
  BY DEF Types, HandlerTypes
<1>1. /\ UNCHANGED <<state, sysc, pend, reading, inbox, outbox, memSem, kh, kmIn, kmOut, lost>>
      /\ hpc[d].at # "send"
      /\ \E x \in {"next", "gone", "recv"} : hpc' = [hpc EXCEPT ![d] = At(x)]
  <2>1. CASE Connect(d)
    BY <2>1 DEF Connect
  <2>2. CASE LoseDevice(d)
    BY <2>2 DEF LoseDevice
  <2>3. CASE SetAvailable(d)
    BY <2>3 DEF SetAvailable
  <2>4. CASE handle_next_operation(d) /\ pend[Type[d]] = <<>>
    BY <2>4 DEF handle_next_operation
  <2> QED BY <2>1, <2>2, <2>3, <2>4
<1>2. \A e \in Device : hpc'[e] = hpc[e] \/ (hpc[e].at # "send" /\ hpc'[e].at # "send")
  BY <1>0, <1>1 DEF At
<1>3. DevicesQuiet
  BY <1>1, <1>2 DEF DevicesQuiet
<1>4. \A q \in Proc : Unmoved(q) /\ SameClass(q)
  BY <1>1 DEF Unmoved, SameClass, Asks, Answers, Holds
<1> QED BY <1>1, <1>3, <1>4, UnmovedStep

\* The handler of Kernel Memory, when it suspends processes or takes them back.
LEMMA UnmovedHandler ==
    ASSUME Types, Types', RequestInv, Applies,
           \/ wait_confirmation_swap_out \/ ListBlocked \/ ListSuspended
           \/ request_swap_in \/ ReceiveSwapIn \/ SwapInNext \/ SwapInApply
    PROVE  RequestInv'
<1> USE DEF procs, medium, devices, memory
<1>0. /\ state \in [Proc -> States]
      /\ kh \in [at : KhPoints, pids : Seq(Proc), dev : Device \cup {NoDevice}, seen : States]
  BY DEF Types, ProcTypes, KhTypes
<1>1. UNCHANGED <<sysc, pend, reading, hpc, inbox, outbox, memSem, lost>>
  <2>1. CASE wait_confirmation_swap_out
    BY <2>1 DEF wait_confirmation_swap_out
  <2>2. CASE ListBlocked
    BY <2>2 DEF ListBlocked
  <2>3. CASE ListSuspended
    BY <2>3 DEF ListSuspended
  <2>4. CASE request_swap_in
    BY <2>4 DEF request_swap_in
  <2>5. CASE ReceiveSwapIn
    BY <2>5 DEF ReceiveSwapIn
  <2>6. CASE SwapInNext
    BY <2>6 DEF SwapInNext
  <2>7. CASE SwapInApply
    BY <2>7 DEF SwapInApply
  <2> QED BY <2>1, <2>2, <2>3, <2>4, <2>5, <2>6, <2>7
<1>2. DevicesQuiet
  BY <1>1 DEF DevicesQuiet
<1>3. ASSUME NEW q \in Proc PROVE Asks(q)' = Asks(q)
  <2>1. CASE request_swap_in
    <3> DEFINE x == sort_processes_by_priority(Filter(suspended, {p \in Proc : state[p] = "SUSP_READY"}))
               m == Request("SWAP_IN", x)
    <3>1. kmIn' = kmIn \/ kmIn' = Append(kmIn, m)
      BY <2>1, Zenon DEF request_swap_in
    <3>2. m \in ToKm /\ m.op \notin IoOps
      <4>1. suspended \in Seq(Proc)
        BY DEF Types, ProcTypes
      <4>2. x \in Seq(Proc)
        BY <4>1, FilterIs, SortIs
      <4> HIDE DEF x
      <4> QED BY <4>2 DEF Request, ToKm, Messages, Single, IoOps
    <3> HIDE DEF m
    <3> QED BY <3>1, <3>2, AsksSame, AsksAfter
  <2>2. CASE ~request_swap_in
    <3>1. kmIn' = kmIn
      BY <2>2 DEF wait_confirmation_swap_out, ListBlocked, ListSuspended, ReceiveSwapIn, SwapInNext, SwapInApply
    <3> QED BY <3>1 DEF Asks
  <2> QED BY <2>1, <2>2
<1>4. ASSUME NEW q \in Proc PROVE Answers(q)' = Answers(q)
  <2>1. CASE wait_confirmation_swap_out \/ request_swap_in \/ ReceiveSwapIn
    <3>1. /\ kmOut # <<>> /\ kmOut' = Tail(kmOut)
          /\ Head(kmOut).op \in {"SWAP_OUT", "MEMORY_UPDATE", "SWAP_IN"}
      BY <2>1 DEF wait_confirmation_swap_out, request_swap_in, ReceiveSwapIn, Receives
    <3>2. Head(kmOut).op \notin IoOps
      BY <3>1 DEF IoOps
    <3> QED BY <3>1, <3>2, AsksSame
  <2>2. CASE ListBlocked \/ ListSuspended \/ SwapInNext \/ SwapInApply
    <3>1. kmOut' = kmOut
      BY <2>2 DEF ListBlocked, ListSuspended, SwapInNext, SwapInApply
    <3> QED BY <3>1 DEF Answers
  <2> QED BY <2>1, <2>2
<1>5. kh.at \notin {"assign", "send"} /\ kh'.at \notin {"assign", "send"}
  <2>1. CASE wait_confirmation_swap_out
    <3>1. /\ kh.at = "idle"
          /\ kh' \in {[kh EXCEPT !.at = "block", !.pids = <<Pid>>], [kh EXCEPT !.at = "suspend", !.pids = <<Pid>>], kh}
      <4>1. kh.at = "idle"
        BY <2>1 DEF wait_confirmation_swap_out, Receives
      <4> DEFINE a == ~Head(kmOut).ok /\ state[Pid] \in {"SUSP_READY", "SUSP_BLOCK"} /\ state[Pid] = "SUSP_BLOCK"
                 b == Head(kmOut).ok /\ state[Pid] \in {"SUSP_READY", "SUSP_BLOCK"}
      <4>2. kh' = CASE a -> [kh EXCEPT !.at = "block", !.pids = <<Pid>>]
                    [] b -> [kh EXCEPT !.at = "suspend", !.pids = <<Pid>>]
                    [] OTHER -> kh
        BY <2>1 DEF wait_confirmation_swap_out
      <4>3. ~(a /\ b)
        OBVIOUS
      <4> HIDE DEF a, b
      <4> QED BY <4>1, <4>2, <4>3
    <3> QED BY <1>0, <3>1
  <2>2. CASE ListBlocked
    BY <1>0, <2>2 DEF ListBlocked
  <2>3. CASE ListSuspended
    BY <1>0, <2>3 DEF ListSuspended, Idle
  <2>4. CASE request_swap_in
    BY <2>4 DEF request_swap_in, Receives
  <2>5. CASE ReceiveSwapIn
    BY <1>0, <2>5 DEF ReceiveSwapIn, Receives
  <2>6. CASE SwapInNext
    BY <1>0, <2>6 DEF SwapInNext, Idle
  <2>7. CASE SwapInApply
    BY <1>0, <2>7 DEF SwapInApply
  <2> QED BY <2>1, <2>2, <2>3, <2>4, <2>5, <2>6, <2>7
<1>6. \A q \in Proc : Unmoved(q)
  BY <1>1, <1>3, <1>4, <1>5 DEF Unmoved, Holds, KhHas, One
<1>7. ASSUME NEW q \in Proc PROVE SameClass(q)
  <2>1. CASE wait_confirmation_swap_out
    <3>1. kmOut # <<>> /\ Head(kmOut).op = "SWAP_OUT"
      BY <2>1 DEF wait_confirmation_swap_out, Receives
    <3>2. Pid \in Proc
      BY <3>1, Reads DEF Single
    <3>3. \E r \in BOOLEAN : state' = [state EXCEPT ![Pid] =
              IF r /\ state[Pid] \in {"SUSP_READY", "SUSP_BLOCK"} THEN IF @ = "SUSP_READY" THEN "READY" ELSE "BLOCK" ELSE @]
      <4> DEFINE r == ~Head(kmOut).ok
      <4>1. state' = [state EXCEPT ![Pid] =
              IF r /\ state[Pid] \in {"SUSP_READY", "SUSP_BLOCK"} THEN IF @ = "SUSP_READY" THEN "READY" ELSE "BLOCK" ELSE @]
        BY <2>1 DEF wait_confirmation_swap_out
      <4>2. r \in BOOLEAN
        OBVIOUS
      <4> HIDE DEF r
      <4> QED BY <4>1, <4>2
    <3> QED BY <1>0, <3>2, <3>3 DEF SameClass, Waits, HasNone
  <2>2. CASE SwapInApply
    <3> DEFINE p == Head(kh.pids)
    <3>1. kh.at = "apply"
      BY <2>2, Zenon DEF SwapInApply
    <3>2. kh.seen = "SUSP_READY" /\ state[p] = "SUSP_READY" /\ p \in Proc
      BY <1>0, <3>1 DEF Applies, Types, KhTypes
    <3>3. state' = [state EXCEPT ![p] = "READY"]
      BY <2>2, <3>2 DEF SwapInApply
    <3> HIDE DEF p
    <3> QED BY <1>0, <3>2, <3>3 DEF SameClass, Waits, HasNone
  <2>3. CASE ~wait_confirmation_swap_out /\ ~SwapInApply
    <3>1. state' = state
      BY <2>3 DEF ListBlocked, ListSuspended, request_swap_in, ReceiveSwapIn, SwapInNext
    <3> QED BY <3>1 DEF SameClass
  <2> QED BY <2>1, <2>2, <2>3
<1> QED BY <1>1, <1>2, <1>6, <1>7, UnmovedStep

\* suspension_manager, MemoryUpdate, and Kernel Memory where it serves no transfer.
LEMMA UnmovedOthers ==
    ASSUME Types, Types', RequestInv,
           suspension_manager \/ (KernelMemory /\ Head(kmIn).op \notin IoOps) \/ MemoryUpdate
    PROVE  RequestInv'
<1> USE DEF procs, medium, devices, memory
<1>1. CASE suspension_manager
  <2>1. /\ UNCHANGED <<sysc, pend, reading, hpc, inbox, outbox, memSem, kh, kmIn, kmOut, lost>>
        /\ \E S \in SUBSET {p \in Proc : blocked[p] > 0 /\ state[p] = "BLOCK"} :
             state' = [p \in Proc |-> IF p \in S THEN "SUSP_BLOCK" ELSE state[p]]
    BY <1>1 DEF suspension_manager
  <2>2. DevicesQuiet
    BY <2>1 DEF DevicesQuiet
  <2>3. \A q \in Proc : Unmoved(q)
    BY <2>1 DEF Unmoved, Asks, Answers, Holds
  <2>4. \A q \in Proc : SameClass(q)
    BY <2>1 DEF SameClass, Waits, HasNone
  <2> QED BY <2>1, <2>2, <2>3, <2>4, UnmovedStep
<1>2. CASE KernelMemory /\ Head(kmIn).op \notin IoOps
  <2> DEFINE m == Head(kmIn)
  <2>1. /\ UNCHANGED <<state, sysc, pend, reading, hpc, inbox, outbox, memSem, kh, lost>>
        /\ kmIn # <<>> /\ kmIn' = Tail(kmIn)
    BY <1>2 DEF KernelMemory
  <2>2. kmOut' = kmOut \/ \E q, ok : kmOut' = Append(kmOut, Answer(m.op, q, ok))
    BY <1>2, Zenon DEF KernelMemory, IoOps
  <2>3. DevicesQuiet
    BY <2>1 DEF DevicesQuiet
  <2>4. \A q \in Proc : Asks(q)' = Asks(q)
    BY <1>2, <2>1, AsksSame
  <2>5. ASSUME NEW q \in Proc PROVE Answers(q)' = Answers(q)
    <3>1. CASE kmOut' = kmOut
      BY <3>1 DEF Answers
    <3>2. ASSUME NEW r, NEW ok, kmOut' = Append(kmOut, Answer(m.op, r, ok)) PROVE Answers(q)' = Answers(q)
      <4> DEFINE a == Answer(m.op, r, ok)
      <4>1. kmOut \in Seq(FromKm) /\ kmOut' \in Seq(FromKm)
        BY DEF Types, KmTypes
      <4>2. kmOut' = Append(kmOut, a) /\ a.op = m.op
        BY <3>2 DEF Answer
      <4> HIDE DEF a
      <4>3. Len(kmOut) + 1 \in DOMAIN kmOut' /\ kmOut'[Len(kmOut) + 1] = a
        BY <4>1, <4>2
      <4>4. a \in FromKm
        BY <4>1, <4>3
      <4> QED BY <1>2, <4>2, <4>4, AsksSame
    <3> QED BY <2>2, <3>1, <3>2
  <2>6. \A q \in Proc : Unmoved(q) /\ SameClass(q)
    BY <2>1, <2>4, <2>5 DEF Unmoved, SameClass, Holds
  <2> QED BY <2>1, <2>3, <2>6, UnmovedStep
<1>3. CASE MemoryUpdate
  <2> DEFINE a == Answer("MEMORY_UPDATE", <<>>, TRUE)
  <2>1. /\ UNCHANGED <<state, sysc, pend, reading, hpc, inbox, outbox, memSem, kh, kmIn, lost>>
        /\ kmOut' = Append(kmOut, a)
    BY <1>3 DEF MemoryUpdate
  <2>2. a \in FromKm /\ a.op \notin IoOps
    BY DEF Answer, FromKm, Messages, Single, IoOps
  <2> HIDE DEF a
  <2>3. DevicesQuiet
    BY <2>1 DEF DevicesQuiet
  <2>4. \A q \in Proc : Answers(q)' = Answers(q)
    BY <2>1, <2>2, AsksSame
  <2>5. \A q \in Proc : Unmoved(q) /\ SameClass(q)
    BY <2>1, <2>4 DEF Unmoved, SameClass, Asks, Holds
  <2> QED BY <2>1, <2>3, <2>5, UnmovedStep
<1> QED BY <1>1, <1>2, <1>3

\* The elements of a list that gets one more.
LEMMA RangeAppend ==
    ASSUME NEW S, NEW s \in Seq(S), NEW e \in S
    PROVE  Range(Append(s, e)) = Range(s) \cup {e}
<1> DEFINE a == Append(s, e)
<1>1. /\ DOMAIN a = DOMAIN s \cup {Len(s) + 1} /\ a[Len(s) + 1] = e
      /\ \A i \in DOMAIN s : a[i] = s[i]
  OBVIOUS
<1> HIDE DEF a
<1>2. Range(a) = {a[i] : i \in DOMAIN a} /\ Range(s) = {s[i] : i \in DOMAIN s}
  BY DEF Range
<1>3. Range(a) = Range(s) \cup {e}
  BY <1>1, <1>2
<1> QED BY <1>3 DEF a

\* The pending lists.
LEMMA QueuesNow ==
    ASSUME Types, NEW q \in Proc
    PROVE  /\ \A t \in IoTypes : pend[t] \in Seq(Proc) /\ Times(pend[t], q) \in Nat
           /\ Times(pend["SLEEP"], q) \in Nat /\ Times(pend["STDIN"], q) \in Nat /\ Times(pend["STDOUT"], q) \in Nat
           /\ Queues(q) = Times(pend["SLEEP"], q) + Times(pend["STDIN"], q) + Times(pend["STDOUT"], q)
           /\ Queues(q)' = Times(pend'["SLEEP"], q) + Times(pend'["STDIN"], q) + Times(pend'["STDOUT"], q)
<1>1. \A t \in IoTypes : pend[t] \in Seq(Proc)
  BY DEF Types, DeviceTypes
<1>2. \A t \in IoTypes : Times(pend[t], q) \in Nat
  BY <1>1, TimesFacts
<1> QED BY <1>1, <1>2 DEF Queues, Pending, IoTypes

\* One of three numbers changes.
LEMMA OneOfThree ==
    ASSUME Types, NEW q \in Proc, NEW t \in IoTypes, NEW n \in Int, Times(pend'[t], q) = Times(pend[t], q) + n,
           \A u \in IoTypes : u # t => pend'[u] = pend[u]
    PROVE  Queues(q)' = Queues(q) + n
<1> DEFINE x == Times(pend["SLEEP"], q)
           y == Times(pend["STDIN"], q)
           z == Times(pend["STDOUT"], q)
           x1 == Times(pend'["SLEEP"], q)
           y1 == Times(pend'["STDIN"], q)
           z1 == Times(pend'["STDOUT"], q)
<1>1. x \in Nat /\ y \in Nat /\ z \in Nat /\ Queues(q) = x + y + z /\ Queues(q)' = x1 + y1 + z1
  BY QueuesNow
<1>2. \/ x1 = x + n /\ y1 = y /\ z1 = z
      \/ x1 = x /\ y1 = y + n /\ z1 = z
      \/ x1 = x /\ y1 = y /\ z1 = z + n
  <2>1. CASE t = "SLEEP"
    <3>1. pend'["STDIN"] = pend["STDIN"] /\ pend'["STDOUT"] = pend["STDOUT"]
      BY <2>1 DEF IoTypes
    <3> QED BY <2>1, <3>1
  <2>2. CASE t = "STDIN"
    <3>1. pend'["SLEEP"] = pend["SLEEP"] /\ pend'["STDOUT"] = pend["STDOUT"]
      BY <2>2 DEF IoTypes
    <3> QED BY <2>2, <3>1
  <2>3. CASE t = "STDOUT"
    <3>1. pend'["SLEEP"] = pend["SLEEP"] /\ pend'["STDIN"] = pend["STDIN"]
      BY <2>3 DEF IoTypes
    <3> QED BY <2>3, <3>1
  <2> QED BY <2>1, <2>2, <2>3 DEF IoTypes
<1> HIDE DEF x, y, z, x1, y1, z1
<1> QED BY <1>1, <1>2

\* A request is added to a pending list, ...
LEMMA QueuesAppend ==
    ASSUME Types, NEW t \in IoTypes, NEW q \in Proc, NEW p \in Proc,
           pend' = [pend EXCEPT ![t] = Append(pend[t], p)]
    PROVE  Queues(q) \in Nat /\ Queues(q)' = IF p = q THEN Queues(q) + 1 ELSE Queues(q)
<1>1. pend[t] \in Seq(Proc) /\ Times(pend[t], q) \in Nat /\ Queues(q) \in Nat
  BY QueuesNow
<1>2. Times(Append(pend[t], p), q) = Times(pend[t], q) + One(p = q)
  BY <1>1, TimesFacts
<1>3. pend'[t] = Append(pend[t], p) /\ \A u \in IoTypes : u # t => pend'[u] = pend[u]
  BY DEF Types, DeviceTypes
<1>4. Queues(q)' = Queues(q) + One(p = q)
  <2> DEFINE n == One(p = q)
  <2>1. n \in Int /\ Times(pend'[t], q) = Times(pend[t], q) + n
    BY <1>2, <1>3 DEF One
  <2> HIDE DEF n
  <2>2. Queues(q)' = Queues(q) + n
    BY <1>3, <2>1, OneOfThree
  <2> QED BY <2>2 DEF n
<1> QED BY <1>1, <1>4 DEF One

\* ... or the first is taken.
LEMMA QueuesTail ==
    ASSUME Types, NEW t \in IoTypes, NEW q \in Proc, pend[t] # <<>>, pend' = [pend EXCEPT ![t] = Tail(@)]
    PROVE  Queues(q) \in Nat /\ Queues(q) = IF Head(pend[t]) = q THEN Queues(q)' + 1 ELSE Queues(q)'
<1>1. pend[t] \in Seq(Proc) /\ Times(pend[t], q) \in Nat /\ Queues(q) \in Nat
  BY QueuesNow
<1>2. Times(pend[t], q) = Times(Tail(pend[t]), q) + One(Head(pend[t]) = q)
  BY <1>1, TimesFacts
<1>3. pend'[t] = Tail(pend[t]) /\ \A u \in IoTypes : u # t => pend'[u] = pend[u]
  BY DEF Types, DeviceTypes
<1>4. Tail(pend[t]) \in Seq(Proc)
  BY <1>1
<1>5. Times(Tail(pend[t]), q) \in Nat
  BY <1>4, TimesFacts
<1>6. Queues(q)' = Queues(q) + (0 - One(Head(pend[t]) = q))
  <2> DEFINE n == 0 - One(Head(pend[t]) = q)
  <2>1. n \in Int
    BY DEF One
  <2>2. Times(pend'[t], q) = Times(pend[t], q) + n
    <3>1. One(Head(pend[t]) = q) \in Nat
      BY DEF One
    <3> QED BY <1>1, <1>2, <1>3, <1>5, <3>1
  <2> HIDE DEF n
  <2>3. Queues(q)' = Queues(q) + n
    BY <1>3, <2>1, <2>2, OneOfThree
  <2> QED BY <2>3 DEF n
<1> QED BY <1>1, <1>6 DEF One

\* Where the requests of a process are in a quiet step, as numbers.
LEMMA QuietParts ==
    ASSUME Types, Types', RequestInv, DevicesQuiet, NEW q \in Proc
    PROVE  /\ Calls(q) \in {0, 1} /\ Asks(q) \in Nat /\ Answers(q) \in Nat /\ memSem[q] \in Nat
           /\ Holds(q) \in {0, 1} /\ Queues(q) \in Nat /\ Out(q) \in Nat
           /\ Calls(q)' \in {0, 1} /\ Asks(q)' \in Nat /\ Answers(q)' \in Nat /\ memSem'[q] \in Nat
           /\ Holds(q)' \in {0, 1} /\ Queues(q)' \in Nat
           /\ Requests(q) = Calls(q) + Asks(q) + Answers(q) + memSem[q] + Holds(q) + Queues(q) + Out(q)
           /\ Requests(q)' = Calls(q)' + Asks(q)' + Answers(q)' + memSem'[q] + Holds(q)' + Queues(q)' + Out(q)
<1>1. FewDevices /\ IsFiniteSet(AtDevices(q)') /\ Out(q)' = Out(q)
  BY QuietDevices DEF RequestInv
<1>2. Calls(q) \in {0, 1} /\ Calls(q)' \in {0, 1} /\ Holds(q) \in {0, 1} /\ Holds(q)' \in {0, 1}
  BY DEF Calls, Holds, KhHas, One
<1> QED BY <1>1, <1>2, TotalNow, TotalNext

\* The processes that a quiet step is not about.
LEMMA OthersUnmoved ==
    ASSUME Types, Types', RequestInv, DevicesQuiet, NEW q \in Proc,
           Unmoved(q), SameClass(q), Queues(q)' = Queues(q)
    PROVE  RequestsMove(q)
<1>1. Calls(q)' = Calls(q) /\ Queues(q)' = Queues(q) /\ Asks(q)' = Asks(q) /\ Answers(q)' = Answers(q)
      /\ memSem'[q] = memSem[q] /\ Holds(q)' = Holds(q)
  BY DEF Calls, Unmoved
<1>2. Requests(q)' = Requests(q)
  BY <1>1, QuietParts
<1> QED BY <1>2 DEF RequestsMove, SameClass

\* How many requests a process has, by its state.
LEMMA ClassOfStates ==
    ASSUME RequestInv, NEW q \in Proc
    PROVE  /\ Requests(q) <= 1
           /\ Waits(state[q]) => Requests(q) = 1
           /\ HasNone(state[q]) => Requests(q) = 0
BY DEF RequestInv, OneRequest, Waits, HasNone

\* The system calls.
LEMMA CallRequests ==
    ASSUME Types, Types', RequestInv, NEW p \in Proc, CpuHandler(p), ~SendToDevice(p)
    PROVE  RequestInv'
<1> USE DEF procs, medium, devices, memory
<1>0. state \in [Proc -> States] /\ sysc \in [Proc -> Calling] /\ reading \subseteq Proc
  BY DEF Types, ProcTypes, CallTypes
<1>1. ASSUME Block(p), sysc'[p].at \in {"read", "assign"}, \A q \in Proc : q # p => sysc'[q] = sysc[q]
      PROVE  RequestInv'
  <2>1. /\ UNCHANGED <<pend, reading, hpc, inbox, outbox, memSem, kh, kmIn, kmOut, lost>>
        /\ state[p] = "EXEC" /\ state' = [state EXCEPT ![p] = "BLOCK"]
    BY <1>1 DEF Block
  <2>2. DevicesQuiet
    BY <2>1 DEF DevicesQuiet
  <2>3. \A q \in Proc : /\ Asks(q)' = Asks(q) /\ Answers(q)' = Answers(q) /\ Holds(q)' = Holds(q)
                        /\ Queues(q)' = Queues(q) /\ memSem'[q] = memSem[q]
    BY <2>1 DEF Asks, Answers, Holds, Queues, Pending
  <2>4. ASSUME NEW q \in Proc, q # p PROVE RequestsMove(q)
    <3>1. sysc'[q] = sysc[q] /\ state'[q] = state[q]
      BY <1>0, <1>1, <2>1, <2>4
    <3> QED BY <2>2, <2>3, <3>1, OthersUnmoved DEF Unmoved, SameClass
  <2>5. RequestsMove(p)
    <3>1. sysc'[p].at # "idle" /\ state'[p] = "BLOCK"
      BY <1>0, <1>1, <2>1
    <3>2. Calls(p)' = 1
      BY <3>1 DEF Calls, One
    <3>3. Requests(p) = 0
      BY <2>1, ClassOfStates DEF HasNone
    <3>4. Requests(p)' = 1
      BY <2>2, <2>3, <3>2, <3>3, QuietParts
    <3> QED BY <3>1, <3>4 DEF RequestsMove, HasNone
  <2>6. \A q \in Proc : ReadingGrows(q)
    BY <1>0, <1>1, <2>1 DEF ReadingGrows
  <2> QED BY <2>2, <2>4, <2>5, <2>6, QuietStep
<1>2. CASE sleep_syscall_manager(p)
  <2> DEFINE call == [at |-> "assign", type |-> "SLEEP", dev |-> NoDevice]
  <2>1. Block(p) /\ sysc' = [sysc EXCEPT ![p] = call] /\ call.at = "assign"
    BY <1>2 DEF sleep_syscall_manager
  <2>2. sysc'[p].at \in {"read", "assign"} /\ \A q \in Proc : q # p => sysc'[q] = sysc[q]
    BY <1>0, <2>1
  <2> QED BY <1>1, <2>1, <2>2
<1>3. CASE stdout_syscall_manager(p)
  <2> DEFINE call == [at |-> "read", type |-> "STDOUT", dev |-> NoDevice]
  <2>1. Block(p) /\ sysc' = [sysc EXCEPT ![p] = call] /\ call.at = "read"
    BY <1>3 DEF stdout_syscall_manager
  <2>2. sysc'[p].at \in {"read", "assign"} /\ \A q \in Proc : q # p => sysc'[q] = sysc[q]
    BY <1>0, <2>1
  <2> QED BY <1>1, <2>1, <2>2
<1>4. CASE stdin_syscall_manager(p)
  <2>1. CASE Block(p) /\ sysc' = [sysc EXCEPT ![p] = [at |-> "assign", type |-> "STDIN", dev |-> NoDevice]]
    <3> DEFINE call == [at |-> "assign", type |-> "STDIN", dev |-> NoDevice]
    <3>1. Block(p) /\ sysc' = [sysc EXCEPT ![p] = call] /\ call.at = "assign"
      BY <2>1
    <3>2. sysc'[p].at \in {"read", "assign"} /\ \A q \in Proc : q # p => sysc'[q] = sysc[q]
      BY <1>0, <3>1
    <3> QED BY <1>1, <3>1, <3>2
  <2>2. CASE ~Block(p)
    BY <1>4, <2>2, UnmovedCalls
  <2>3. CASE Block(p) /\ state' = [state EXCEPT ![p] = "EXIT"]
    <3>1. state' = [state EXCEPT ![p] = "BLOCK"]
      BY <2>3 DEF Block
    <3> QED BY <1>0, <2>3, <3>1
  <2> QED BY <1>4, <2>1, <2>2, <2>3 DEF stdin_syscall_manager
<1>5. NoCall.at = "idle"
  BY DEF NoCall
<1>6. CASE SendMemoryRead(p)
  <2> DEFINE m == Request("IO_MEMORY_READ", <<p>>)
  <2>1. /\ UNCHANGED <<state, pend, reading, hpc, inbox, outbox, memSem, kh, kmOut, lost>>
        /\ sysc[p].at = "read" /\ sysc' = [sysc EXCEPT ![p] = NoCall]
        /\ kmIn' = Append(kmIn, m)
    BY <1>6 DEF SendMemoryRead
  <2>2. DevicesQuiet
    BY <2>1 DEF DevicesQuiet
  <2>3. m \in ToKm /\ \A q : Names(m, IoOps, q) <=> q = p
    BY RequestIs DEF Single, IoOps
  <2> HIDE DEF m
  <2>4. \A q \in Proc : /\ Answers(q)' = Answers(q) /\ Holds(q)' = Holds(q)
                        /\ Queues(q)' = Queues(q) /\ memSem'[q] = memSem[q]
    BY <2>1 DEF Answers, Holds, Queues, Pending
  <2>5. ASSUME NEW q \in Proc PROVE Asks(q)' = Asks(q) + One(q = p)
    <3>1. Asks(q)' = Asks(q) + One(Names(m, IoOps, q))
      BY <2>1, <2>3, AsksAfter
    <3>2. One(Names(m, IoOps, q)) = One(q = p)
      BY <2>3 DEF One
    <3> QED BY <3>1, <3>2
  <2>6. ASSUME NEW q \in Proc, q # p PROVE RequestsMove(q)
    <3>1. sysc'[q] = sysc[q] /\ state'[q] = state[q]
      BY <1>0, <2>1, <2>6
    <3>2. Asks(q)' = Asks(q)
      BY <2>2, <2>5, <2>6, QuietParts DEF One
    <3> QED BY <2>2, <2>4, <3>1, <3>2, OthersUnmoved DEF Unmoved, SameClass
  <2>7. RequestsMove(p)
    <3>1. sysc'[p].at = "idle"
      BY <1>0, <1>5, <2>1
    <3>2. Calls(p)' = 0 /\ Calls(p) = 1 /\ One(p = p) = 1
      BY <2>1, <3>1 DEF Calls, One
    <3>3. Asks(p)' = Asks(p) + 1
      BY <2>5, <3>2
    <3>4. Requests(p)' = Requests(p)
      BY <2>2, <2>4, <3>2, <3>3, QuietParts
    <3> QED BY <2>1, <3>4 DEF RequestsMove
  <2>8. \A q \in Proc : ReadingGrows(q)
    BY <1>0, <1>5, <2>1 DEF ReadingGrows
  <2> QED BY <2>2, <2>6, <2>7, <2>8, QuietStep
<1>7. CASE AssignDevice(p)
  <2> DEFINE t == sysc[p].type
             d == get_available_io_type(t)
             call == IF d = NoDevice THEN NoCall ELSE [at |-> "send", type |-> t, dev |-> d]
  <2>1. /\ UNCHANGED <<state, hpc, inbox, outbox, memSem, kh, kmIn, kmOut, lost>>
        /\ TakeDevice(p, t) /\ sysc[p].at = "assign"
        /\ sysc' = [sysc EXCEPT ![p] = call]
        /\ reading' = IF t = "STDIN" THEN reading \cup {p} ELSE reading
    BY <1>7, Zenon DEF AssignDevice
  <2>2. t \in IoTypes
    BY <1>0 DEF Calling
  <2>3. call.at = (IF d = NoDevice THEN "idle" ELSE "send") /\ (call.at = "send" => call.type = t)
    BY <1>5
  <2> HIDE DEF t
  <2>4. \/ d = NoDevice /\ pend' = [pend EXCEPT ![t] = Append(pend[t], p)]
        \/ d # NoDevice /\ pend' = pend
    BY <2>1, <2>2, TakeDeviceIs
  <2> HIDE DEF d, call
  <2>5. DevicesQuiet
    BY <2>1 DEF DevicesQuiet
  <2>6. \A q \in Proc : /\ Answers(q)' = Answers(q) /\ Holds(q)' = Holds(q)
                        /\ Asks(q)' = Asks(q) /\ memSem'[q] = memSem[q]
    BY <2>1 DEF Answers, Holds, Asks
  <2>7. ASSUME NEW q \in Proc, q # p PROVE RequestsMove(q)
    <3>1. sysc'[q] = sysc[q] /\ state'[q] = state[q]
      BY <1>0, <2>1, <2>7
    <3>2. Queues(q)' = Queues(q)
      <4>1. CASE d = NoDevice /\ pend' = [pend EXCEPT ![t] = Append(pend[t], p)]
        BY <2>2, <2>7, <4>1, QueuesAppend
      <4>2. CASE pend' = pend
        BY <4>2 DEF Queues, Pending
      <4> QED BY <2>4, <4>1, <4>2
    <3> QED BY <2>5, <2>6, <3>1, <3>2, OthersUnmoved DEF Unmoved, SameClass
  <2>8. RequestsMove(p)
    <3>1. sysc'[p] = call
      BY <1>0, <2>1
    <3>2. Calls(p) = 1 /\ One(p = p) = 1
      BY <2>1 DEF Calls, One
    <3>3. CASE d = NoDevice /\ pend' = [pend EXCEPT ![t] = Append(pend[t], p)]
      <4>1. Calls(p)' = 0
        BY <2>3, <3>1, <3>3 DEF Calls, One
      <4>2. Queues(p)' = Queues(p) + 1
        BY <2>2, <3>3, QueuesAppend
      <4>3. Requests(p)' = Requests(p)
        BY <2>5, <2>6, <3>2, <4>1, <4>2, QuietParts
      <4> QED BY <2>1, <4>3 DEF RequestsMove
    <3>4. CASE d # NoDevice /\ pend' = pend
      <4>1. Calls(p)' = 1
        BY <2>3, <3>1, <3>4 DEF Calls, One
      <4>2. Queues(p)' = Queues(p)
        BY <3>4 DEF Queues, Pending
      <4>3. Requests(p)' = Requests(p)
        BY <2>5, <2>6, <3>2, <4>1, <4>2, QuietParts
      <4> QED BY <2>1, <4>3 DEF RequestsMove
    <3> QED BY <2>4, <3>3, <3>4
  <2>9. ASSUME NEW q \in Proc PROVE ReadingGrows(q)
    <3>0. reading \subseteq reading' /\ (t = "STDIN" => p \in reading')
      BY <2>1
    <3>1. sysc'[q].at = "send" /\ sysc'[q].type = "STDIN" => sysc'[q] = sysc[q] \/ q \in reading'
      <4>1. CASE q = p
        BY <1>0, <2>1, <2>3, <3>0, <4>1
      <4>2. CASE q # p
        BY <1>0, <2>1, <4>2
      <4> QED BY <4>1, <4>2
    <3>2. q \in Range(pend'["STDIN"]) => q \in Range(pend["STDIN"]) \/ q \in reading'
      <4>0. pend \in [IoTypes -> Seq(Proc)] /\ pend["STDIN"] \in Seq(Proc) /\ "STDIN" \in IoTypes
        BY DEF Types, DeviceTypes, IoTypes
      <4>1. CASE t = "STDIN" /\ pend' = [pend EXCEPT ![t] = Append(pend[t], p)]
        <5>1. pend'["STDIN"] = Append(pend["STDIN"], p)
          BY <4>0, <4>1
        <5>2. Range(Append(pend["STDIN"], p)) \subseteq Range(pend["STDIN"]) \cup {p}
          BY <4>0, RangeAppend
        <5> QED BY <3>0, <4>1, <5>1, <5>2
      <4>2. CASE pend'["STDIN"] = pend["STDIN"]
        BY <4>2
      <4> QED BY <2>2, <2>4, <4>0, <4>1, <4>2
    <3> QED BY <3>0, <3>1, <3>2 DEF ReadingGrows
  <2> QED BY <2>5, <2>7, <2>8, <2>9, QuietStep
<1> QED BY <1>2, <1>3, <1>4, <1>6, <1>7 DEF CpuHandler

\* Transfers with Kernel Memory.
LEMMA TransferRequests ==
    ASSUME Types, Types', RequestInv,
           \/ \E p \in Proc : wait_memory_write_confirmation(p)
           \/ ReceiveRead \/ ReceiveWrite \/ StdoutAssign
           \/ KernelMemory /\ Head(kmIn).op \in IoOps
    PROVE  RequestInv'
<1> USE DEF procs, medium, devices, memory
<1>0. /\ state \in [Proc -> States] /\ memSem \in [Proc -> Nat]
      /\ kh \in [at : KhPoints, pids : Seq(Proc), dev : Device \cup {NoDevice}, seen : States]
  BY DEF Types, ProcTypes, KhTypes
<1>1. ASSUME NEW p \in Proc, wait_memory_write_confirmation(p) PROVE RequestInv'
  <2>1. /\ UNCHANGED <<sysc, pend, reading, hpc, inbox, outbox, kh, kmIn, kmOut, lost>>
        /\ memSem[p] > 0 /\ memSem' = [memSem EXCEPT ![p] = @ - 1] /\ WakeUp(p)
    BY <1>1 DEF wait_memory_write_confirmation
  <2>2. /\ state'[p] \in {"SUSP_READY", "READY"}
        /\ \A q \in Proc : q # p => state'[q] = state[q]
    BY <2>1, WakeUpIs
  <2>3. DevicesQuiet
    BY <2>1 DEF DevicesQuiet
  <2>4. \A q \in Proc : /\ Asks(q)' = Asks(q) /\ Answers(q)' = Answers(q) /\ Holds(q)' = Holds(q)
                        /\ Queues(q)' = Queues(q) /\ Calls(q)' = Calls(q)
    BY <2>1 DEF Asks, Answers, Holds, Queues, Pending, Calls
  <2>5. ASSUME NEW q \in Proc, q # p PROVE RequestsMove(q)
    <3>1. sysc'[q] = sysc[q] /\ state'[q] = state[q] /\ memSem'[q] = memSem[q]
      BY <1>0, <2>1, <2>2, <2>5
    <3> QED BY <2>3, <2>4, <3>1, OthersUnmoved DEF Unmoved, SameClass
  <2>6. RequestsMove(p)
    <3>1. memSem'[p] = memSem[p] - 1
      BY <1>0, <2>1
    <3>2. Requests(p) <= 1
      BY ClassOfStates
    <3>3. Requests(p)' = 0
      BY <2>1, <2>3, <2>4, <3>1, <3>2, QuietParts
    <3> QED BY <2>2, <3>3 DEF RequestsMove, Waits
  <2>7. \A q \in Proc : ReadingGrows(q)
    BY <2>1 DEF ReadingGrows
  <2> QED BY <2>3, <2>5, <2>6, <2>7, QuietStep
<1>2. ASSUME NEW p \in Proc, EndProcess(p) PROVE \A q \in Proc : Asks(q)' = Asks(q)
  <2> DEFINE m == Request("PROCESS_END", <<p>>)
  <2>1. m \in ToKm /\ m.op \notin IoOps
    BY RequestIs DEF Single, IoOps
  <2>2. kmIn' = Append(kmIn, m)
    BY <1>2 DEF EndProcess
  <2> HIDE DEF m
  <2> QED BY <2>1, <2>2, AsksSame
<1>3. CASE ReceiveRead
  <2>1. /\ UNCHANGED <<sysc, pend, reading, hpc, inbox, outbox, memSem, lost>>
        /\ kh.at = "idle" /\ kmOut # <<>> /\ Head(kmOut).op = "IO_MEMORY_READ"
        /\ UNCHANGED <<state, kmIn>> \/ EndProcess(Pid)
        /\ kh' = [kh EXCEPT !.at = "assign", !.pids = <<Pid>>]
        /\ kmOut' = Tail(kmOut)
    BY <1>3 DEF ReceiveRead, Receives
  <2>2. Pid \in Proc /\ \A q : Names(Head(kmOut), IoOps, q) <=> q = Pid
    BY <2>1, Reads DEF Single, IoOps
  <2>3. DevicesQuiet
    BY <2>1 DEF DevicesQuiet
  <2>4. \A q \in Proc : /\ Asks(q)' = Asks(q) /\ memSem'[q] = memSem[q]
                        /\ Queues(q)' = Queues(q) /\ Calls(q)' = Calls(q)
    BY <1>2, <2>1, <2>2 DEF Asks, Queues, Pending, Calls
  <2>5. \A q \in Proc : SameClass(q)
    BY <1>0, <2>1, <2>2 DEF EndProcess, SameClass, Waits, HasNone
  <2>6. \A q \in Proc : Answers(q) = Answers(q)' + One(Names(Head(kmOut), IoOps, q))
    BY <2>1, AsksAfter
  <2>7. kh'.at = "assign" /\ kh'.pids = <<Pid>> /\ Range(<<Pid>>) = {Pid}
    BY <1>0, <2>1 DEF Range
  <2>8. ASSUME NEW q \in Proc PROVE Requests(q)' = Requests(q)
    <3>1. Answers(q) = Answers(q)' + One(q = Pid)
      <4>1. One(Names(Head(kmOut), IoOps, q)) = One(q = Pid)
        BY <2>2 DEF One
      <4> QED BY <2>6, <4>1
    <3>2. Holds(q) = 0 /\ Holds(q)' = One(q = Pid) /\ One(q = Pid) \in {0, 1}
      BY <2>1, <2>7 DEF Holds, KhHas, One
    <3> QED BY <2>3, <2>4, <3>1, <3>2, QuietParts
  <2>9. \A q \in Proc : RequestsMove(q)
    BY <2>5, <2>8 DEF RequestsMove, SameClass
  <2>10. \A q \in Proc : ReadingGrows(q)
    BY <2>1 DEF ReadingGrows
  <2> QED BY <2>3, <2>9, <2>10, QuietStep
<1>4. CASE ReceiveWrite
  <2>1. /\ UNCHANGED <<sysc, pend, reading, hpc, inbox, outbox, kh, lost>>
        /\ kmOut # <<>> /\ Head(kmOut).op = "IO_MEMORY_WRITE"
        /\ \/ memSem' = [memSem EXCEPT ![Pid] = @ + 1] /\ UNCHANGED <<state, kmIn>>
           \/ EndProcess(Pid) /\ UNCHANGED memSem
        /\ kmOut' = Tail(kmOut)
    BY <1>4 DEF ReceiveWrite, Receives
  <2>2. PICK p \in Proc : p = Pid /\ \A q : Names(Head(kmOut), IoOps, q) <=> q = p
    BY <2>1, Reads DEF Single, IoOps
  <2>3. DevicesQuiet
    BY <2>1 DEF DevicesQuiet
  <2>4. \A q \in Proc : /\ Asks(q)' = Asks(q) /\ Holds(q)' = Holds(q)
                        /\ Queues(q)' = Queues(q) /\ Calls(q)' = Calls(q)
    BY <1>2, <2>1, <2>2 DEF Asks, Holds, Queues, Pending, Calls
  <2>5. \A q \in Proc : SameClass(q)
    BY <1>0, <2>1, <2>2 DEF EndProcess, SameClass, Waits, HasNone
  <2>6. \A q \in Proc : Answers(q) = Answers(q)' + One(Names(Head(kmOut), IoOps, q))
    BY <2>1, AsksAfter
  <2>7. ASSUME NEW q \in Proc, q # p PROVE RequestsMove(q)
    <3>1. One(Names(Head(kmOut), IoOps, q)) = 0 /\ memSem'[q] = memSem[q]
      BY <1>0, <2>1, <2>2, <2>7 DEF One
    <3>2. Answers(q) = Answers(q)' + 0
      BY <2>6, <3>1
    <3>3. Requests(q)' = Requests(q)
      BY <2>3, <2>4, <3>1, <3>2, QuietParts
    <3> QED BY <2>5, <3>3 DEF RequestsMove, SameClass
  <2>8. RequestsMove(p)
    <3>1. One(Names(Head(kmOut), IoOps, p)) = 1
      BY <2>2 DEF One
    <3>2. Answers(p) = Answers(p)' + 1
      BY <2>2, <2>6, <3>1
    <3>0. p \in Proc
      BY <2>2
    <3>5. /\ Calls(p) \in Nat /\ Asks(p) \in Nat /\ Answers(p)' \in Nat /\ memSem[p] \in Nat
          /\ Holds(p) \in Nat /\ Queues(p) \in Nat /\ Out(p) \in Nat /\ memSem'[p] \in Nat
          /\ Requests(p) = Calls(p) + Asks(p) + Answers(p) + memSem[p] + Holds(p) + Queues(p) + Out(p)
          /\ Requests(p)' = Calls(p)' + Asks(p)' + Answers(p)' + memSem'[p] + Holds(p)' + Queues(p)' + Out(p)
      BY <2>3, <3>0, QuietParts
    <3>6. /\ Asks(p)' = Asks(p) /\ Holds(p)' = Holds(p) /\ Queues(p)' = Queues(p) /\ Calls(p)' = Calls(p)
      BY <2>4, <3>0
    <3>3. CASE memSem' = [memSem EXCEPT ![p] = @ + 1]
      <4>1. memSem'[p] = memSem[p] + 1
        BY <1>0, <2>2, <3>3
      <4>2. Requests(p)' = Requests(p)
        BY <3>2, <3>5, <3>6, <4>1
      <4> QED BY <2>2, <2>5, <4>2 DEF RequestsMove, SameClass
    <3>4. CASE EndProcess(p) /\ UNCHANGED memSem
      <4>1. Requests(p) <= 1
        BY <2>2, ClassOfStates
      <4>2. Requests(p)' = 0
        <5>1. memSem'[p] = memSem[p]
          BY <3>4
        <5> QED BY <3>2, <3>5, <3>6, <4>1, <5>1
      <4>3. state'[p] = "EXIT"
        BY <1>0, <2>2, <3>4 DEF EndProcess
      <4> QED BY <4>2, <4>3 DEF RequestsMove, Waits
    <3> QED BY <2>1, <2>2, <3>3, <3>4
  <2>9. \A q \in Proc : ReadingGrows(q)
    BY <2>1 DEF ReadingGrows
  <2> QED BY <2>3, <2>7, <2>8, <2>9, QuietStep
<1>5. CASE StdoutAssign
  <2> DEFINE d == get_available_io_type("STDOUT")
             p == Head(kh.pids)
  <2>1. /\ UNCHANGED <<state, sysc, reading, hpc, inbox, outbox, memSem, kmIn, kmOut, lost>>
        /\ kh.at = "assign"
        /\ TakeDevice(p, "STDOUT")
        /\ kh' = IF d = NoDevice THEN Idle(kh) ELSE [kh EXCEPT !.at = "send", !.dev = d]
    BY <1>5, Zenon DEF StdoutAssign
  <2>2. p \in Proc /\ kh.pids = <<p>> /\ Range(<<p>>) = {p}
    BY <2>1 DEF Types, KhTypes, OnePid, Range
  <2>3. "STDOUT" \in IoTypes
    BY DEF IoTypes
  <2>4. \/ d = NoDevice /\ pend' = [pend EXCEPT !["STDOUT"] = Append(pend["STDOUT"], p)]
        \/ d # NoDevice /\ pend' = pend
    BY <2>1, <2>2, <2>3, TakeDeviceIs
  <2>5. DevicesQuiet
    BY <2>1 DEF DevicesQuiet
  <2>6. \A q \in Proc : /\ Asks(q)' = Asks(q) /\ Answers(q)' = Answers(q)
                        /\ memSem'[q] = memSem[q] /\ Calls(q)' = Calls(q)
    BY <2>1 DEF Asks, Answers, Calls
  <2> HIDE DEF d, p
  <2>7. ASSUME NEW q \in Proc PROVE Requests(q)' = Requests(q)
    <3>1. Holds(q) = IF p = q THEN 1 ELSE 0
      BY <2>1, <2>2 DEF Holds, KhHas, One
    <3>2. CASE d = NoDevice /\ pend' = [pend EXCEPT !["STDOUT"] = Append(pend["STDOUT"], p)]
      <4>1. Queues(q)' = IF p = q THEN Queues(q) + 1 ELSE Queues(q)
        BY <2>2, <2>3, <3>2, QueuesAppend
      <4>2. kh'.at = "idle"
        BY <1>0, <2>1, <3>2 DEF Idle
      <4>3. Holds(q)' = 0
        BY <4>2 DEF Holds, KhHas, One
      <4> QED BY <2>5, <2>6, <3>1, <4>1, <4>3, QuietParts
    <3>3. CASE d # NoDevice /\ pend' = pend
      <4>1. Queues(q)' = Queues(q)
        BY <3>3 DEF Queues, Pending
      <4>2. kh'.at = "send" /\ kh'.pids = kh.pids
        BY <1>0, <2>1, <3>3
      <4>3. Holds(q)' = Holds(q)
        BY <2>1, <4>2 DEF Holds, KhHas, One
      <4> QED BY <2>5, <2>6, <4>1, <4>3, QuietParts
    <3> QED BY <2>4, <3>2, <3>3
  <2>8. \A q \in Proc : RequestsMove(q)
    BY <2>1, <2>7 DEF RequestsMove
  <2>9. ASSUME NEW q \in Proc PROVE ReadingGrows(q)
    <3>1. pend'["STDIN"] = pend["STDIN"]
      BY <2>4 DEF Types, DeviceTypes, IoTypes
    <3> QED BY <2>1, <3>1 DEF ReadingGrows
  <2> QED BY <2>5, <2>8, <2>9, QuietStep
<1>6. CASE KernelMemory /\ Head(kmIn).op \in IoOps
  <2> DEFINE m == Head(kmIn)
  <2>1. /\ UNCHANGED <<state, sysc, pend, reading, hpc, inbox, outbox, memSem, kh, lost>>
        /\ kmIn # <<>> /\ kmIn' = Tail(kmIn)
    BY <1>6 DEF KernelMemory
  <2>2. PICK ok \in BOOLEAN : kmOut' = Append(kmOut, Answer(m.op, m.pids, ok))
    BY <1>6 DEF KernelMemory, IoOps
  <2>3. DevicesQuiet
    BY <2>1 DEF DevicesQuiet
  <2>4. m \in ToKm
    BY <2>1 DEF Types, KmTypes
  <2> HIDE DEF m
  <2> DEFINE a == Answer(m.op, m.pids, ok)
  <2>5. a \in FromKm /\ a.op = m.op /\ a.pids = m.pids
    BY <2>4 DEF Answer, FromKm, ToKm
  <2>6. \A q \in Proc : One(Names(a, IoOps, q)) = One(Names(m, IoOps, q)) /\ One(Names(m, IoOps, q)) \in Nat
    BY <2>5 DEF Names, One
  <2>7. kmOut' = Append(kmOut, a)
    BY <2>2
  <2> HIDE DEF a
  <2>8. ASSUME NEW q \in Proc
        PROVE  /\ Asks(q) = Asks(q)' + One(Names(m, IoOps, q))
               /\ Answers(q)' = Answers(q) + One(Names(m, IoOps, q))
    <3>1. Asks(q) = Asks(q)' + One(Names(m, IoOps, q))
      BY <2>1, AsksAfter DEF m
    <3>2. Answers(q)' = Answers(q) + One(Names(a, IoOps, q))
      BY <2>5, <2>7, AsksAfter
    <3> QED BY <2>6, <3>1, <3>2
  <2>9. \A q \in Proc : /\ Holds(q)' = Holds(q) /\ Queues(q)' = Queues(q)
                        /\ memSem'[q] = memSem[q] /\ Calls(q)' = Calls(q)
    BY <2>1 DEF Holds, Queues, Pending, Calls
  <2>10. ASSUME NEW q \in Proc PROVE RequestsMove(q)
    <3>1. Requests(q)' = Requests(q)
      BY <2>3, <2>6, <2>8, <2>9, QuietParts
    <3> QED BY <2>1, <3>1 DEF RequestsMove
  <2>11. \A q \in Proc : ReadingGrows(q)
    BY <2>1 DEF ReadingGrows
  <2> QED BY <2>3, <2>10, <2>11, QuietStep
<1> QED BY <1>1, <1>3, <1>4, <1>5, <1>6

\* What a device and its handler have of q, as numbers.
Turn(q, d) == One(hpc[d].at = "send" /\ q \in Range(hpc[d].pids))

\* What a device has of q is the sum of its parts.
LEMMA DeviceParts ==
    ASSUME Types, Types', NEW q \in Proc, NEW d \in Device
    PROVE  /\ inbox[d] \in Seq(Proc) /\ outbox[d] \in Seq(Proc)
           /\ Times(inbox[d], q) \in Nat /\ Times(outbox[d], q) \in Nat /\ Turn(q, d) \in {0, 1}
           /\ Times(inbox'[d], q) \in Nat /\ Times(outbox'[d], q) \in Nat /\ Turn(q, d)' \in {0, 1}
           /\ RequestsAtDevice(q, d) = Times(inbox[d], q) + Times(outbox[d], q) + Turn(q, d)
           /\ RequestsAtDevice(q, d)' = Times(inbox'[d], q) + Times(outbox'[d], q) + Turn(q, d)'
           /\ Turn(q, d)' = One(hpc'[d].at = "send" /\ q \in Range(hpc'[d].pids))
<1>1. inbox[d] \in Seq(Proc) /\ outbox[d] \in Seq(Proc)
  BY DEF Types, DeviceTypes
<1>2. inbox'[d] \in Seq(Proc) /\ outbox'[d] \in Seq(Proc)
  BY DEF Types, DeviceTypes
<1>3. Times(inbox[d], q) \in Nat /\ Times(outbox[d], q) \in Nat
  BY <1>1, TimesFacts
<1>4. Times(inbox'[d], q) \in Nat /\ Times(outbox'[d], q) \in Nat
  BY <1>2, TimesFacts
<1>5. Turn(q, d) \in {0, 1} /\ Turn(q, d)' \in {0, 1}
  BY DEF Turn, One
<1> QED BY <1>1, <1>3, <1>4, <1>5 DEF RequestsAtDevice, Turn

\* A process with a request at a device has no other.
LEMMA AtDeviceOnly ==
    ASSUME Types, RequestInv, NEW q \in Proc, NEW d \in Device, RequestsAtDevice(q, d) > 0
    PROVE  /\ RequestsAtDevice(q, d) = 1 /\ Requests(q) = 1 /\ Out(q) = 1
           /\ q \notin lost /\ Cardinality(AtDevices(q)) = 1
           /\ Calls(q) = 0 /\ Asks(q) = 0 /\ Answers(q) = 0 /\ memSem[q] = 0 /\ Holds(q) = 0 /\ Queues(q) = 0
           /\ ~HasNone(state[q])
<1>1. FewDevices /\ RequestsAtDevice(q, d) <= 1 /\ Requests(q) <= 1 /\ (HasNone(state[q]) => Requests(q) = 0)
  BY DEF RequestInv, OneRequest, HasNone
<1>2. /\ Cardinality(AtDevices(q)) \in Nat /\ One(q \in lost) \in Nat /\ RequestsAtDevice(q, d) \in Nat
      /\ Cardinality(AtDevices(q)) = 0 <=> \A e \in Device : ~(RequestsAtDevice(q, e) > 0)
  BY <1>1, RequestParts
<1>3. Cardinality(AtDevices(q)) > 0
  BY <1>2
<1>4. /\ Calls(q) \in Nat /\ Asks(q) \in Nat /\ Answers(q) \in Nat /\ memSem[q] \in Nat
      /\ Holds(q) \in Nat /\ Queues(q) \in Nat /\ Out(q) \in Nat
      /\ Requests(q) = Calls(q) + Asks(q) + Answers(q) + memSem[q] + Holds(q) + Queues(q) + Out(q)
  BY <1>1, TotalNow
<1>5. Out(q) = One(q \in lost) + Cardinality(AtDevices(q))
  BY DEF Out
<1>6. /\ Out(q) = 1 /\ One(q \in lost) = 0 /\ Cardinality(AtDevices(q)) = 1 /\ Requests(q) = 1
      /\ Calls(q) = 0 /\ Asks(q) = 0 /\ Answers(q) = 0 /\ memSem[q] = 0 /\ Holds(q) = 0 /\ Queues(q) = 0
  <2> DEFINE a == Calls(q)
             b == Asks(q)
             c == Answers(q)
             f == memSem[q]
             g == Holds(q)
             h == Queues(q)
             l == One(q \in lost)
             n == Cardinality(AtDevices(q))
  <2>1. /\ a \in Nat /\ b \in Nat /\ c \in Nat /\ f \in Nat /\ g \in Nat /\ h \in Nat
        /\ l \in Nat /\ n \in Nat /\ n > 0
    BY <1>2, <1>3, <1>4
  <2>2. a + b + c + f + g + h + (l + n) <= 1
    BY <1>1, <1>4, <1>5
  <2>3. Requests(q) = a + b + c + f + g + h + (l + n) /\ Out(q) = l + n
    BY <1>4, <1>5
  <2> HIDE DEF a, b, c, f, g, h, l, n
  <2>4. l + n = 1 /\ l = 0 /\ n = 1 /\ a = 0 /\ b = 0 /\ c = 0 /\ f = 0 /\ g = 0 /\ h = 0
    BY <2>1, <2>2
  <2>5. Requests(q) = 1
    BY <2>3, <2>4
  <2> QED BY <2>3, <2>4, <2>5 DEF a, b, c, f, g, h, l, n
<1>7. q \notin lost
  BY <1>6 DEF One
<1>9. RequestsAtDevice(q, d) = 1
  BY <1>1, <1>2
<1> QED BY <1>1, <1>6, <1>7, <1>9

\* A step of one device.
LEMMA DeviceMove ==
    ASSUME Types, RequestInv, NEW q \in Proc, NEW d \in Device,
           \A e \in Device : e # d => inbox'[e] = inbox[e] /\ outbox'[e] = outbox[e] /\ hpc'[e] = hpc[e],
           RequestsAtDevice(q, d)' \in {0, 1}
    PROVE  /\ IsFiniteSet(AtDevices(q)') /\ Cardinality(AtDevices(q)) \in Nat /\ Cardinality(AtDevices(q)') \in Nat
           /\ \A e \in Device : RequestsAtDevice(q, e)' <= 1
           /\ \A e \in Device : e # d => RequestsAtDevice(q, e)' = RequestsAtDevice(q, e)
           /\ RequestsAtDevice(q, d) \in {0, 1}
           /\ Cardinality(AtDevices(q)') + RequestsAtDevice(q, d) = Cardinality(AtDevices(q)) + RequestsAtDevice(q, d)'
           /\ Cardinality(AtDevices(q)') = 0 => \A e \in Device : ~(RequestsAtDevice(q, e)' > 0)
<1>1. FewDevices /\ \A e \in Device : RequestsAtDevice(q, e) <= 1
  BY DEF RequestInv, OneRequest
<1>2. (\A e \in Device : RequestsAtDevice(q, e) \in Nat) /\ Cardinality(AtDevices(q)) \in Nat
  BY <1>1, RequestParts
<1>3. ASSUME NEW e \in Device, e # d PROVE RequestsAtDevice(q, e)' = RequestsAtDevice(q, e)
  BY <1>3 DEF RequestsAtDevice
<1>4. /\ IsFiniteSet(AtDevices(q)')
      /\ Cardinality(AtDevices(q)') + RequestsAtDevice(q, d) = Cardinality(AtDevices(q)) + RequestsAtDevice(q, d)'
      /\ \A e \in Device : RequestsAtDevice(q, e)' <= 1
  BY <1>1, <1>2, <1>3, DeviceStep
<1>5. Cardinality(AtDevices(q)') \in Nat /\ (Cardinality(AtDevices(q)') = 0 => AtDevices(q)' = {})
  BY <1>4, FS_CardinalityType, FS_EmptySet
<1>6. AtDevices(q)' = {} => \A e \in Device : ~(RequestsAtDevice(q, e)' > 0)
  BY DEF AtDevices
<1>7. RequestsAtDevice(q, d) \in {0, 1}
  BY <1>1, <1>2
<1> QED BY <1>2, <1>3, <1>4, <1>5, <1>6, <1>7

\* Where the requests of a process are before and after any step, as numbers.
LEMMA MoveParts ==
    ASSUME Types, Types', RequestInv, NEW q \in Proc, IsFiniteSet(AtDevices(q)')
    PROVE  /\ Calls(q) \in {0, 1} /\ Asks(q) \in Nat /\ Answers(q) \in Nat /\ memSem[q] \in Nat
           /\ Holds(q) \in {0, 1} /\ Queues(q) \in Nat /\ Out(q) \in Nat
           /\ Calls(q)' \in {0, 1} /\ Asks(q)' \in Nat /\ Answers(q)' \in Nat /\ memSem'[q] \in Nat
           /\ Holds(q)' \in {0, 1} /\ Queues(q)' \in Nat /\ Out(q)' \in Nat
           /\ Requests(q) = Calls(q) + Asks(q) + Answers(q) + memSem[q] + Holds(q) + Queues(q) + Out(q)
           /\ Requests(q)' = Calls(q)' + Asks(q)' + Answers(q)' + memSem'[q] + Holds(q)' + Queues(q)' + Out(q)'
           /\ Requests(q) <= 1
<1>1. FewDevices
  BY DEF RequestInv
<1>2. Calls(q) \in {0, 1} /\ Calls(q)' \in {0, 1} /\ Holds(q) \in {0, 1} /\ Holds(q)' \in {0, 1}
  BY DEF Calls, Holds, KhHas, One
<1> QED BY <1>1, <1>2, TotalNow, TotalNext, ClassOfStates

\* The requests that are not with a device stay where they are.
Aside(q) ==
    /\ Calls(q)' = Calls(q) /\ Asks(q)' = Asks(q) /\ Answers(q)' = Answers(q) /\ memSem'[q] = memSem[q]
    /\ Holds(q)' = Holds(q) /\ Queues(q)' = Queues(q)

\* Then the requests of q change by what changes at the devices only.
LEMMA AsideMove ==
    ASSUME Types, Types', RequestInv, NEW q \in Proc, IsFiniteSet(AtDevices(q)'), Aside(q)
    PROVE  /\ Out(q)' = Out(q) => Requests(q)' = Requests(q)
           /\ Out(q) = 1 /\ Out(q)' = 0 => Requests(q)' = 0
<1>1. /\ Requests(q) = Calls(q) + Asks(q) + Answers(q) + memSem[q] + Holds(q) + Queues(q) + Out(q)
      /\ Requests(q)' = Calls(q) + Asks(q) + Answers(q) + memSem[q] + Holds(q) + Queues(q) + Out(q)'
      /\ Requests(q) <= 1
  BY MoveParts DEF Aside
<1>2. /\ Calls(q) \in Nat /\ Asks(q) \in Nat /\ Answers(q) \in Nat /\ memSem[q] \in Nat
      /\ Holds(q) \in Nat /\ Queues(q) \in Nat /\ Out(q) \in Nat
  BY MoveParts
<1> DEFINE x == Calls(q) + Asks(q) + Answers(q) + memSem[q] + Holds(q) + Queues(q)
<1>3. x \in Nat /\ Requests(q) = x + Out(q) /\ Requests(q)' = x + Out(q)'
  BY <1>1, <1>2
<1> HIDE DEF x
<1> QED BY <1>1, <1>2, <1>3

\* A request goes to a device from the thread of the call, or from stdout_wait_memory_read.
LEMMA SendRequests ==
    ASSUME Types, Types', RequestInv, (\E p \in Proc : SendToDevice(p)) \/ StdoutSend
    PROVE  RequestInv'
<1> USE DEF procs, medium, devices, memory
<1>0. /\ sysc \in [Proc -> Calling] /\ OneRequest /\ \A q \in Proc : ReadingInv(q)
      /\ kh \in [at : KhPoints, pids : Seq(Proc), dev : Device \cup {NoDevice}, seen : States]
  BY DEF Types, CallTypes, RequestInv, KhTypes
<1>1. ASSUME NEW p \in Proc, NEW d \in Device, Deliver(p, d), p \notin lost,
             \A e \in Device : RequestsAtDevice(p, e) = 0,
             UNCHANGED <<state, pend, reading, hpc, outbox, memSem, kmIn, kmOut>>,
             \A q \in Proc : q # p => sysc'[q] = sysc[q] /\ Holds(q)' = Holds(q),
             Calls(p)' + Holds(p)' = 0, Calls(p) + Holds(p) = 1,
             Type[d] = "STDIN" => p \in reading
      PROVE  RequestInv'
  <2>1. \A q \in Proc :
                 /\ IsFiniteSet(AtDevices(q)')
                 /\ \A e \in Device : RequestsAtDevice(q, e)' <= 1
                 /\ Cardinality(AtDevices(q)') \in Nat
                 /\ Cardinality(AtDevices(q)') + One(q \in lost')
                       = Cardinality(AtDevices(q)) + One(q \in lost) + One(q = p)
                 /\ \A e \in Device : RequestsAtDevice(q, e)' > 0 => RequestsAtDevice(q, e) > 0 \/ (q = p /\ e = d)
    BY <1>1, DeliverIs
  <2>2. ASSUME NEW q \in Proc PROVE Out(q)' = Out(q) + One(q = p)
    <3> DEFINE a == Cardinality(AtDevices(q))
               b == Cardinality(AtDevices(q)')
               l == One(q \in lost)
               m == One(q \in lost')
               o == One(q = p)
    <3>1. b \in Nat /\ b + m = a + l + o
      BY <2>1
    <3>2. a \in Nat
      BY RequestParts DEF RequestInv
    <3>3. l \in Nat /\ m \in Nat /\ o \in Nat
      BY DEF One
    <3>4. Out(q) = l + a /\ Out(q)' = m + b
      BY DEF Out
    <3> HIDE DEF a, b, l, m, o
    <3>5. Out(q)' = Out(q) + o
      BY <3>1, <3>2, <3>3, <3>4
    <3> QED BY <3>5 DEF o
  <2>3. \A q \in Proc : /\ Asks(q)' = Asks(q) /\ Answers(q)' = Answers(q) /\ memSem'[q] = memSem[q]
                        /\ Queues(q)' = Queues(q)
    BY <1>1 DEF Asks, Answers, Queues, Pending
  <2>4. ASSUME NEW q \in Proc, q # p PROVE RequestsMove(q)
    <3>1. Out(q)' = Out(q)
      <4>1. One(q = p) = 0 /\ Out(q) \in Nat
        BY <2>1, <2>4, MoveParts DEF One
      <4> QED BY <2>2, <4>1
    <3>2. Aside(q)
      BY <1>1, <2>3, <2>4 DEF Aside, Calls
    <3>3. Requests(q)' = Requests(q)
      BY <2>1, <3>1, <3>2, AsideMove
    <3> QED BY <1>1, <3>3 DEF RequestsMove
  <2>5. RequestsMove(p)
    <3>1. Out(p)' = Out(p) + 1
      <4>1. One(p = p) = 1
        BY DEF One
      <4> QED BY <2>2, <4>1
    <3> DEFINE a == Asks(p) + Answers(p) + memSem[p] + Queues(p)
               x == Calls(p) + Holds(p)
               y == Calls(p)' + Holds(p)'
    <3>2. /\ Calls(p) \in {0, 1} /\ Asks(p) \in Nat /\ Answers(p) \in Nat /\ memSem[p] \in Nat
          /\ Holds(p) \in {0, 1} /\ Queues(p) \in Nat /\ Out(p) \in Nat
          /\ Calls(p)' \in {0, 1} /\ Holds(p)' \in {0, 1}
          /\ Requests(p) = Calls(p) + Asks(p) + Answers(p) + memSem[p] + Holds(p) + Queues(p) + Out(p)
          /\ Requests(p)' = Calls(p)' + Asks(p) + Answers(p) + memSem[p] + Holds(p)' + Queues(p) + Out(p)'
      BY <2>1, <2>3, MoveParts
    <3>3. a \in Nat /\ Requests(p) = x + a + Out(p) /\ Requests(p)' = y + a + Out(p)' /\ x = 1 /\ y = 0
      BY <1>1, <3>1, <3>2
    <3> HIDE DEF a, x, y
    <3>4. Requests(p)' = Requests(p)
      BY <3>1, <3>2, <3>3
    <3> QED BY <1>1, <3>4 DEF RequestsMove
  <2>6. ASSUME NEW q \in Proc PROVE ReadingInv(q)'
    <3>1. sysc'[q].at = "send" => sysc'[q] = sysc[q]
      <4>1. CASE q = p
        <5>1. Calls(p)' = 0
          BY <1>1, <2>1, MoveParts
        <5> QED BY <4>1, <5>1 DEF Calls, One
      <4>2. CASE q # p
        BY <1>1, <4>2
      <4> QED BY <4>1, <4>2
    <3>2. ReadingGrows(q)
      BY <1>1, <3>1 DEF ReadingGrows
    <3>3. \A e \in Device : Type[e] = "STDIN" /\ RequestsAtDevice(q, e)' > 0
                                => RequestsAtDevice(q, e) > 0 \/ q \in reading'
      BY <1>1, <2>1
    <3> QED BY <1>0, <3>2, <3>3, ReadingKept
  <2> QED BY <1>0, <2>1, <2>4, <2>5, <2>6, RequestStep
<1>2. ASSUME NEW p \in Proc, SendToDevice(p) PROVE RequestInv'
  <2>1. /\ UNCHANGED <<state, pend, reading, hpc, outbox, memSem, kh, kmIn, kmOut>>
        /\ Deliver(p, sysc[p].dev) /\ sysc[p].at = "send"
        /\ sysc' = [sysc EXCEPT ![p] = NoCall]
    BY <1>2 DEF SendToDevice
  <2>2. PICK d \in Device : d = sysc[p].dev /\ Type[d] = sysc[p].type
    BY <2>1 DEF Types, CallTypes
  <2>3. p \notin lost /\ \A e \in Device : RequestsAtDevice(p, e) = 0
    BY <2>1, Elsewhere
  <2>4. FewDevices
    BY DEF RequestInv
  <2>5. Calls(p) = 1 /\ Calls(p)' = 0
    BY <1>0, <2>1 DEF Calls, One, NoCall
  <2>6. Holds(p) = 0
    <3>1. Requests(p) <= 1
      BY ClassOfStates
    <3>2. /\ Asks(p) \in Nat /\ Answers(p) \in Nat /\ memSem[p] \in Nat
          /\ Holds(p) \in Nat /\ Queues(p) \in Nat /\ Out(p) \in Nat
          /\ Requests(p) = Calls(p) + Asks(p) + Answers(p) + memSem[p] + Holds(p) + Queues(p) + Out(p)
      BY <2>4, TotalNow
    <3> QED BY <2>5, <3>1, <3>2
  <2>7. \A q \in Proc : Holds(q)' = Holds(q)
    BY <2>1 DEF Holds
  <2>8. \A q \in Proc : q # p => sysc'[q] = sysc[q]
    BY <1>0, <2>1
  <2>9. Type[d] = "STDIN" => p \in reading
    BY <1>0, <2>1, <2>2 DEF ReadingInv
  <2>10. Calls(p)' + Holds(p)' = 0 /\ Calls(p) + Holds(p) = 1
    BY <2>5, <2>6, <2>7
  <2> QED BY <1>1, <2>1, <2>2, <2>3, <2>7, <2>8, <2>9, <2>10
<1>3. CASE StdoutSend
  <2>1. /\ UNCHANGED <<state, sysc, pend, reading, hpc, outbox, memSem, kmIn, kmOut>>
        /\ kh.at = "send" /\ Deliver(Head(kh.pids), kh.dev)
        /\ kh' = Idle(kh)
    BY <1>3 DEF StdoutSend
  <2>2. PICK p \in Proc : kh.pids = <<p>>
    BY <2>1 DEF Types, KhTypes, OnePid
  <2>3. PICK d \in Device : d = kh.dev /\ Type[d] = "STDOUT"
    BY <2>1 DEF Types, KhTypes
  <2>4. Head(kh.pids) = p /\ Range(kh.pids) = {p} /\ p \in Proc
    BY <2>2 DEF Range
  <2>5. \A q \in Proc : Holds(q) = IF q = p THEN 1 ELSE 0
    BY <2>1, <2>4 DEF Holds, KhHas, One
  <2>6. kh'.at = "idle"
    BY <1>0, <2>1 DEF Idle
  <2>7. \A q \in Proc : Holds(q)' = 0
    BY <2>6 DEF Holds, KhHas, One
  <2>8. KhHas(p, kh) = 1
    BY <2>4, <2>5 DEF Holds
  <2>9. p \notin lost /\ \A e \in Device : RequestsAtDevice(p, e) = 0
    BY <2>4, <2>8, Elsewhere
  <2>10. Calls(p) = 0 /\ Calls(p)' = 0
    <3>1. Requests(p) <= 1 /\ FewDevices
      BY <2>4, ClassOfStates DEF RequestInv
    <3>2. /\ Asks(p) \in Nat /\ Answers(p) \in Nat /\ memSem[p] \in Nat
          /\ Calls(p) \in Nat /\ Queues(p) \in Nat /\ Out(p) \in Nat
          /\ Requests(p) = Calls(p) + Asks(p) + Answers(p) + memSem[p] + Holds(p) + Queues(p) + Out(p)
      BY <2>4, <3>1, TotalNow
    <3>3. Calls(p) = 0
      BY <2>4, <2>5, <3>1, <3>2
    <3>4. Calls(p)' = Calls(p)
      BY <2>1 DEF Calls
    <3> QED BY <3>3, <3>4
  <2>11. Calls(p)' + Holds(p)' = 0 /\ Calls(p) + Holds(p) = 1
    BY <2>4, <2>5, <2>7, <2>10
  <2>12. Type[d] # "STDIN" /\ d \in Device /\ Deliver(p, d)
    BY <2>1, <2>3, <2>4
  <2>13. \A q \in Proc : q # p => sysc'[q] = sysc[q] /\ Holds(q)' = Holds(q)
    BY <2>1, <2>5, <2>7
  <2> QED BY <1>1, <2>1, <2>4, <2>9, <2>11, <2>12, <2>13
<1> QED BY <1>2, <1>3

\* The devices and their handlers.
LEMMA DeviceRequests ==
    ASSUME Types, Types', RequestInv, NEW d \in Device,
           handle_operation(d) \/ DeviceStops(d) \/ SendPending(d)
    PROVE  RequestInv'
<1> USE DEF procs, medium, devices, memory
<1>0. /\ inbox \in [Device -> Seq(Proc)] /\ outbox \in [Device -> Seq(Proc)]
      /\ hpc \in [Device -> [at : HandlerPoints, pids : Seq(Proc)]]
      /\ OneRequest /\ \A q \in Proc : ReadingInv(q)
  BY DEF Types, DeviceTypes, HandlerTypes, RequestInv
<1>1. /\ UNCHANGED <<state, sysc, pend, reading, memSem, kh, kmIn, kmOut>>
      /\ \A e \in Device : e # d => inbox'[e] = inbox[e] /\ outbox'[e] = outbox[e] /\ hpc'[e] = hpc[e]
  <2>1. CASE handle_operation(d)
    BY <1>0, <2>1 DEF handle_operation
  <2>2. CASE DeviceStops(d)
    BY <1>0, <2>2 DEF DeviceStops
  <2>3. CASE SendPending(d)
    BY <1>0, <2>3 DEF SendPending, Deliver
  <2> QED BY <2>1, <2>2, <2>3
<1>2. ASSUME NEW q \in Proc
      PROVE  /\ RequestsAtDevice(q, d)' \in {0, 1} /\ RequestsAtDevice(q, d) \in {0, 1}
             /\ One(q \in lost') + RequestsAtDevice(q, d)' = One(q \in lost) + RequestsAtDevice(q, d)
             /\ RequestsAtDevice(q, d)' > 0 => RequestsAtDevice(q, d) > 0
  <2>0. /\ inbox[d] \in Seq(Proc) /\ outbox[d] \in Seq(Proc)
        /\ Times(inbox[d], q) \in Nat /\ Times(outbox[d], q) \in Nat /\ Turn(q, d) \in {0, 1}
        /\ Times(inbox'[d], q) \in Nat /\ Times(outbox'[d], q) \in Nat /\ Turn(q, d)' \in {0, 1}
        /\ RequestsAtDevice(q, d) = Times(inbox[d], q) + Times(outbox[d], q) + Turn(q, d)
        /\ RequestsAtDevice(q, d)' = Times(inbox'[d], q) + Times(outbox'[d], q) + Turn(q, d)'
        /\ Turn(q, d)' = One(hpc'[d].at = "send" /\ q \in Range(hpc'[d].pids))
    BY DeviceParts
  <2>1. RequestsAtDevice(q, d) \in {0, 1}
    <3>1. RequestsAtDevice(q, d) <= 1
      BY DEF RequestInv, OneRequest
    <3> QED BY <2>0, <3>1
  <2>2. One(q \in lost) \in Nat
    BY DEF One
  <2>3. RequestsAtDevice(q, d) > 0 => q \notin lost
    BY AtDeviceOnly
  <2>4. CASE handle_operation(d)
    <3>1. /\ inbox[d] # <<>> /\ inbox'[d] = Tail(inbox[d]) /\ outbox'[d] = Append(outbox[d], Head(inbox[d]))
          /\ UNCHANGED <<hpc, lost>>
      BY <1>0, <2>4 DEF handle_operation
    <3>2. Head(inbox[d]) \in Proc
      BY <2>0, <3>1
    <3>3. /\ Times(inbox[d], q) = Times(Tail(inbox[d]), q) + One(Head(inbox[d]) = q)
          /\ Times(Append(outbox[d], Head(inbox[d])), q) = Times(outbox[d], q) + One(Head(inbox[d]) = q)
      <4>1. Times(inbox[d], q) = Times(Tail(inbox[d]), q) + One(Head(inbox[d]) = q)
        BY <2>0, <3>1, TimesFacts
      <4> DEFINE x == Head(inbox[d])
      <4>2. x \in Proc
        BY <3>2
      <4> HIDE DEF x
      <4>3. Times(Append(outbox[d], x), q) = Times(outbox[d], q) + One(x = q)
        BY <2>0, <4>2, TimesFacts
      <4> QED BY <4>1, <4>3 DEF x
    <3>4. Turn(q, d)' = Turn(q, d) /\ One(Head(inbox[d]) = q) \in Nat
      BY <3>1 DEF Turn, One
    <3>5. RequestsAtDevice(q, d)' = RequestsAtDevice(q, d)
      BY <2>0, <3>1, <3>3, <3>4
    <3> QED BY <2>1, <2>2, <3>1, <3>5
  <2>5. CASE DeviceStops(d)
    <3>1. inbox'[d] = <<>> /\ lost' = lost \cup Range(inbox[d]) /\ UNCHANGED <<hpc, outbox>>
      BY <1>0, <2>5 DEF DeviceStops
    <3>2. Times(inbox[d], q) > 0 <=> q \in Range(inbox[d])
      BY <2>0, TimesFacts
    <3>3. Times(<<>>, q) = 0
      BY FS_EmptySet DEF Times
    <3>4. Turn(q, d)' = Turn(q, d)
      BY <3>1 DEF Turn
    <3>5. RequestsAtDevice(q, d) = Times(inbox[d], q) + RequestsAtDevice(q, d)' /\ RequestsAtDevice(q, d)' \in Nat
      BY <2>0, <3>1, <3>3, <3>4
    <3>6. CASE Times(inbox[d], q) = 0
      <4>1. One(q \in lost') = One(q \in lost)
        BY <3>1, <3>2, <3>6 DEF One
      <4> QED BY <2>1, <2>2, <3>5, <3>6, <4>1
    <3>7. CASE Times(inbox[d], q) > 0
      <4>1. RequestsAtDevice(q, d) = 1 /\ RequestsAtDevice(q, d)' = 0
        BY <2>0, <2>1, <3>5, <3>7
      <4>2. One(q \in lost') = 1 /\ One(q \in lost) = 0
        BY <2>3, <3>1, <3>2, <3>7, <4>1 DEF One
      <4> QED BY <4>1, <4>2
    <3> QED BY <2>0, <3>6, <3>7
  <2>6. CASE SendPending(d)
    <3>1. /\ hpc[d].at = "send" /\ Deliver(Head(hpc[d].pids), d) /\ hpc'[d] = At("recv") /\ UNCHANGED outbox
      BY <1>0, <2>6 DEF SendPending
    <3>2. PICK p \in Proc : hpc[d].pids = <<p>>
      BY <3>1 DEF Types, HandlerTypes, OnePid
    <3>3. Head(hpc[d].pids) = p /\ Range(hpc[d].pids) = {p} /\ p \in Proc
      BY <3>2 DEF Range
    <3>4. Turn(q, d) = (IF q = p THEN 1 ELSE 0) /\ Turn(q, d)' = 0
      BY <2>0, <3>1, <3>3 DEF Turn, One, At
    <3>5. CASE alive[d]
      <4>1. inbox'[d] = Append(inbox[d], p) /\ lost' = lost
        BY <1>0, <3>1, <3>3, <3>5 DEF Deliver
      <4>2. Times(Append(inbox[d], p), q) = Times(inbox[d], q) + One(p = q) /\ One(p = q) = IF q = p THEN 1 ELSE 0
        BY <2>0, <3>3, TimesFacts DEF One
      <4>3. RequestsAtDevice(q, d)' = RequestsAtDevice(q, d)
        BY <2>0, <3>1, <3>4, <4>1, <4>2
      <4> QED BY <2>1, <2>2, <4>1, <4>3
    <3>6. CASE ~alive[d]
      <4>1. inbox' = inbox /\ lost' = lost \cup {p}
        BY <3>1, <3>3, <3>6 DEF Deliver
      <4>2. RequestsAtDevice(q, d) = Turn(q, d) + RequestsAtDevice(q, d)' /\ RequestsAtDevice(q, d)' \in Nat
        BY <2>0, <3>1, <3>4, <4>1
      <4>3. CASE q = p
        <5>1. RequestsAtDevice(q, d) = 1 /\ RequestsAtDevice(q, d)' = 0
          BY <2>1, <3>4, <4>2, <4>3
        <5>2. One(q \in lost') = 1 /\ One(q \in lost) = 0
          BY <2>3, <4>1, <4>3, <5>1 DEF One
        <5> QED BY <5>1, <5>2
      <4>4. CASE q # p
        <5>1. One(q \in lost') = One(q \in lost)
          BY <4>1, <4>4 DEF One
        <5> QED BY <2>1, <2>2, <3>4, <4>2, <4>4, <5>1
      <4> QED BY <4>3, <4>4
    <3> QED BY <3>5, <3>6
  <2> QED BY <2>4, <2>5, <2>6
<1>3. ASSUME NEW q \in Proc
      PROVE  /\ IsFiniteSet(AtDevices(q)')
             /\ \A e \in Device : RequestsAtDevice(q, e)' <= 1
             /\ RequestsMove(q) /\ ReadingInv(q)'
  <2>1. /\ RequestsAtDevice(q, d)' \in {0, 1} /\ RequestsAtDevice(q, d) \in {0, 1}
        /\ One(q \in lost') + RequestsAtDevice(q, d)' = One(q \in lost) + RequestsAtDevice(q, d)
        /\ RequestsAtDevice(q, d)' > 0 => RequestsAtDevice(q, d) > 0
    BY <1>2
  <2>2. /\ IsFiniteSet(AtDevices(q)') /\ Cardinality(AtDevices(q)) \in Nat /\ Cardinality(AtDevices(q)') \in Nat
        /\ \A e \in Device : RequestsAtDevice(q, e)' <= 1
        /\ \A e \in Device : e # d => RequestsAtDevice(q, e)' = RequestsAtDevice(q, e)
        /\ Cardinality(AtDevices(q)') + RequestsAtDevice(q, d) = Cardinality(AtDevices(q)) + RequestsAtDevice(q, d)'
    BY <1>1, <2>1, DeviceMove
  <2>3. Out(q)' = Out(q)
    <3> DEFINE l == One(q \in lost)
               m == One(q \in lost')
    <3>1. l \in Nat /\ m \in Nat
      BY DEF One
    <3>2. m + RequestsAtDevice(q, d)' = l + RequestsAtDevice(q, d)
      BY <2>1
    <3>3. Out(q) = l + Cardinality(AtDevices(q)) /\ Out(q)' = m + Cardinality(AtDevices(q)')
      BY DEF Out
    <3> HIDE DEF l, m
    <3> QED BY <2>1, <2>2, <3>1, <3>2, <3>3
  <2>4. Aside(q)
    BY <1>1 DEF Aside, Calls, Asks, Answers, Holds, Queues, Pending
  <2>5. Requests(q)' = Requests(q)
    BY <2>2, <2>3, <2>4, AsideMove
  <2>6. RequestsMove(q)
    BY <1>1, <2>5 DEF RequestsMove
  <2>7. ReadingGrows(q)
    BY <1>1 DEF ReadingGrows
  <2>8. \A e \in Device : Type[e] = "STDIN" /\ RequestsAtDevice(q, e)' > 0
                                => RequestsAtDevice(q, e) > 0 \/ q \in reading'
    BY <2>1, <2>2
  <2>9. ReadingInv(q)'
    BY <1>0, <2>7, <2>8, ReadingKept
  <2> QED BY <2>2, <2>6, <2>9
<1> QED BY <1>0, <1>3, RequestStep

\* An answer is handled: the request leaves the device.
LEMMA AnswerTaken ==
    ASSUME Types, Types', RequestInv, NEW d \in Device, outbox[d] # <<>>,
           outbox' = [outbox EXCEPT ![d] = Tail(@)], UNCHANGED <<inbox, lost>>,
           hpc[d].at # "send", hpc'[d].at # "send", \A e \in Device : e # d => hpc'[e] = hpc[e]
    PROVE  /\ Head(outbox[d]) \in Proc /\ RequestsAtDevice(Head(outbox[d]), d) > 0
           /\ \A q \in Proc : /\ IsFiniteSet(AtDevices(q)')
                              /\ \A e \in Device : RequestsAtDevice(q, e)' <= 1
                              /\ \A e \in Device : RequestsAtDevice(q, e)' > 0 => RequestsAtDevice(q, e) > 0
                              /\ q # Head(outbox[d]) => Out(q)' = Out(q)
                              /\ q = Head(outbox[d]) => Out(q) = 1 /\ Out(q)' = 0
                              /\ q = Head(outbox[d]) => \A e \in Device : ~(RequestsAtDevice(q, e)' > 0)
<1>0. outbox \in [Device -> Seq(Proc)] /\ outbox[d] \in Seq(Proc)
  BY DEF Types, DeviceTypes
<1>1. PICK p \in Proc : p = Head(outbox[d])
  BY <1>0
<1>2. outbox'[d] = Tail(outbox[d]) /\ \A e \in Device : e # d => outbox'[e] = outbox[e]
  BY <1>0
<1>3. ASSUME NEW q \in Proc
      PROVE  RequestsAtDevice(q, d) = RequestsAtDevice(q, d)' + (IF q = p THEN 1 ELSE 0)
             /\ RequestsAtDevice(q, d) \in {0, 1} /\ RequestsAtDevice(q, d)' \in {0, 1}
  <2>0. /\ Times(inbox[d], q) \in Nat /\ Times(outbox[d], q) \in Nat
        /\ Times(inbox'[d], q) \in Nat /\ Times(outbox'[d], q) \in Nat
        /\ RequestsAtDevice(q, d) = Times(inbox[d], q) + Times(outbox[d], q) + Turn(q, d)
        /\ RequestsAtDevice(q, d)' = Times(inbox'[d], q) + Times(outbox'[d], q) + Turn(q, d)'
        /\ Turn(q, d)' = One(hpc'[d].at = "send" /\ q \in Range(hpc'[d].pids))
    BY DeviceParts
  <2>1. Turn(q, d) = 0 /\ Turn(q, d)' = 0
    BY <2>0 DEF Turn, One
  <2>2. Times(outbox[d], q) = Times(Tail(outbox[d]), q) + One(Head(outbox[d]) = q)
    BY <1>0, TimesFacts
  <2>3. One(Head(outbox[d]) = q) = IF q = p THEN 1 ELSE 0
    BY <1>1 DEF One
  <2>4. RequestsAtDevice(q, d) <= 1
    BY DEF RequestInv, OneRequest
  <2> QED BY <1>2, <2>0, <2>1, <2>2, <2>3, <2>4
<1>4. RequestsAtDevice(p, d) > 0
  BY <1>3
<1>5. ASSUME NEW q \in Proc
      PROVE  /\ IsFiniteSet(AtDevices(q)')
             /\ \A e \in Device : RequestsAtDevice(q, e)' <= 1
             /\ \A e \in Device : RequestsAtDevice(q, e)' > 0 => RequestsAtDevice(q, e) > 0
             /\ q # p => Out(q)' = Out(q)
             /\ q = p => Out(q) = 1 /\ Out(q)' = 0
             /\ q = p => \A e \in Device : ~(RequestsAtDevice(q, e)' > 0)
  <2>1. /\ RequestsAtDevice(q, d) = RequestsAtDevice(q, d)' + (IF q = p THEN 1 ELSE 0)
        /\ RequestsAtDevice(q, d) \in {0, 1} /\ RequestsAtDevice(q, d)' \in {0, 1}
    BY <1>3
  <2>2. /\ IsFiniteSet(AtDevices(q)') /\ Cardinality(AtDevices(q)) \in Nat /\ Cardinality(AtDevices(q)') \in Nat
        /\ \A e \in Device : RequestsAtDevice(q, e)' <= 1
        /\ \A e \in Device : e # d => RequestsAtDevice(q, e)' = RequestsAtDevice(q, e)
        /\ Cardinality(AtDevices(q)') + RequestsAtDevice(q, d) = Cardinality(AtDevices(q)) + RequestsAtDevice(q, d)'
        /\ Cardinality(AtDevices(q)') = 0 => \A e \in Device : ~(RequestsAtDevice(q, e)' > 0)
    BY <1>2, <2>1, DeviceMove
  <2>3. Out(q) = One(q \in lost) + Cardinality(AtDevices(q)) /\ Out(q)' = One(q \in lost) + Cardinality(AtDevices(q)')
    BY DEF Out
  <2>4. One(q \in lost) \in Nat
    BY DEF One
  <2>5. CASE q # p
    <3>1. Cardinality(AtDevices(q)') = Cardinality(AtDevices(q))
      BY <2>1, <2>2, <2>5
    <3> QED BY <2>1, <2>2, <2>3, <2>5, <3>1
  <2>6. CASE q = p
    <3>1. Cardinality(AtDevices(q)) = 1 /\ q \notin lost /\ Out(q) = 1
      BY <1>4, <2>6, AtDeviceOnly
    <3>2. Cardinality(AtDevices(q)') = 0
      BY <2>1, <2>2, <2>6, <3>1
    <3>3. Out(q)' = 0
      BY <2>3, <3>1, <3>2 DEF One
    <3> QED BY <2>1, <2>2, <2>6, <3>1, <3>2, <3>3
  <2> QED BY <2>5, <2>6
<1> QED BY <1>1, <1>4, <1>5

\* The handler of a device takes an answer: the process is woken, or its input goes to memory.
LEMMA AnswerRequests ==
    ASSUME Types, Types', RequestInv, NEW d \in Device, io_finish_process(d) \/ StdinAnswer(d)
    PROVE  RequestInv'
<1> USE DEF procs, medium, devices, memory
<1>0. /\ outbox \in [Device -> Seq(Proc)]
      /\ hpc \in [Device -> [at : HandlerPoints, pids : Seq(Proc)]]
      /\ OneRequest /\ \A q \in Proc : ReadingInv(q)
  BY DEF Types, DeviceTypes, HandlerTypes, RequestInv
<1>1. /\ outbox[d] # <<>> /\ outbox' = [outbox EXCEPT ![d] = Tail(@)] /\ hpc[d].at = "recv"
      /\ UNCHANGED <<inbox, lost, sysc, pend, memSem, kh, kmOut>>
  BY DEF io_finish_process, StdinAnswer
<1>2. PICK p \in Proc : p = Head(outbox[d])
  BY <1>0, <1>1
<1>3. /\ \A e \in Device : e # d => hpc'[e] = hpc[e]
      /\ hpc'[d].at # "send"
  <2>1. CASE io_finish_process(d)
    <3>1. hpc' = [hpc EXCEPT ![d] = At("free")] /\ At("free").at = "free"
      BY <2>1 DEF io_finish_process, At
    <3> QED BY <1>0, <3>1
  <2>2. CASE StdinAnswer(d)
    <3>1. hpc' = hpc \/ hpc' = [hpc EXCEPT ![d] = For("free", p)]
      BY <1>2, <2>2 DEF StdinAnswer
    <3>2. For("free", p).at = "free"
      BY DEF For
    <3> QED BY <1>0, <1>1, <3>1, <3>2
  <2> QED BY <2>1, <2>2
<1>4. /\ RequestsAtDevice(p, d) > 0
      /\ \A q \in Proc : /\ IsFiniteSet(AtDevices(q)')
                         /\ \A e \in Device : RequestsAtDevice(q, e)' <= 1
                         /\ \A e \in Device : RequestsAtDevice(q, e)' > 0 => RequestsAtDevice(q, e) > 0
                         /\ q # p => Out(q)' = Out(q)
                         /\ q = p => Out(q) = 1 /\ Out(q)' = 0
                         /\ q = p => \A e \in Device : ~(RequestsAtDevice(q, e)' > 0)
  <2>1. hpc[d].at # "send"
    BY <1>1
  <2> QED BY <1>1, <1>2, <1>3, <2>1, AnswerTaken, Zenon
<1>5. \A q \in Proc : /\ Calls(q)' = Calls(q) /\ Answers(q)' = Answers(q) /\ memSem'[q] = memSem[q]
                      /\ Holds(q)' = Holds(q) /\ Queues(q)' = Queues(q)
  BY <1>1 DEF Calls, Answers, Holds, Queues, Pending
<1>6. CASE io_finish_process(d)
  <2>1. WakeUp(p) /\ UNCHANGED <<reading, kmIn>>
    BY <1>2, <1>6 DEF io_finish_process
  <2>2. \A q \in Proc : Aside(q)
    BY <1>5, <2>1 DEF Aside, Asks
  <2>3. state'[p] \in {"READY", "SUSP_READY"} /\ \A q \in Proc : q # p => state'[q] = state[q]
    BY <2>1, WakeUpIs
  <2>4. ASSUME NEW q \in Proc PROVE RequestsMove(q) /\ ReadingInv(q)'
    <3>1. IsFiniteSet(AtDevices(q)') /\ Aside(q)
      BY <1>4, <2>2
    <3>2. /\ Out(q)' = Out(q) => Requests(q)' = Requests(q)
          /\ Out(q) = 1 /\ Out(q)' = 0 => Requests(q)' = 0
      BY <3>1, AsideMove
    <3>3. RequestsMove(q)
      <4>1. CASE q = p
        BY <1>4, <2>3, <3>2, <4>1 DEF RequestsMove, Waits
      <4>2. CASE q # p
        BY <1>4, <2>3, <3>2, <4>2 DEF RequestsMove
      <4> QED BY <4>1, <4>2
    <3>4. ReadingGrows(q)
      BY <1>1, <2>1 DEF ReadingGrows
    <3>5. ReadingInv(q)'
      BY <1>0, <1>4, <3>4, ReadingKept
    <3> QED BY <3>3, <3>5
  <2> QED BY <1>0, <1>4, <2>4, RequestStep
<1>7. CASE StdinAnswer(d)
  <2>0. Type[d] = "STDIN" /\ UNCHANGED state
    BY <1>7 DEF StdinAnswer
  <2>1. p \in reading
    BY <1>0, <1>4, <2>0 DEF ReadingInv
  <2>2. reading' = reading \ {p} /\ kmIn' = Append(kmIn, Request("IO_MEMORY_WRITE", <<p>>))
    BY <1>2, <1>7, <2>1 DEF StdinAnswer
  <2>3. \A q \in Proc : Asks(q)' = Asks(q) + (IF q = p THEN 1 ELSE 0) /\ Asks(q) \in Nat
    <3> DEFINE m == Request("IO_MEMORY_WRITE", <<p>>)
    <3>1. m \in ToKm /\ \A ops, q : Names(m, ops, q) <=> "IO_MEMORY_WRITE" \in ops /\ q = p
      BY RequestIs DEF Single
    <3> HIDE DEF m
    <3>2. \A q \in Proc : One(Names(m, IoOps, q)) = IF q = p THEN 1 ELSE 0
      BY <3>1 DEF IoOps, One
    <3>3. kmIn' = Append(kmIn, m)
      BY <2>2 DEF m
    <3>4. ASSUME NEW q \in Proc PROVE Asks(q)' = Asks(q) + One(Names(m, IoOps, q)) /\ Asks(q) \in Nat
      BY <3>1, <3>3, AsksAfter
    <3> QED BY <3>2, <3>4
  <2>4. ASSUME NEW q \in Proc PROVE RequestsMove(q) /\ ReadingInv(q)'
    <3>0. /\ IsFiniteSet(AtDevices(q)') /\ Asks(q)' = Asks(q) + (IF q = p THEN 1 ELSE 0)
          /\ Calls(q)' = Calls(q) /\ Answers(q)' = Answers(q) /\ memSem'[q] = memSem[q]
          /\ Holds(q)' = Holds(q) /\ Queues(q)' = Queues(q)
      BY <1>4, <1>5, <2>3
    <3>1. CASE q = p
      <4>1. /\ Requests(q) = 1 /\ Out(q) = 1 /\ ~HasNone(state[q])
            /\ Calls(q) = 0 /\ Asks(q) = 0 /\ Answers(q) = 0 /\ memSem[q] = 0 /\ Holds(q) = 0 /\ Queues(q) = 0
        BY <1>4, <3>1, AtDeviceOnly
      <4>2. Requests(q)' = Calls(q)' + Asks(q)' + Answers(q)' + memSem'[q] + Holds(q)' + Queues(q)' + Out(q)'
        BY <3>0, TotalNext
      <4>3. Requests(q)' = 1
        BY <1>4, <3>0, <3>1, <4>1, <4>2
      <4>4. RequestsMove(q)
        BY <2>0, <4>1, <4>3 DEF RequestsMove
      <4>5. sysc'[q].at = "idle"
        BY <1>1, <4>1 DEF Calls, One
      <4>6. q \notin Range(pend'["STDIN"])
        <5>1. /\ Times(pend["SLEEP"], q) \in Nat /\ Times(pend["STDIN"], q) \in Nat /\ Times(pend["STDOUT"], q) \in Nat
              /\ Queues(q) = Times(pend["SLEEP"], q) + Times(pend["STDIN"], q) + Times(pend["STDOUT"], q)
          BY QueuesNow
        <5>2. Times(pend["STDIN"], q) = 0
          BY <4>1, <5>1
        <5>3. pend["STDIN"] \in Seq(Proc)
          BY DEF Types, DeviceTypes, IoTypes
        <5> QED BY <1>1, <5>2, <5>3, TimesFacts
      <4>7. ReadingInv(q)'
        BY <1>4, <3>1, <4>5, <4>6 DEF ReadingInv
      <4> QED BY <4>4, <4>7
    <3>2. CASE q # p
      <4>1. Out(q)' = Out(q) /\ Aside(q)
        BY <1>4, <3>0, <3>2, <2>3 DEF Aside
      <4>2. Requests(q)' = Requests(q)
        BY <3>0, <4>1, AsideMove
      <4>3. RequestsMove(q)
        BY <2>0, <4>2 DEF RequestsMove
      <4>4. ReadingInv(q)'
        BY <1>0, <1>1, <1>4, <2>2, <3>2 DEF ReadingInv
      <4> QED BY <4>3, <4>4
    <3> QED BY <3>1, <3>2
  <2> QED BY <1>0, <1>4, <2>4, RequestStep
<1> QED BY <1>6, <1>7

\* handle_next_operation takes the oldest pending request.
LEMMA NextRequests ==
    ASSUME Types, Types', RequestInv, NEW d \in Device, handle_next_operation(d), pend[Type[d]] # <<>>
    PROVE  RequestInv'
<1> USE DEF procs, medium, devices, memory
<1> DEFINE t == Type[d]
<1>0. /\ hpc \in [Device -> [at : HandlerPoints, pids : Seq(Proc)]]
      /\ OneRequest /\ (\A q \in Proc : ReadingInv(q)) /\ t \in IoTypes
      /\ pend \in [IoTypes -> Seq(Proc)] /\ pend[t] \in Seq(Proc)
  BY IoAssumption DEF Types, DeviceTypes, HandlerTypes, RequestInv
<1>1. PICK p \in Proc : p = Head(pend[t])
  BY <1>0
<1>2. /\ hpc[d].at = "next" /\ hpc' = [hpc EXCEPT ![d] = For("send", p)] /\ pend' = [pend EXCEPT ![t] = Tail(@)]
      /\ UNCHANGED <<state, sysc, reading, inbox, outbox, memSem, kh, kmIn, kmOut, lost>>
  BY <1>1 DEF handle_next_operation
<1>3. hpc'[d] = For("send", p) /\ \A e \in Device : e # d => hpc'[e] = hpc[e]
  BY <1>0, <1>2
<1> HIDE DEF t
<1>4. ASSUME NEW q \in Proc
      PROVE  Queues(q) \in Nat /\ Queues(q) = IF q = p THEN Queues(q)' + 1 ELSE Queues(q)'
  BY <1>0, <1>1, <1>2, QueuesTail DEF t
<1>5. /\ \A e \in Device : RequestsAtDevice(p, e) = 0
      /\ p \notin lost /\ Cardinality(AtDevices(p)) = 0 /\ Requests(p) = 1 /\ ~HasNone(state[p])
      /\ p \in Range(pend[t])
  <2>1. Times(pend[t], p) > 0 /\ p \in Range(pend[t])
    <3>1. p \in Range(pend[t])
      BY <1>0, <1>1 DEF Range, t
    <3> QED BY <1>0, <3>1, TimesFacts
  <2>2. \E u \in IoTypes : Times(pend[u], p) > 0
    BY <1>0, <2>1
  <2> QED BY <2>1, <2>2, Elsewhere
<1>6. ASSUME NEW q \in Proc
      PROVE  /\ RequestsAtDevice(q, d)' = IF q = p THEN 1 ELSE RequestsAtDevice(q, d)
             /\ RequestsAtDevice(q, d)' \in {0, 1}
  <2>0. /\ Times(inbox[d], q) \in Nat /\ Times(outbox[d], q) \in Nat
        /\ RequestsAtDevice(q, d) = Times(inbox[d], q) + Times(outbox[d], q) + Turn(q, d)
        /\ RequestsAtDevice(q, d)' = Times(inbox'[d], q) + Times(outbox'[d], q) + Turn(q, d)'
        /\ Turn(q, d)' = One(hpc'[d].at = "send" /\ q \in Range(hpc'[d].pids))
    BY DeviceParts
  <2>1. Range(For("send", p).pids) = {p} /\ For("send", p).at = "send"
    BY DEF For, Range
  <2>2. Turn(q, d) = 0 /\ Turn(q, d)' = IF q = p THEN 1 ELSE 0
    BY <1>2, <1>3, <2>0, <2>1 DEF Turn, One
  <2>3. RequestsAtDevice(q, d) <= 1
    BY DEF RequestInv, OneRequest
  <2>4. RequestsAtDevice(q, d)' = RequestsAtDevice(q, d) + (IF q = p THEN 1 ELSE 0) /\ RequestsAtDevice(q, d) \in Nat
    BY <1>2, <2>0, <2>2
  <2>5. RequestsAtDevice(p, d) = 0
    BY <1>5
  <2> QED BY <2>3, <2>4, <2>5
<1>7. ASSUME NEW q \in Proc
      PROVE  /\ IsFiniteSet(AtDevices(q)')
             /\ \A e \in Device : RequestsAtDevice(q, e)' <= 1
             /\ \A e \in Device : e # d => RequestsAtDevice(q, e)' = RequestsAtDevice(q, e)
             /\ Out(q)' = Out(q) + (IF q = p THEN 1 ELSE 0) /\ Out(q) \in Nat
  <2>1. RequestsAtDevice(q, d)' \in {0, 1} /\ RequestsAtDevice(q, d)' = IF q = p THEN 1 ELSE RequestsAtDevice(q, d)
    BY <1>6
  <2>2. /\ IsFiniteSet(AtDevices(q)') /\ Cardinality(AtDevices(q)) \in Nat /\ Cardinality(AtDevices(q)') \in Nat
        /\ \A e \in Device : RequestsAtDevice(q, e)' <= 1
        /\ \A e \in Device : e # d => RequestsAtDevice(q, e)' = RequestsAtDevice(q, e)
        /\ RequestsAtDevice(q, d) \in {0, 1}
        /\ Cardinality(AtDevices(q)') + RequestsAtDevice(q, d) = Cardinality(AtDevices(q)) + RequestsAtDevice(q, d)'
    BY <1>2, <1>3, <2>1, DeviceMove
  <2>3. Out(q) = One(q \in lost) + Cardinality(AtDevices(q)) /\ Out(q)' = One(q \in lost) + Cardinality(AtDevices(q)')
    BY <1>2 DEF Out
  <2>4. One(q \in lost) \in Nat
    BY DEF One
  <2>5. q = p => RequestsAtDevice(q, d) = 0
    BY <1>5
  <2> QED BY <2>1, <2>2, <2>3, <2>4, <2>5
<1>8. ASSUME NEW q \in Proc PROVE RequestsMove(q) /\ ReadingInv(q)'
  <2>1. /\ IsFiniteSet(AtDevices(q)') /\ Out(q)' = Out(q) + (IF q = p THEN 1 ELSE 0) /\ Out(q) \in Nat
        /\ Queues(q) \in Nat /\ Queues(q) = IF q = p THEN Queues(q)' + 1 ELSE Queues(q)'
    BY <1>4, <1>7
  <2>2. /\ Calls(q) \in Nat /\ Asks(q) \in Nat /\ Answers(q) \in Nat /\ memSem[q] \in Nat /\ Holds(q) \in Nat
        /\ Queues(q)' \in Nat
        /\ Requests(q) = Calls(q) + Asks(q) + Answers(q) + memSem[q] + Holds(q) + Queues(q) + Out(q)
        /\ Requests(q)' = Calls(q)' + Asks(q)' + Answers(q)' + memSem'[q] + Holds(q)' + Queues(q)' + Out(q)'
    BY <2>1, MoveParts
  <2>3. /\ Calls(q)' = Calls(q) /\ Answers(q)' = Answers(q) /\ memSem'[q] = memSem[q]
        /\ Holds(q)' = Holds(q) /\ Asks(q)' = Asks(q)
    BY <1>2 DEF Calls, Answers, Holds, Asks
  <2>4. Requests(q)' = Requests(q)
    BY <2>1, <2>2, <2>3
  <2>5. RequestsMove(q)
    BY <1>2, <2>4 DEF RequestsMove
  <2>6. q \in Range(pend'["STDIN"]) => q \in Range(pend["STDIN"])
    <3>1. CASE t = "STDIN"
      <4>1. pend'["STDIN"] = Tail(pend["STDIN"]) /\ pend["STDIN"] \in Seq(Proc) /\ pend["STDIN"] # <<>>
        BY <1>0, <1>2, <3>1 DEF t
      <4>2. \A i \in DOMAIN Tail(pend["STDIN"]) : i + 1 \in DOMAIN pend["STDIN"]
                                                  /\ Tail(pend["STDIN"])[i] = pend["STDIN"][i + 1]
        BY <4>1
      <4> QED BY <4>1, <4>2 DEF Range
    <3>2. CASE t # "STDIN"
      BY <1>0, <1>2, <3>2 DEF IoTypes
    <3> QED BY <3>1, <3>2
  <2>7. ReadingGrows(q)
    BY <1>2, <2>6 DEF ReadingGrows
  <2>8. \A e \in Device : Type[e] = "STDIN" /\ RequestsAtDevice(q, e)' > 0
                                => RequestsAtDevice(q, e) > 0 \/ q \in reading'
    <3> SUFFICES ASSUME NEW e \in Device, Type[e] = "STDIN", RequestsAtDevice(q, e)' > 0
                 PROVE  RequestsAtDevice(q, e) > 0 \/ q \in reading'
      OBVIOUS
    <3>1. CASE e # d \/ q # p
      BY <1>6, <1>7, <3>1
    <3>2. CASE e = d /\ q = p
      <4>1. p \in Range(pend["STDIN"])
        BY <1>5, <3>2 DEF t
      <4> QED BY <1>0, <1>2, <3>2, <4>1 DEF ReadingInv
    <3> QED BY <3>1, <3>2
  <2>9. ReadingInv(q)'
    BY <1>0, <2>7, <2>8, ReadingKept
  <2> QED BY <2>5, <2>9
<1> QED BY <1>0, <1>7, <1>8, RequestStep

\* No step loses, doubles or misplaces a request, provided that who comes back from
\* SWAP is SUSP_READY.
LEMMA RequestNext ==
    ASSUME Types, Types', RequestInv, Applies, [Next]_vars
    PROVE  RequestInv'
<1>1. ASSUME NEW p \in Proc, Dispatch(p) \/ CpuHandler(p) \/ wait_memory_write_confirmation(p) \/ SendSwapOut(p)
      PROVE  RequestInv'
  BY <1>1, UnmovedCalls, CallRequests, SendRequests, TransferRequests
<1>2. ASSUME NEW d \in Device, Connect(d) \/ handle_operation(d) \/ DeviceStops(d) \/ io_handler(d)
      PROVE  RequestInv'
  BY <1>2, UnmovedDevices, DeviceRequests, AnswerRequests, NextRequests DEF io_handler
<1>3. CASE kernel_memory_handler
  BY <1>3, UnmovedHandler, TransferRequests, SendRequests DEF kernel_memory_handler
<1>4. CASE suspension_manager \/ KernelMemory \/ MemoryUpdate
  BY <1>4, UnmovedOthers, TransferRequests
<1>5. CASE UNCHANGED vars
  <2>1. UNCHANGED <<state, pend, reading, sysc, memSem, kh, kmIn, kmOut, inbox, outbox, hpc, lost>>
    BY <1>5 DEF vars
  <2>2. DevicesQuiet
    BY <2>1 DEF DevicesQuiet
  <2>3. \A q \in Proc : Unmoved(q) /\ SameClass(q)
    BY <2>1 DEF Unmoved, SameClass, Asks, Answers, Holds
  <2> QED BY <2>1, <2>2, <2>3, UnmovedStep
<1> QED BY <1>1, <1>2, <1>3, <1>4, <1>5 DEF Next

\* No process has a request at first.
LEMMA RequestInit == Init => RequestInv
<1> SUFFICES ASSUME Init PROVE RequestInv
  OBVIOUS
<1>0. /\ sysc = [p \in Proc |-> NoCall] /\ pend = [t \in IoTypes |-> <<>>] /\ state = [p \in Proc |-> "READY"]
      /\ hpc = [d \in Device |-> IF d \in Fixed THEN At("recv") ELSE At("off")]
      /\ inbox = [d \in Device |-> <<>>] /\ outbox = [d \in Device |-> <<>>]
      /\ memSem = [p \in Proc |-> 0] /\ kh = KhIdle /\ kmIn = <<>> /\ kmOut = <<>> /\ lost = {}
  BY DEF Init
<1>1. ASSUME NEW p \in Proc PROVE Times(<<>>, p) = 0 /\ Sent(<<>>, IoOps, p) = 0
  BY FS_EmptySet DEF Times, Sent
<1>2. ASSUME NEW p \in Proc, NEW d \in Device PROVE RequestsAtDevice(p, d) = 0
  <2>1. inbox[d] = <<>> /\ outbox[d] = <<>> /\ hpc[d].at # "send"
    BY <1>0 DEF At
  <2>2. One(hpc[d].at = "send" /\ p \in Range(hpc[d].pids)) = 0
    BY <2>1 DEF One
  <2>3. Times(inbox[d], p) = 0 /\ Times(outbox[d], p) = 0
    BY <1>1, <2>1
  <2> QED BY <2>2, <2>3 DEF RequestsAtDevice
<1>3. ASSUME NEW p \in Proc PROVE AtDevices(p) = {} /\ IsFiniteSet(AtDevices(p)) /\ Cardinality(AtDevices(p)) = 0
  <2>1. AtDevices(p) = {}
    BY <1>2 DEF AtDevices
  <2> QED BY <2>1, FS_EmptySet
<1>4. Types /\ FewDevices
  BY <1>3, TypesInit DEF FewDevices
<1>5. ASSUME NEW p \in Proc PROVE Requests(p) = 0
  <2>1. /\ Calls(p) = 0 /\ Holds(p) = 0 /\ memSem[p] = 0 /\ One(p \in lost) = 0
    BY <1>0 DEF Calls, Holds, KhHas, One, NoCall, KhIdle
  <2>2. Asks(p) = 0 /\ Answers(p) = 0
    BY <1>0, <1>1 DEF Asks, Answers
  <2>3. Queues(p) = 0
    <3>1. pend["SLEEP"] = <<>> /\ pend["STDIN"] = <<>> /\ pend["STDOUT"] = <<>>
      BY <1>0 DEF IoTypes
    <3>2. Times(pend["SLEEP"], p) = 0 /\ Times(pend["STDIN"], p) = 0 /\ Times(pend["STDOUT"], p) = 0
      BY <1>1, <3>1
    <3> QED BY <3>2 DEF Queues, Pending
  <2>4. Out(p) = 0
    BY <1>3, <2>1 DEF Out
  <2>5. Requests(p) = Calls(p) + Asks(p) + Answers(p) + memSem[p] + Holds(p) + Queues(p) + Out(p)
    BY <1>4, TotalNow
  <2> QED BY <2>1, <2>2, <2>3, <2>4, <2>5
<1>6. OneRequest
  BY <1>0, <1>2, <1>5 DEF OneRequest
<1>7. ASSUME NEW p \in Proc PROVE ReadingInv(p)
  <2>1. sysc[p].at = "idle" /\ pend["STDIN"] = <<>>
    BY <1>0 DEF NoCall, IoTypes
  <2>2. p \notin Range(pend["STDIN"])
    BY <2>1 DEF Range
  <2> QED BY <1>2, <2>1, <2>2 DEF ReadingInv
<1> QED BY <1>4, <1>6, <1>7 DEF RequestInv

-----------------------------------------------------------------------------
(* The medium-term scheduler.                                              *)

\* The parts of SwapOuts and of Backs.
OutToSend(q) == One(q \in suspending)
OutAsked(q) == Sent(kmIn, {"SWAP_OUT"}, q)
OutAnswered(q) == Sent(kmOut, {"SWAP_OUT"}, q)
OutListing(q) == One(kh.at = "suspend" /\ q \in Range(kh.pids))
OutListed(q) == Times(suspended, q)
Applied(q) == kh.at = "apply" /\ q = Head(kh.pids)
BackAnswered(q) == Sent(kmOut, {"SWAP_IN"}, q)
BackHeld(q) == One(kh.at \in {"in", "apply"} /\ q \in Range(kh.pids))
EndsAsked(q) == Sent(kmIn, {"PROCESS_END"}, q)

\* The counts are sums of these parts, before the step ...
LEMMA MediumParts ==
    ASSUME Types, NEW q \in Proc
    PROVE  /\ OutToSend(q) \in Nat /\ OutAsked(q) \in Nat /\ OutAnswered(q) \in Nat /\ OutListing(q) \in Nat
           /\ OutListed(q) \in Nat /\ One(Applied(q)) \in Nat
           /\ SwapOuts(q) = OutToSend(q) + OutAsked(q) + OutAnswered(q) + OutListing(q) + OutListed(q) + One(Applied(q))
           /\ BackAnswered(q) \in Nat /\ BackHeld(q) \in {0, 1} /\ Backs(q) = BackAnswered(q) + BackHeld(q)
           /\ EndsAsked(q) \in Nat /\ (Killed(q) <=> q \in ended \/ EndsAsked(q) > 0)
           /\ OutListed(q) > 0 <=> q \in Range(suspended)
<1>1. kmIn \in Seq(ToKm) /\ kmOut \in Seq(FromKm) /\ suspended \in Seq(Proc)
  BY DEF Types, KmTypes, ProcTypes
<1>2. OutAsked(q) \in Nat /\ EndsAsked(q) \in Nat
  BY <1>1, SentFacts DEF OutAsked, EndsAsked
<1>3. OutAnswered(q) \in Nat /\ BackAnswered(q) \in Nat
  BY <1>1, SentFacts DEF OutAnswered, BackAnswered
<1>4. OutListed(q) \in Nat /\ (OutListed(q) > 0 <=> q \in Range(suspended))
  BY <1>1, TimesFacts DEF OutListed
<1>5. OutToSend(q) \in Nat /\ OutListing(q) \in Nat /\ One(Applied(q)) \in Nat /\ BackHeld(q) \in {0, 1}
  BY DEF OutToSend, OutListing, BackHeld, One
<1>6. SwapOuts(q) = OutToSend(q) + OutAsked(q) + OutAnswered(q) + OutListing(q) + OutListed(q) + One(Applied(q))
  BY Zenon DEF SwapOuts, OutToSend, OutAsked, OutAnswered, OutListing, OutListed, Applied
<1>7. Backs(q) = BackAnswered(q) + BackHeld(q) /\ (Killed(q) <=> q \in ended \/ EndsAsked(q) > 0)
  BY Zenon DEF Backs, BackAnswered, BackHeld, Killed, EndsAsked
<1> QED BY <1>2, <1>3, <1>4, <1>5, <1>6, <1>7

\* ... and after it.
LEMMA MediumPartsNext ==
    ASSUME Types', NEW q \in Proc
    PROVE  /\ OutToSend(q)' \in Nat /\ OutAsked(q)' \in Nat /\ OutAnswered(q)' \in Nat /\ OutListing(q)' \in Nat
           /\ OutListed(q)' \in Nat /\ One(Applied(q)') \in Nat
           /\ SwapOuts(q)' = OutToSend(q)' + OutAsked(q)' + OutAnswered(q)' + OutListing(q)' + OutListed(q)'
                             + One(Applied(q)')
           /\ BackAnswered(q)' \in Nat /\ BackHeld(q)' \in {0, 1} /\ Backs(q)' = BackAnswered(q)' + BackHeld(q)'
           /\ EndsAsked(q)' \in Nat /\ (Killed(q)' <=> q \in ended' \/ EndsAsked(q)' > 0)
           /\ OutListed(q)' > 0 <=> q \in Range(suspended')
<1>1. kmIn' \in Seq(ToKm) /\ kmOut' \in Seq(FromKm) /\ suspended' \in Seq(Proc)
  BY DEF Types, KmTypes, ProcTypes
<1>2. OutAsked(q)' \in Nat /\ EndsAsked(q)' \in Nat
  BY <1>1, SentFacts DEF OutAsked, EndsAsked
<1>3. OutAnswered(q)' \in Nat /\ BackAnswered(q)' \in Nat
  BY <1>1, SentFacts DEF OutAnswered, BackAnswered
<1>4. OutListed(q)' \in Nat /\ (OutListed(q)' > 0 <=> q \in Range(suspended'))
  BY <1>1, TimesFacts DEF OutListed
<1>5. OutToSend(q)' \in Nat /\ OutListing(q)' \in Nat /\ One(Applied(q)') \in Nat /\ BackHeld(q)' \in {0, 1}
  BY DEF OutToSend, OutListing, BackHeld, One
<1>6. SwapOuts(q)' = OutToSend(q)' + OutAsked(q)' + OutAnswered(q)' + OutListing(q)' + OutListed(q)' + One(Applied(q)')
  BY Zenon DEF SwapOuts, OutToSend, OutAsked, OutAnswered, OutListing, OutListed, Applied
<1>7. Backs(q)' = BackAnswered(q)' + BackHeld(q)' /\ (Killed(q)' <=> q \in ended' \/ EndsAsked(q)' > 0)
  BY Zenon DEF Backs, BackAnswered, BackHeld, Killed, EndsAsked
<1> QED BY <1>2, <1>3, <1>4, <1>5, <1>6, <1>7

\* A list of messages that gets or loses one of other kinds.
LEMMA SentSame ==
    ASSUME NEW M, NEW s \in Seq(M), NEW t \in Seq(M), NEW ops, NEW p,
           \/ t = s
           \/ \E x \in M : t = Append(s, x) /\ ~Names(x, ops, p)
           \/ s # <<>> /\ t = Tail(s) /\ ~Names(Head(s), ops, p)
    PROVE  Sent(t, ops, p) = Sent(s, ops, p)
<1>1. Sent(s, ops, p) \in Nat /\ Sent(t, ops, p) \in Nat
  BY SentFacts
<1>2. CASE \E x \in M : t = Append(s, x) /\ ~Names(x, ops, p)
  <2>1. PICK x \in M : t = Append(s, x) /\ ~Names(x, ops, p)
    BY <1>2
  <2>2. Sent(Append(s, x), ops, p) = Sent(s, ops, p) + One(Names(x, ops, p))
    BY SentFacts
  <2>3. One(Names(x, ops, p)) = 0
    BY <2>1 DEF One
  <2> QED BY <1>1, <2>1, <2>2, <2>3
<1>3. CASE s # <<>> /\ t = Tail(s) /\ ~Names(Head(s), ops, p)
  <2>1. Sent(s, ops, p) = Sent(Tail(s), ops, p) + One(Names(Head(s), ops, p))
    BY <1>3, SentFacts
  <2>2. One(Names(Head(s), ops, p)) = 0
    BY <1>3 DEF One
  <2> QED BY <1>1, <1>3, <2>1, <2>2
<1> QED BY <1>2, <1>3

\* Its elements.
LEMMA Comes ==
    ASSUME NEW M, NEW s \in Seq(M)
    PROVE  /\ \A x \in M : \A i \in DOMAIN Append(s, x) :
                 \/ i \in DOMAIN s /\ Append(s, x)[i] = s[i]
                 \/ i = Len(s) + 1 /\ Append(s, x)[i] = x
           /\ s # <<>> => \A i \in DOMAIN Tail(s) : i \in Nat /\ i + 1 \in DOMAIN s /\ Tail(s)[i] = s[i + 1]
<1>1. \A x \in M : \A i \in DOMAIN Append(s, x) :
                 \/ i \in DOMAIN s /\ Append(s, x)[i] = s[i]
                 \/ i = Len(s) + 1 /\ Append(s, x)[i] = x
  OBVIOUS
<1>2. s # <<>> => \A i \in DOMAIN Tail(s) : i \in Nat /\ i + 1 \in DOMAIN s /\ Tail(s)[i] = s[i + 1]
  OBVIOUS
<1> QED BY <1>1, <1>2

\* Where a SWAP_IN that names p was before the step.
AsksOn(p) ==
    \/ kmIn' = kmIn /\ ended \subseteq ended'
    \/ /\ ended' = ended
       /\ \E m \in ToKm : kmIn' = Append(kmIn, m) /\ ~Names(m, {"SWAP_IN"}, p)
    \/ /\ kmIn # <<>> /\ kmIn' = Tail(kmIn) /\ ended \subseteq ended'
       /\ Ends(Head(kmIn), p) => p \in ended'

\* A SWAP_IN that names p was there before, behind no other messages than now.
LEMMA AskedBefore ==
    ASSUME Types, Types', NEW p \in Proc, AsksOn(p), NEW i \in DOMAIN kmIn', Asked(p, i)'
    PROVE  \E k \in DOMAIN kmIn :
              /\ Asked(p, k) /\ kmIn'[i] = kmIn[k]
              /\ \A j \in 1 .. (i - 1) : \E l \in 1 .. (k - 1) : kmIn'[j] = kmIn[l]
              /\ kmIn # <<>> /\ kmIn' = Tail(kmIn) => k = i + 1
              /\ k \in Nat
<1>0. kmIn \in Seq(ToKm) /\ kmIn' \in Seq(ToKm) /\ i \in Nat
  BY DEF Types, KmTypes
<1>1. /\ kmIn'[i].op = "SWAP_IN" /\ p \in Range(kmIn'[i].pids) /\ p \notin ended'
      /\ \A j \in 1 .. (i - 1) : ~Ends(kmIn'[j], p)
  BY DEF Asked, Ends
<1>2. CASE kmIn' = kmIn /\ ended \subseteq ended'
  <2>1. Asked(p, i)
    BY <1>1, <1>2 DEF Asked
  <2>2. kmIn # <<>> => kmIn' # Tail(kmIn)
    BY <1>0, <1>2
  <2> QED BY <1>0, <1>2, <2>1, <2>2
<1>3. CASE ended' = ended /\ \E m \in ToKm : kmIn' = Append(kmIn, m) /\ ~Names(m, {"SWAP_IN"}, p)
  <2>1. PICK m \in ToKm : kmIn' = Append(kmIn, m) /\ ~Names(m, {"SWAP_IN"}, p)
    BY <1>3
  <2>2. i \in DOMAIN kmIn /\ kmIn'[i] = kmIn[i]
    <3>1. \/ i \in DOMAIN kmIn /\ Append(kmIn, m)[i] = kmIn[i]
          \/ i = Len(kmIn) + 1 /\ Append(kmIn, m)[i] = m
      BY <1>0, <2>1, Comes
    <3>2. ~(kmIn'[i] = m)
      BY <1>1, <2>1 DEF Names
    <3> QED BY <2>1, <3>1, <3>2
  <2>3. \A j \in 1 .. (i - 1) : kmIn'[j] = kmIn[j]
    BY <1>0, <2>1, <2>2
  <2>4. Asked(p, i)
    BY <1>1, <1>3, <2>2, <2>3 DEF Asked
  <2>5. kmIn # <<>> => kmIn' # Tail(kmIn)
    <3>1. Len(Append(kmIn, m)) = Len(kmIn) + 1 /\ (kmIn # <<>> => Len(Tail(kmIn)) = Len(kmIn) - 1) /\ Len(kmIn) \in Nat
      BY <1>0
    <3> QED BY <2>1, <3>1
  <2> QED BY <1>0, <2>2, <2>3, <2>4, <2>5
<1>4. CASE /\ kmIn # <<>> /\ kmIn' = Tail(kmIn) /\ ended \subseteq ended'
           /\ Ends(Head(kmIn), p) => p \in ended'
  <2>1. \A j \in 1 .. i : j \in Nat /\ j + 1 \in DOMAIN kmIn /\ kmIn'[j] = kmIn[j + 1]
    BY <1>0, <1>4
  <2>2. kmIn[1] = Head(kmIn) /\ i \in 1 .. i
    BY <1>0, <1>4
  <2>3. \A l \in 1 .. i : ~Ends(kmIn[l], p)
    <3> SUFFICES ASSUME NEW l \in 1 .. i PROVE ~Ends(kmIn[l], p)
      OBVIOUS
    <3>1. CASE l = 1
      BY <1>1, <1>4, <2>2, <3>1
    <3>2. CASE l # 1
      <4>1. l - 1 \in 1 .. (i - 1) /\ l - 1 \in 1 .. i /\ (l - 1) + 1 = l
        BY <1>0, <3>2
      <4>2. kmIn'[l - 1] = kmIn[l] /\ ~Ends(kmIn'[l - 1], p)
        BY <1>1, <2>1, <4>1
      <4> QED BY <4>2
    <3> QED BY <3>1, <3>2
  <2>4. kmIn'[i] = kmIn[i + 1] /\ i + 1 \in DOMAIN kmIn /\ (i + 1) - 1 = i
    BY <1>0, <2>1, <2>2
  <2>5. Asked(p, i + 1)
    BY <1>1, <1>4, <2>3, <2>4 DEF Asked
  <2>6. \A j \in 1 .. (i - 1) : \E l \in 1 .. ((i + 1) - 1) : kmIn'[j] = kmIn[l]
    <3> SUFFICES ASSUME NEW j \in 1 .. (i - 1) PROVE \E l \in 1 .. ((i + 1) - 1) : kmIn'[j] = kmIn[l]
      OBVIOUS
    <3>1. j + 1 \in 1 .. ((i + 1) - 1) /\ j \in 1 .. i
      BY <1>0
    <3>2. kmIn'[j] = kmIn[j + 1]
      BY <2>1, <3>1
    <3> QED BY <3>1, <3>2
  <2> QED BY <1>0, <2>4, <2>5, <2>6
<1> QED BY <1>2, <1>3, <1>4 DEF AsksOn

\* So what AskedInv says of it is kept, as long as p stays listed while it is in SWAP.
LEMMA AskedKept ==
    ASSUME Types, Types', NEW p \in Proc, AskedInv(p), AsksOn(p),
           p \in swapped' => \/ p \in swapped
                             \/ /\ kmIn # <<>> /\ kmIn' = Tail(kmIn)
                                /\ Head(kmIn).op = "SWAP_OUT" /\ p \in Range(Head(kmIn).pids),
           (p \in swapped' /\ p \in swapped /\ state[p] = "SUSP_READY" /\ p \in Range(suspended) /\ ~Killed(p))
              => state'[p] = "SUSP_READY" /\ p \in Range(suspended') /\ ~Killed(p)'
    PROVE  AskedInv(p)'
<1>0. kmIn \in Seq(ToKm)
  BY DEF Types, KmTypes
<1> DEFINE Before(q, k) == \A j \in 1 .. (k - 1) : ~(kmIn[j].op = "SWAP_OUT" /\ q \in Range(kmIn[j].pids))
<1> SUFFICES ASSUME NEW i \in DOMAIN kmIn', Asked(p, i)'
             PROVE  /\ \A j \in 1 .. (i - 1) : ~(kmIn'[j].op = "SWAP_OUT" /\ p \in Range(kmIn'[j].pids))
                    /\ OnceIn(kmIn'[i].pids, p)
                    /\ p \in swapped' => state'[p] = "SUSP_READY" /\ p \in Range(suspended') /\ ~Killed(p)'
  BY DEF AskedInv, OnceIn
<1>1. PICK k \in DOMAIN kmIn :
              /\ Asked(p, k) /\ kmIn'[i] = kmIn[k]
              /\ \A j \in 1 .. (i - 1) : \E l \in 1 .. (k - 1) : kmIn'[j] = kmIn[l]
              /\ kmIn # <<>> /\ kmIn' = Tail(kmIn) => k = i + 1
              /\ k \in Nat
  BY AskedBefore
<1>2. /\ \A j \in 1 .. (k - 1) : ~(kmIn[j].op = "SWAP_OUT" /\ p \in Range(kmIn[j].pids))
      /\ OnceIn(kmIn[k].pids, p)
      /\ p \in swapped => state[p] = "SUSP_READY" /\ p \in Range(suspended) /\ ~Killed(p)
  BY <1>1 DEF AskedInv
<1>3. \A j \in 1 .. (i - 1) : ~(kmIn'[j].op = "SWAP_OUT" /\ p \in Range(kmIn'[j].pids))
  BY <1>1, <1>2
<1>4. OnceIn(kmIn'[i].pids, p)
  BY <1>1, <1>2
<1>5. p \in swapped' => p \in swapped
  <2> SUFFICES ASSUME p \in swapped', p \notin swapped PROVE FALSE
    OBVIOUS
  <2>1. /\ kmIn # <<>> /\ kmIn' = Tail(kmIn)
        /\ Head(kmIn).op = "SWAP_OUT" /\ p \in Range(Head(kmIn).pids)
    OBVIOUS
  <2>2. k = i + 1 /\ i \in Nat /\ i >= 1
    <3>1. i \in 1 .. Len(Tail(kmIn))
      BY <1>0, <2>1
    <3> QED BY <1>1, <2>1, <3>1
  <2>3. 1 \in 1 .. (k - 1) /\ kmIn[1] = Head(kmIn)
    BY <1>0, <2>1, <2>2
  <2> QED BY <1>2, <2>1, <2>3
<1> QED BY <1>2, <1>3, <1>4, <1>5

\* The answers of Kernel Memory that p is named in, before and after: none is new, but
\* perhaps a confirmed SWAP_OUT or a SWAP_IN that names p at most once.
AnswersOn(p) ==
    \/ kmOut' = kmOut
    \/ \E m \in FromKm : /\ kmOut' = Append(kmOut, m)
                         /\ Names(m, {"SWAP_OUT"}, p) => m.ok
                         /\ m.op = "SWAP_IN" => OnceIn(m.pids, p)
    \/ kmOut # <<>> /\ kmOut' = Tail(kmOut)

\* So the answers keep what is known of them.
LEMMA AnswersKept ==
    ASSUME Types, Types', NEW p \in Proc, AnswersOn(p)
    PROVE  /\ (\A i \in DOMAIN kmOut : kmOut[i].op = "SWAP_IN" => OnceIn(kmOut[i].pids, p))
                => \A i \in DOMAIN kmOut' : kmOut'[i].op = "SWAP_IN" => OnceIn(kmOut'[i].pids, p)
           /\ (\A i \in DOMAIN kmOut : kmOut[i].op = "SWAP_OUT" /\ p \in Range(kmOut[i].pids) => kmOut[i].ok)
                => \A i \in DOMAIN kmOut' : kmOut'[i].op = "SWAP_OUT" /\ p \in Range(kmOut'[i].pids) => kmOut'[i].ok
<1>0. kmOut \in Seq(FromKm)
  BY DEF Types, KmTypes
<1>1. CASE kmOut' = kmOut
  BY <1>1
<1>2. CASE \E m \in FromKm : /\ kmOut' = Append(kmOut, m)
                             /\ Names(m, {"SWAP_OUT"}, p) => m.ok
                             /\ m.op = "SWAP_IN" => OnceIn(m.pids, p)
  <2>1. PICK m \in FromKm : /\ kmOut' = Append(kmOut, m)
                            /\ Names(m, {"SWAP_OUT"}, p) => m.ok
                            /\ m.op = "SWAP_IN" => OnceIn(m.pids, p)
    BY <1>2
  <2>2. \A i \in DOMAIN kmOut' : (i \in DOMAIN kmOut /\ kmOut'[i] = kmOut[i]) \/ kmOut'[i] = m
    BY <1>0, <2>1, Comes
  <2> QED BY <2>1, <2>2 DEF Names
<1>3. CASE kmOut # <<>> /\ kmOut' = Tail(kmOut)
  <2>1. \A i \in DOMAIN kmOut' : i + 1 \in DOMAIN kmOut /\ kmOut'[i] = kmOut[i + 1]
    BY <1>0, <1>3, Comes
  <2> QED BY <2>1
<1> QED BY <1>1, <1>2, <1>3 DEF AnswersOn

\* What happens to the state of q while the medium-term scheduler does nothing with it.
StateOn(q) ==
    /\ queued'[q] = One(state'[q] = "READY")
    /\ state'[q] = "EXIT" => Killed(q)'
    /\ state[q] = "SUSP_READY" => state'[q] = "SUSP_READY" /\ (Killed(q)' => Killed(q))
    /\ ~Killed(q)' => /\ state'[q] \in {"SUSP_BLOCK", "SUSP_READY"} <=> state[q] \in {"SUSP_BLOCK", "SUSP_READY"}
                      /\ state'[q] = "BLOCK" => (state[q] = "BLOCK" /\ blocked'[q] = blocked[q]) \/ blocked'[q] > 0

\* So its SWAP_OUT and SWAP_IN go on.
LEMMA MediumKept ==
    ASSUME Types, Types', NEW q \in Proc, MediumInv(q), StateOn(q),
           SwapOuts(q)' = SwapOuts(q), Backs(q)' = Backs(q), q \in swapped' <=> q \in swapped,
           Killed(q) => Killed(q)',
           kh.at = "block" /\ q = Head(kh.pids) =>
                blocked'[q] > 0 \/ (kh'.at = "block" /\ q = Head(kh'.pids)),
           q \in Range(suspended) \/ Applied(q) => q \in Range(suspended') \/ Applied(q)',
           Distinct(q)', SwappedOut(q)', AskedInv(q)'
    PROVE  MediumInv(q)'
<1>0. /\ state[q] = "EXIT" => Killed(q)
      /\ ListedInv(q) /\ Returning(q) /\ queued[q] = One(state[q] = "READY")
  BY DEF MediumInv
<1>1. state[q] \in States /\ state'[q] \in States
  BY DEF Types, ProcTypes
<1>2. ListedInv(q)'
  <2> SUFFICES ASSUME ~Killed(q)'
               PROVE  /\ SwapOuts(q)' = One(state'[q] \in {"SUSP_BLOCK", "SUSP_READY"})
                      /\ state'[q] = "BLOCK" => blocked'[q] > 0 \/ (kh'.at = "block" /\ q = Head(kh'.pids))
                      /\ state'[q] \in {"READY", "EXEC", "BLOCK"} => q \notin swapped'
    BY Zenon DEF ListedInv
  <2>1. /\ ~Killed(q)
        /\ state'[q] \in {"SUSP_BLOCK", "SUSP_READY"} <=> state[q] \in {"SUSP_BLOCK", "SUSP_READY"}
        /\ state'[q] = "BLOCK" => (state[q] = "BLOCK" /\ blocked'[q] = blocked[q]) \/ blocked'[q] > 0
    BY DEF StateOn
  <2>2. /\ SwapOuts(q) = One(state[q] \in {"SUSP_BLOCK", "SUSP_READY"})
        /\ state[q] = "BLOCK" => blocked[q] > 0 \/ (kh.at = "block" /\ q = Head(kh.pids))
        /\ state[q] \in {"READY", "EXEC", "BLOCK"} => q \notin swapped
    BY <1>0, <2>1 DEF ListedInv
  <2>3. SwapOuts(q)' = One(state'[q] \in {"SUSP_BLOCK", "SUSP_READY"})
    BY <2>1, <2>2 DEF One
  <2>4. state'[q] = "BLOCK" => blocked'[q] > 0 \/ (kh'.at = "block" /\ q = Head(kh'.pids))
    BY <2>1, <2>2
  <2>5. state'[q] \in {"READY", "EXEC", "BLOCK"} => q \notin swapped'
    BY <1>0, <1>1, <2>1, <2>2 DEF States
  <2> QED BY <2>3, <2>4, <2>5
<1>3. Returning(q)'
  <2>1. /\ Backs(q) <= 1
        /\ Backs(q) = 1 => /\ ~Killed(q) /\ state[q] = "SUSP_READY" /\ q \notin swapped
                           /\ q \in Range(suspended) \/ Applied(q)
    BY <1>0 DEF Returning, Applied
  <2>2. Backs(q)' = 1 => ~Killed(q)' /\ state'[q] = "SUSP_READY" /\ q \notin swapped'
                         /\ (q \in Range(suspended') \/ Applied(q)')
    BY <2>1 DEF StateOn
  <2> QED BY <2>1, <2>2, Zenon DEF Returning, Applied
<1>4. queued'[q] = One(state'[q] = "READY") /\ (state'[q] = "EXIT" => Killed(q)')
  BY DEF StateOn
<1> QED BY <1>2, <1>3, <1>4, Zenon DEF MediumInv

\* A step in which the medium-term scheduler takes no part: messages about transfers
\* and ends of processes only.
Transfers == {"idle", "assign", "send"}
Quiet ==
    /\ UNCHANGED <<suspended, suspending, swapped, ended>>
    /\ kh' = kh \/ (kh.at \in Transfers /\ kh'.at \in Transfers)
    /\ \/ kmIn' = kmIn
       \/ \E m \in ToKm : kmIn' = Append(kmIn, m) /\ m.op \in IoOps \cup {"PROCESS_END"}
       \/ kmIn # <<>> /\ kmIn' = Tail(kmIn) /\ Head(kmIn).op \in IoOps
    /\ \/ kmOut' = kmOut
       \/ \E m \in FromKm : kmOut' = Append(kmOut, m) /\ m.op \in IoOps \cup {"MEMORY_UPDATE"}
       \/ kmOut # <<>> /\ kmOut' = Tail(kmOut) /\ Head(kmOut).op \in IoOps \cup {"MEMORY_UPDATE"}

\* Such a step moves no SWAP_OUT and no SWAP_IN, ...
LEMMA QuietCounts ==
    ASSUME Types, Types', NEW q \in Proc, Quiet
    PROVE  /\ SwapOuts(q)' = SwapOuts(q) /\ Backs(q)' = Backs(q) /\ (Killed(q) => Killed(q)')
           /\ OutAsked(q)' = OutAsked(q)
           /\ (Applied(q)' <=> Applied(q)) /\ OutAnswered(q)' = OutAnswered(q)
<1>0. kmIn \in Seq(ToKm) /\ kmOut \in Seq(FromKm) /\ kmIn' \in Seq(ToKm) /\ kmOut' \in Seq(FromKm)
  BY DEF Types, KmTypes
<1>1. OutAsked(q)' = OutAsked(q)
  <2>1. \/ kmIn' = kmIn
        \/ \E x \in ToKm : kmIn' = Append(kmIn, x) /\ ~Names(x, {"SWAP_OUT"}, q)
        \/ kmIn # <<>> /\ kmIn' = Tail(kmIn) /\ ~Names(Head(kmIn), {"SWAP_OUT"}, q)
    BY DEF Quiet, Names, IoOps
  <2>2. Sent(kmIn', {"SWAP_OUT"}, q) = Sent(kmIn, {"SWAP_OUT"}, q)
    BY <1>0, <2>1, SentSame
  <2> QED BY <2>2 DEF OutAsked
<1>2. ASSUME NEW ops \in {{"SWAP_OUT"}, {"SWAP_IN"}} PROVE Sent(kmOut', ops, q) = Sent(kmOut, ops, q)
  <2>1. \/ kmOut' = kmOut
        \/ \E x \in FromKm : kmOut' = Append(kmOut, x) /\ ~Names(x, ops, q)
        \/ kmOut # <<>> /\ kmOut' = Tail(kmOut) /\ ~Names(Head(kmOut), ops, q)
    BY DEF Quiet, Names, IoOps
  <2> QED BY <1>0, <2>1, SentSame
<1>3. OutAnswered(q)' = OutAnswered(q) /\ BackAnswered(q)' = BackAnswered(q)
  BY <1>2 DEF OutAnswered, BackAnswered
<1>4. OutToSend(q)' = OutToSend(q) /\ OutListed(q)' = OutListed(q)
  BY DEF Quiet, OutToSend, OutListed
<1>5. OutListing(q)' = OutListing(q) /\ BackHeld(q)' = BackHeld(q) /\ (Applied(q)' <=> Applied(q))
  BY DEF Quiet, OutListing, BackHeld, Applied, Transfers, One
<1>6. One(Applied(q)') = One(Applied(q))
  BY <1>5 DEF One
<1>7. Killed(q) => Killed(q)'
  <2>1. CASE \E m \in ToKm : kmIn' = Append(kmIn, m)
    <3>1. PICK m \in ToKm : kmIn' = Append(kmIn, m)
      BY <2>1
    <3>2. /\ Sent(Append(kmIn, m), {"PROCESS_END"}, q) = Sent(kmIn, {"PROCESS_END"}, q) + One(Names(m, {"PROCESS_END"}, q))
          /\ Sent(kmIn, {"PROCESS_END"}, q) \in Nat
      BY <1>0, SentFacts
    <3>3. One(Names(m, {"PROCESS_END"}, q)) \in Nat
      BY DEF One
    <3>4. Sent(kmIn, {"PROCESS_END"}, q) > 0 => Sent(kmIn', {"PROCESS_END"}, q) > 0
      BY <3>1, <3>2, <3>3
    <3> QED BY <3>4 DEF Quiet, Killed
  <2>2. CASE kmIn' = kmIn \/ (kmIn # <<>> /\ kmIn' = Tail(kmIn) /\ Head(kmIn).op \in IoOps)
    <3>1. kmIn' = kmIn \/ (kmIn # <<>> /\ kmIn' = Tail(kmIn) /\ ~Names(Head(kmIn), {"PROCESS_END"}, q))
      BY <2>2 DEF Names, IoOps
    <3>2. Sent(kmIn', {"PROCESS_END"}, q) = Sent(kmIn, {"PROCESS_END"}, q)
      BY <1>0, <3>1, SentSame
    <3> QED BY <3>2 DEF Quiet, Killed
  <2> QED BY <2>1, <2>2 DEF Quiet
<1>8. SwapOuts(q)' = SwapOuts(q) /\ Backs(q)' = Backs(q)
  BY <1>1, <1>3, <1>4, <1>5, <1>6, MediumParts, MediumPartsNext
<1> QED BY <1>1, <1>3, <1>5, <1>7, <1>8

\* ... and keeps what is known of q, ...
LEMMA QuietMedium ==
    ASSUME Types, Types', NEW q \in Proc, MediumInv(q), Quiet, StateOn(q)
    PROVE  MediumInv(q)'
<1>0. /\ SwapOuts(q)' = SwapOuts(q) /\ Backs(q)' = Backs(q) /\ (Killed(q) => Killed(q)')
      /\ OutAsked(q)' = OutAsked(q) /\ (Applied(q)' <=> Applied(q)) /\ OutAnswered(q)' = OutAnswered(q)
  BY QuietCounts
<1>1. Distinct(q) /\ SwappedOut(q) /\ AskedInv(q)
  BY DEF MediumInv
<1>2. AnswersOn(q)
  BY DEF Quiet, AnswersOn, Names, IoOps
<1>3. Distinct(q)'
  <2>1. \A i \in DOMAIN kmOut' : kmOut'[i].op = "SWAP_IN" => OnceIn(kmOut'[i].pids, q)
    BY <1>1, <1>2, AnswersKept DEF Distinct
  <2>2. kh'.at \in {"in", "apply"} => kh' = kh
    BY DEF Quiet, Transfers
  <2>3. kh.at \in {"in", "apply"} => OnceIn(kh.pids, q)
    BY <1>1 DEF Distinct
  <2>4. kh'.at \in {"in", "apply"} => OnceIn(kh'.pids, q)
    BY <2>2, <2>3
  <2> QED BY <2>1, <2>4, Zenon DEF Distinct, OnceIn
<1>4. SwappedOut(q)'
  <2> SUFFICES ASSUME ~Killed(q)', q \in swapped'
               PROVE  /\ q \notin suspending' /\ OutAsked(q)' = 0 /\ ~Applied(q)'
                      /\ \A i \in DOMAIN kmOut' : kmOut'[i].op = "SWAP_OUT" /\ q \in Range(kmOut'[i].pids) => kmOut'[i].ok
    BY Zenon DEF SwappedOut, OutAsked, Applied
  <2>1. /\ q \notin suspending /\ OutAsked(q) = 0 /\ ~Applied(q)
        /\ \A i \in DOMAIN kmOut : kmOut[i].op = "SWAP_OUT" /\ q \in Range(kmOut[i].pids) => kmOut[i].ok
    BY <1>0, <1>1 DEF SwappedOut, OutAsked, Applied, Quiet
  <2>2. \A i \in DOMAIN kmOut' : kmOut'[i].op = "SWAP_OUT" /\ q \in Range(kmOut'[i].pids) => kmOut'[i].ok
    BY <1>2, <2>1, AnswersKept
  <2> QED BY <1>0, <2>1, <2>2 DEF Quiet
<1>5. AskedInv(q)'
  <2>1. AsksOn(q)
    BY DEF Quiet, AsksOn, Names, IoOps, Ends
  <2>2. /\ q \in swapped' => q \in swapped
        /\ state[q] = "SUSP_READY" /\ q \in Range(suspended) /\ ~Killed(q)
                => state'[q] = "SUSP_READY" /\ q \in Range(suspended') /\ ~Killed(q)'
    BY DEF Quiet, StateOn
  <2>3. q \in swapped' => \/ q \in swapped
                            \/ /\ kmIn # <<>> /\ kmIn' = Tail(kmIn)
                               /\ Head(kmIn).op = "SWAP_OUT" /\ q \in Range(Head(kmIn).pids)
    BY <2>2
  <2>4. (q \in swapped' /\ q \in swapped /\ state[q] = "SUSP_READY" /\ q \in Range(suspended) /\ ~Killed(q))
           => state'[q] = "SUSP_READY" /\ q \in Range(suspended') /\ ~Killed(q)'
    BY <2>2
  <2> QED BY <1>1, <2>1, <2>3, <2>4, AskedKept, Zenon
<1>6. kh.at = "block" /\ q = Head(kh.pids) =>
                blocked'[q] > 0 \/ (kh'.at = "block" /\ q = Head(kh'.pids))
  BY DEF Quiet, Transfers
<1>7. (q \in swapped' <=> q \in swapped) /\ (q \in Range(suspended) \/ Applied(q) => q \in Range(suspended') \/ Applied(q)')
  BY <1>0 DEF Quiet
<1> QED BY <1>0, <1>3, <1>4, <1>5, <1>6, <1>7, MediumKept

\* No process is told to end.
LEMMA KilledSame ==
    ASSUME Types, Types', NEW q \in Proc, ended' = ended,
           \/ kmIn' = kmIn
           \/ \E m \in ToKm : kmIn' = Append(kmIn, m) /\ ~Names(m, {"PROCESS_END"}, q)
           \/ kmIn # <<>> /\ kmIn' = Tail(kmIn) /\ ~Names(Head(kmIn), {"PROCESS_END"}, q)
    PROVE  Killed(q)' <=> Killed(q)
<1>0. kmIn \in Seq(ToKm) /\ kmIn' \in Seq(ToKm)
  BY DEF Types, KmTypes
<1>1. Sent(kmIn', {"PROCESS_END"}, q) = Sent(kmIn, {"PROCESS_END"}, q)
  BY <1>0, SentSame
<1> QED BY <1>1 DEF Killed

\* Or one is.
LEMMA EndAsked ==
    ASSUME Types, Types', NEW p \in Proc, ended' = ended, kmIn' = Append(kmIn, Request("PROCESS_END", <<p>>))
    PROVE  /\ Killed(p)'
           /\ \A q \in Proc : q # p => (Killed(q)' <=> Killed(q))
           /\ Request("PROCESS_END", <<p>>) \in ToKm /\ Request("PROCESS_END", <<p>>).op = "PROCESS_END"
<1> DEFINE m == Request("PROCESS_END", <<p>>)
<1>1. m \in ToKm /\ m.op = "PROCESS_END" /\ \A ops, q : Names(m, ops, q) <=> "PROCESS_END" \in ops /\ q = p
  BY RequestIs DEF Single
<1>2. kmIn' = Append(kmIn, m)
  OBVIOUS
<1> HIDE DEF m
<1>3. ASSUME NEW q \in Proc, q # p PROVE Killed(q)' <=> Killed(q)
  <2>1. ~Names(m, {"PROCESS_END"}, q)
    BY <1>1, <1>3
  <2>2. \E x \in ToKm : kmIn' = Append(kmIn, x) /\ ~Names(x, {"PROCESS_END"}, q)
    BY <1>1, <1>2, <2>1
  <2> QED BY <2>2, KilledSame
<1>4. Killed(p)'
  <2>0. kmIn \in Seq(ToKm)
    BY DEF Types, KmTypes
  <2>1. /\ Sent(kmIn, {"PROCESS_END"}, p) \in Nat
        /\ Sent(Append(kmIn, m), {"PROCESS_END"}, p) = Sent(kmIn, {"PROCESS_END"}, p) + One(Names(m, {"PROCESS_END"}, p))
    BY <1>1, <2>0, SentFacts
  <2>2. One(Names(m, {"PROCESS_END"}, p)) = 1
    BY <1>1 DEF One
  <2>3. Sent(kmIn', {"PROCESS_END"}, p) > 0
    BY <1>2, <2>1, <2>2
  <2> QED BY <2>3 DEF Killed
<1> QED BY <1>1, <1>3, <1>4 DEF m

\* The states of processes a step is not about, ...
LEMMA StateSame ==
    ASSUME NEW q \in Proc, MediumInv(q), Killed(q)' <=> Killed(q),
           state'[q] = state[q], queued'[q] = queued[q], blocked'[q] = blocked[q]
    PROVE  StateOn(q)
BY DEF MediumInv, StateOn

\* ... and of those it wakes, ...
LEMMA WakeUpOn ==
    ASSUME Types, NEW p \in Proc, MediumInv(p), ~HasNone(state[p]), WakeUp(p), Killed(p)' <=> Killed(p)
    PROVE  StateOn(p)
<1>1. /\ state'[p] = IF state[p] = "SUSP_BLOCK" THEN "SUSP_READY" ELSE "READY"
      /\ queued'[p] = IF state'[p] = "READY" THEN queued[p] + 1 ELSE queued[p]
  BY WakeUpIs
<1>2. state[p] \in {"BLOCK", "SUSP_BLOCK", "EXIT"}
  BY DEF Types, ProcTypes, HasNone, States
<1>3. queued[p] = 0 /\ (state[p] = "EXIT" => Killed(p))
  BY <1>2 DEF MediumInv, One
<1>4. queued'[p] = One(state'[p] = "READY")
  BY <1>1, <1>3 DEF One
<1> QED BY <1>1, <1>2, <1>3, <1>4 DEF StateOn

\* ... or ends.
LEMMA EndOn ==
    ASSUME Types, NEW p \in Proc, MediumInv(p), state[p] \notin {"READY", "SUSP_READY"},
           state'[p] = "EXIT", queued'[p] = queued[p], Killed(p)'
    PROVE  StateOn(p)
<1>1. queued[p] = 0
  BY DEF MediumInv, One
<1>2. queued'[p] = One(state'[p] = "READY")
  BY <1>1 DEF One
<1> QED BY <1>2 DEF StateOn

MediumAll == \A q \in Proc : MediumInv(q)

\* ... and of every process.
LEMMA QuietAll ==
    ASSUME Types, Types', MediumAll, Quiet, \A q \in Proc : StateOn(q)
    PROVE  MediumAll'
BY QuietMedium DEF MediumAll

\* The threads of the system calls.
LEMMA CallMedium ==
    ASSUME Types, Types', RequestInv, MediumAll, NEW p \in Proc,
           Dispatch(p) \/ CpuHandler(p) \/ wait_memory_write_confirmation(p)
    PROVE  MediumAll'
<1> USE DEF procs, medium, devices, memory
<1>0. /\ state \in [Proc -> States] /\ queued \in [Proc -> Nat] /\ blocked \in [Proc -> Nat]
      /\ \A q \in Proc : MediumInv(q)
  BY DEF Types, ProcTypes, MediumAll
<1>1. CASE Dispatch(p)
  <2>1. /\ UNCHANGED <<blocked, suspended, suspending, kh, kmIn, kmOut, swapped, ended>>
        /\ state[p] = "READY" /\ state' = [state EXCEPT ![p] = "EXEC"]
        /\ queued' = [queued EXCEPT ![p] = @ - 1]
    BY <1>1 DEF Dispatch
  <2>2. Quiet
    BY <2>1 DEF Quiet
  <2>3. \A q \in Proc : Killed(q)' <=> Killed(q)
    BY <2>1, KilledSame
  <2>4. queued[p] = 1 /\ queued'[p] = 0
    BY <1>0, <2>1 DEF MediumInv, One
  <2>5. ASSUME NEW q \in Proc PROVE StateOn(q)
    <3>1. CASE q = p
      <4>1. state'[p] = "EXEC" /\ queued'[p] = One(state'[p] = "READY")
        BY <1>0, <2>1, <2>4 DEF One
      <4> QED BY <2>1, <3>1, <4>1 DEF StateOn
    <3>2. CASE q # p
      <4>1. state'[q] = state[q] /\ queued'[q] = queued[q] /\ blocked'[q] = blocked[q]
        BY <1>0, <2>1, <3>2
      <4> QED BY <1>0, <2>3, <4>1, StateSame
    <3> QED BY <3>1, <3>2
  <2> QED BY <2>2, <2>5, QuietAll
<1>2. CASE Block(p)
  <2>1. /\ UNCHANGED <<queued, suspended, suspending, kh, kmIn, kmOut, swapped, ended>>
        /\ state[p] = "EXEC" /\ state' = [state EXCEPT ![p] = "BLOCK"]
        /\ blocked' = [blocked EXCEPT ![p] = @ + 1]
    BY <1>2 DEF Block
  <2>2. Quiet
    BY <2>1 DEF Quiet
  <2>3. \A q \in Proc : Killed(q)' <=> Killed(q)
    BY <2>1, KilledSame
  <2>4. queued'[p] = 0 /\ blocked'[p] > 0
    BY <1>0, <2>1 DEF MediumInv, One
  <2>5. ASSUME NEW q \in Proc PROVE StateOn(q)
    <3>1. CASE q = p
      <4>1. state'[p] = "BLOCK" /\ queued'[p] = One(state'[p] = "READY")
        BY <1>0, <2>1, <2>4 DEF One
      <4> QED BY <2>1, <2>4, <3>1, <4>1 DEF StateOn
    <3>2. CASE q # p
      <4>1. state'[q] = state[q] /\ queued'[q] = queued[q] /\ blocked'[q] = blocked[q]
        BY <1>0, <2>1, <3>2
      <4> QED BY <1>0, <2>3, <4>1, StateSame
    <3> QED BY <3>1, <3>2
  <2> QED BY <2>2, <2>5, QuietAll
<1>3. CASE stdin_syscall_manager(p) /\ ~Block(p)
  <2>1. /\ UNCHANGED <<queued, blocked, suspended, suspending, kh, kmOut, swapped, ended>>
        /\ state[p] = "EXEC" /\ state' = [state EXCEPT ![p] = "EXIT"]
        /\ kmIn' = Append(kmIn, Request("PROCESS_END", <<p>>))
    BY <1>3 DEF stdin_syscall_manager
  <2>2. /\ Killed(p)' /\ \A q \in Proc : q # p => (Killed(q)' <=> Killed(q))
        /\ Request("PROCESS_END", <<p>>) \in ToKm /\ Request("PROCESS_END", <<p>>).op = "PROCESS_END"
    BY <2>1, EndAsked
  <2>3. Quiet
    BY <2>1, <2>2 DEF Quiet
  <2>4. ASSUME NEW q \in Proc PROVE StateOn(q)
    <3>1. CASE q = p
      <4>1. state'[p] = "EXIT" /\ queued'[p] = queued[p]
        BY <1>0, <2>1
      <4> QED BY <1>0, <2>1, <2>2, <3>1, <4>1, EndOn
    <3>2. CASE q # p
      <4>1. state'[q] = state[q] /\ queued'[q] = queued[q] /\ blocked'[q] = blocked[q]
        BY <1>0, <2>1, <3>2
      <4> QED BY <1>0, <2>2, <3>2, <4>1, StateSame
    <3> QED BY <3>1, <3>2
  <2> QED BY <2>3, <2>4, QuietAll
<1>4. CASE SendMemoryRead(p) \/ AssignDevice(p) \/ SendToDevice(p)
  <2>1. UNCHANGED <<state, queued, blocked, suspended, suspending, kh, kmOut, swapped, ended>>
    BY <1>4 DEF SendMemoryRead, AssignDevice, SendToDevice
  <2>2. kmIn' = kmIn \/ \E m \in ToKm : kmIn' = Append(kmIn, m) /\ m.op = "IO_MEMORY_READ"
    <3>1. Request("IO_MEMORY_READ", <<p>>) \in ToKm /\ Request("IO_MEMORY_READ", <<p>>).op = "IO_MEMORY_READ"
      BY RequestIs DEF Single
    <3>2. kmIn' = kmIn \/ kmIn' = Append(kmIn, Request("IO_MEMORY_READ", <<p>>))
      BY <1>4 DEF SendMemoryRead, AssignDevice, SendToDevice
    <3> QED BY <3>1, <3>2
  <2>3. Quiet
    BY <2>1, <2>2 DEF Quiet, IoOps
  <2>4. ASSUME NEW q \in Proc PROVE StateOn(q)
    <3>1. kmIn' = kmIn \/ \E m \in ToKm : kmIn' = Append(kmIn, m) /\ ~Names(m, {"PROCESS_END"}, q)
      BY <2>2 DEF Names
    <3>2. Killed(q)' <=> Killed(q)
      BY <2>1, <3>1, KilledSame
    <3> QED BY <1>0, <2>1, <3>2, StateSame
  <2> QED BY <2>3, <2>4, QuietAll
<1>5. CASE wait_memory_write_confirmation(p)
  <2>1. /\ UNCHANGED <<suspended, suspending, kh, kmIn, kmOut, swapped, ended>>
        /\ WakeUp(p) /\ memSem[p] > 0
    BY <1>5 DEF wait_memory_write_confirmation
  <2>2. Quiet
    BY <2>1 DEF Quiet
  <2>3. \A q \in Proc : Killed(q)' <=> Killed(q)
    BY <2>1, KilledSame
  <2>4. ~HasNone(state[p])
    BY <2>1, Elsewhere
  <2>5. ASSUME NEW q \in Proc PROVE StateOn(q)
    <3>1. CASE q = p
      BY <1>0, <2>1, <2>3, <2>4, <3>1, WakeUpOn
    <3>2. CASE q # p
      <4>1. state'[q] = state[q] /\ queued'[q] = queued[q] /\ blocked'[q] = blocked[q]
        BY <2>1, <3>2, WakeUpIs
      <4> QED BY <1>0, <2>3, <4>1, StateSame
    <3> QED BY <3>1, <3>2
  <2> QED BY <2>2, <2>5, QuietAll
<1>6. CpuHandler(p) => Block(p) \/ (stdin_syscall_manager(p) /\ ~Block(p))
                       \/ SendMemoryRead(p) \/ AssignDevice(p) \/ SendToDevice(p)
  BY Zenon DEF CpuHandler, sleep_syscall_manager, stdout_syscall_manager
<1> QED BY <1>1, <1>2, <1>3, <1>4, <1>5, <1>6

\* The devices and their handlers.
LEMMA DeviceMedium ==
    ASSUME Types, Types', RequestInv, MediumAll, NEW d \in Device,
           Connect(d) \/ handle_operation(d) \/ DeviceStops(d) \/ io_handler(d)
    PROVE  MediumAll'
<1> USE DEF procs, medium, devices, memory
<1>0. outbox[d] \in Seq(Proc) /\ \A q \in Proc : MediumInv(q)
  BY DEF Types, DeviceTypes, MediumAll
<1>1. CASE io_finish_process(d)
  <2>1. /\ UNCHANGED <<suspended, suspending, kh, kmIn, kmOut, swapped, ended>>
        /\ WakeUp(Head(outbox[d])) /\ outbox[d] # <<>>
    BY <1>1 DEF io_finish_process
  <2>2. PICK p \in Proc : p = Head(outbox[d])
    BY <1>0, <2>1
  <2>3. ~HasNone(state[p])
    <3>1. p \in Range(outbox[d])
      BY <1>0, <2>1, <2>2 DEF Range
    <3>2. Times(outbox[d], p) > 0
      BY <1>0, <3>1, TimesFacts
    <3>3. RequestsAtDevice(p, d) > 0
      <4>1. /\ Times(inbox[d], p) \in Nat /\ Times(outbox[d], p) \in Nat /\ Turn(p, d) \in {0, 1}
            /\ RequestsAtDevice(p, d) = Times(inbox[d], p) + Times(outbox[d], p) + Turn(p, d)
        BY DeviceParts
      <4> QED BY <3>2, <4>1
    <3> QED BY <3>3, AtDeviceOnly
  <2>4. Quiet
    BY <2>1 DEF Quiet
  <2>5. \A q \in Proc : Killed(q)' <=> Killed(q)
    BY <2>1, KilledSame
  <2>6. ASSUME NEW q \in Proc PROVE StateOn(q)
    <3>1. CASE q = p
      BY <1>0, <2>1, <2>2, <2>3, <2>5, <3>1, WakeUpOn
    <3>2. CASE q # p
      <4>1. state'[q] = state[q] /\ queued'[q] = queued[q] /\ blocked'[q] = blocked[q]
        BY <2>1, <2>2, <3>2, WakeUpIs
      <4> QED BY <1>0, <2>5, <4>1, StateSame
    <3> QED BY <3>1, <3>2
  <2> QED BY <2>4, <2>6, QuietAll
<1>2. CASE \/ Connect(d) \/ handle_operation(d) \/ DeviceStops(d) \/ StdinAnswer(d)
           \/ SetAvailable(d) \/ handle_next_operation(d) \/ SendPending(d) \/ LoseDevice(d)
  <2>1. UNCHANGED <<state, queued, blocked, suspended, suspending, kh, kmOut, swapped, ended>>
    BY <1>2 DEF Connect, handle_operation, DeviceStops, StdinAnswer, SetAvailable, handle_next_operation,
                SendPending, LoseDevice
  <2>2. kmIn' = kmIn \/ \E m \in ToKm : kmIn' = Append(kmIn, m) /\ m.op = "IO_MEMORY_WRITE"
    <3>1. CASE StdinAnswer(d)
      <4>1. PICK p \in Proc : p = Head(outbox[d])
        BY <1>0, <3>1 DEF StdinAnswer
      <4>2. Request("IO_MEMORY_WRITE", <<p>>) \in ToKm /\ Request("IO_MEMORY_WRITE", <<p>>).op = "IO_MEMORY_WRITE"
        BY RequestIs DEF Single
      <4>3. kmIn' = kmIn \/ kmIn' = Append(kmIn, Request("IO_MEMORY_WRITE", <<p>>))
        BY <3>1, <4>1 DEF StdinAnswer
      <4> QED BY <4>2, <4>3
    <3>2. CASE ~StdinAnswer(d)
      BY <1>2, <3>2 DEF Connect, handle_operation, DeviceStops, SetAvailable, handle_next_operation,
                SendPending, LoseDevice
    <3> QED BY <3>1, <3>2
  <2>3. Quiet
    BY <2>1, <2>2 DEF Quiet, IoOps
  <2>4. ASSUME NEW q \in Proc PROVE StateOn(q)
    <3>1. kmIn' = kmIn \/ \E m \in ToKm : kmIn' = Append(kmIn, m) /\ ~Names(m, {"PROCESS_END"}, q)
      BY <2>2 DEF Names
    <3>2. Killed(q)' <=> Killed(q)
      BY <2>1, <3>1, KilledSame
    <3> QED BY <1>0, <2>1, <3>2, StateSame
  <2> QED BY <2>3, <2>4, QuietAll
<1> QED BY <1>1, <1>2 DEF io_handler

\* The handler of Kernel Memory and its messages, as far as transfers go.
LEMMA TransferMedium ==
    ASSUME Types, Types', RequestInv, MediumAll,
           \/ ReceiveRead \/ ReceiveWrite \/ StdoutAssign \/ StdoutSend
           \/ KernelMemory /\ Head(kmIn).op \in IoOps
           \/ MemoryUpdate
    PROVE  MediumAll'
<1> USE DEF procs, medium, devices, memory
<1>0. /\ state \in [Proc -> States] /\ \A q \in Proc : MediumInv(q)
      /\ kh \in [at : KhPoints, pids : Seq(Proc), dev : Device \cup {NoDevice}, seen : States]
      /\ kmIn \in Seq(ToKm) /\ kmOut \in Seq(FromKm)
  BY DEF Types, ProcTypes, KhTypes, KmTypes, MediumAll
<1>1. CASE ReceiveRead \/ ReceiveWrite
  <2>1. /\ UNCHANGED <<queued, blocked, suspended, suspending, swapped, ended>>
        /\ kmOut # <<>> /\ kmOut' = Tail(kmOut) /\ Head(kmOut).op \in IoOps /\ kh.at = "idle"
    BY <1>1 DEF ReceiveRead, ReceiveWrite, Receives, IoOps
  <2>2. kh' = kh \/ (kh.at \in Transfers /\ kh'.at \in Transfers)
    <3>1. kh' = kh \/ kh' = [kh EXCEPT !.at = "assign", !.pids = <<Pid>>]
      BY <1>1 DEF ReceiveRead, ReceiveWrite
    <3> QED BY <1>0, <2>1, <3>1 DEF Transfers
  <2>3. Head(kmOut).op \in Single
    BY <2>1 DEF IoOps, Single
  <2>4. PICK p \in Proc : p = Pid /\ Names(Head(kmOut), IoOps, p)
    BY <2>1, <2>3, Reads
  <2>5. ~HasNone(state[p])
    <3>1. 1 \in DOMAIN kmOut /\ kmOut[1] = Head(kmOut)
      BY <2>1, Reads
    <3>2. Sent(kmOut, IoOps, p) > 0
      BY <1>0, <2>4, <3>1, SentFacts
    <3> QED BY <3>2, Elsewhere
  <2>6. UNCHANGED <<state, kmIn>> \/ EndProcess(p)
    BY <1>1, <2>4, Zenon DEF ReceiveRead, ReceiveWrite
  <2>7. CASE UNCHANGED <<state, kmIn>>
    <3>1. Quiet
      BY <2>1, <2>2, <2>7 DEF Quiet
    <3>2. ASSUME NEW q \in Proc PROVE StateOn(q)
      <4>1. Killed(q)' <=> Killed(q)
        BY <2>1, <2>7, KilledSame
      <4> QED BY <1>0, <2>1, <2>7, <4>1, StateSame
    <3> QED BY <3>1, <3>2, QuietAll
  <2>8. CASE EndProcess(p)
    <3>1. state' = [state EXCEPT ![p] = "EXIT"] /\ kmIn' = Append(kmIn, Request("PROCESS_END", <<p>>))
      BY <2>8 DEF EndProcess
    <3>2. /\ Killed(p)' /\ \A q \in Proc : q # p => (Killed(q)' <=> Killed(q))
          /\ Request("PROCESS_END", <<p>>) \in ToKm /\ Request("PROCESS_END", <<p>>).op = "PROCESS_END"
      BY <2>1, <3>1, EndAsked
    <3>3. Quiet
      BY <2>1, <2>2, <3>1, <3>2 DEF Quiet
    <3>4. ASSUME NEW q \in Proc PROVE StateOn(q)
      <4>1. CASE q = p
        <5>1. state'[p] = "EXIT" /\ queued'[p] = queued[p] /\ state[p] \notin {"READY", "SUSP_READY"}
          BY <1>0, <2>1, <2>5, <3>1 DEF HasNone
        <5> QED BY <1>0, <3>2, <4>1, <5>1, EndOn
      <4>2. CASE q # p
        <5>1. state'[q] = state[q] /\ queued'[q] = queued[q] /\ blocked'[q] = blocked[q]
          BY <1>0, <2>1, <3>1, <4>2
        <5> QED BY <1>0, <3>2, <4>2, <5>1, StateSame
      <4> QED BY <4>1, <4>2
    <3> QED BY <3>3, <3>4, QuietAll
  <2> QED BY <2>6, <2>7, <2>8
<1>2. CASE StdoutAssign \/ StdoutSend
  <2>1. UNCHANGED <<state, queued, blocked, suspended, suspending, swapped, ended, kmIn, kmOut>>
    BY <1>2 DEF StdoutAssign, StdoutSend
  <2>2. kh.at \in Transfers /\ kh'.at \in Transfers
    <3>1. kh.at \in Transfers
      BY <1>2 DEF StdoutAssign, StdoutSend, Transfers
    <3>2. kh' = Idle(kh) \/ \E d : kh' = [kh EXCEPT !.at = "send", !.dev = d]
      BY <1>2 DEF StdoutAssign, StdoutSend
    <3>3. kh'.at \in {"idle", "send"}
      BY <1>0, <3>2 DEF Idle
    <3> QED BY <3>1, <3>3 DEF Transfers
  <2>3. Quiet
    BY <2>1, <2>2 DEF Quiet
  <2>4. ASSUME NEW q \in Proc PROVE StateOn(q)
    <3>1. Killed(q)' <=> Killed(q)
      BY <2>1, KilledSame
    <3> QED BY <1>0, <2>1, <3>1, StateSame
  <2> QED BY <2>3, <2>4, QuietAll
<1>3. CASE KernelMemory /\ Head(kmIn).op \in IoOps
  <2>1. /\ UNCHANGED <<state, queued, blocked, suspended, suspending, kh>>
        /\ kmIn # <<>> /\ kmIn' = Tail(kmIn) /\ Head(kmIn).op \in IoOps
    BY <1>3 DEF KernelMemory
  <2>2. /\ UNCHANGED <<swapped, ended>>
        /\ \E ok \in BOOLEAN : kmOut' = Append(kmOut, Answer(Head(kmIn).op, Head(kmIn).pids, ok))
    BY <1>3 DEF KernelMemory, IoOps
  <2>3. PICK ok \in BOOLEAN : kmOut' = Append(kmOut, Answer(Head(kmIn).op, Head(kmIn).pids, ok))
    BY <2>2
  <2>4. Head(kmIn) \in ToKm
    BY <1>0, <2>1
  <2>5. /\ Answer(Head(kmIn).op, Head(kmIn).pids, ok) \in FromKm
        /\ Answer(Head(kmIn).op, Head(kmIn).pids, ok).op \in IoOps
    BY <2>1, <2>4 DEF Answer, ToKm, FromKm
  <2>6. Quiet
    BY <2>1, <2>2, <2>3, <2>5 DEF Quiet
  <2>7. ASSUME NEW q \in Proc PROVE StateOn(q)
    <3>1. ~Names(Head(kmIn), {"PROCESS_END"}, q)
      BY <2>1 DEF Names, IoOps
    <3>2. Killed(q)' <=> Killed(q)
      BY <2>1, <2>2, <3>1, KilledSame
    <3> QED BY <1>0, <2>1, <3>2, StateSame
  <2> QED BY <2>6, <2>7, QuietAll
<1>4. CASE MemoryUpdate
  <2>1. /\ UNCHANGED <<state, queued, blocked, suspended, suspending, kh, kmIn, swapped, ended>>
        /\ kmOut' = Append(kmOut, Answer("MEMORY_UPDATE", <<>>, TRUE))
    BY <1>4 DEF MemoryUpdate
  <2>2. Answer("MEMORY_UPDATE", <<>>, TRUE) \in FromKm /\ Answer("MEMORY_UPDATE", <<>>, TRUE).op = "MEMORY_UPDATE"
    BY DEF Answer, FromKm, Messages, Single
  <2>3. Quiet
    BY <2>1, <2>2 DEF Quiet
  <2>4. ASSUME NEW q \in Proc PROVE StateOn(q)
    <3>1. Killed(q)' <=> Killed(q)
      BY <2>1, KilledSame
    <3> QED BY <1>0, <2>1, <3>1, StateSame
  <2> QED BY <2>3, <2>4, QuietAll
<1> QED BY <1>1, <1>2, <1>3, <1>4

\* A process in SWAP whose SWAP_OUT was confirmed stays confirmed.
LEMMA SwappedKept ==
    ASSUME Types, Types', NEW q \in Proc, SwappedOut(q), AnswersOn(q), Killed(q) => Killed(q)',
           q \in swapped' => q \in swapped,
           q \in swapped /\ ~Killed(q) /\ q \notin suspending /\ OutAsked(q) = 0 /\ ~Applied(q)
              => q \notin suspending' /\ OutAsked(q)' = 0 /\ ~Applied(q)'
    PROVE  SwappedOut(q)'
<1> SUFFICES ASSUME ~Killed(q)', q \in swapped'
             PROVE  /\ q \notin suspending' /\ OutAsked(q)' = 0 /\ ~Applied(q)'
                    /\ \A i \in DOMAIN kmOut' : kmOut'[i].op = "SWAP_OUT" /\ q \in Range(kmOut'[i].pids) => kmOut'[i].ok
  BY Zenon DEF SwappedOut, OutAsked, Applied
<1>1. /\ q \notin suspending /\ OutAsked(q) = 0 /\ ~Applied(q)
      /\ \A i \in DOMAIN kmOut : kmOut[i].op = "SWAP_OUT" /\ q \in Range(kmOut[i].pids) => kmOut[i].ok
  BY DEF SwappedOut, OutAsked, Applied
<1>2. \A i \in DOMAIN kmOut' : kmOut'[i].op = "SWAP_OUT" /\ q \in Range(kmOut'[i].pids) => kmOut'[i].ok
  BY <1>1, AnswersKept
<1> QED BY <1>1, <1>2

\* The handler of Kernel Memory goes on with a SWAP_OUT or SWAP_IN, and q stays where it is.
LEMMA SwapStay ==
    ASSUME Types, Types', NEW q \in Proc, MediumInv(q), StateOn(q),
           UNCHANGED <<kmIn, ended, swapped, suspending>>,
           kmOut' = kmOut \/ (kmOut # <<>> /\ kmOut' = Tail(kmOut)),
           SwapOuts(q)' = SwapOuts(q), Backs(q)' = Backs(q),
           kh.at = "block" /\ q = Head(kh.pids) =>
                blocked'[q] > 0 \/ (kh'.at = "block" /\ q = Head(kh'.pids)),
           q \in Range(suspended) \/ Applied(q) => q \in Range(suspended') \/ Applied(q)',
           q \in swapped => (Applied(q)' => Applied(q)) /\ (q \in Range(suspended) => q \in Range(suspended')),
           kh'.at \in {"in", "apply"} => OnceIn(kh'.pids, q)
    PROVE  MediumInv(q)'
<1>0. Distinct(q) /\ SwappedOut(q) /\ AskedInv(q)
  BY DEF MediumInv
<1>1. Killed(q)' <=> Killed(q)
  BY KilledSame
<1>2. AnswersOn(q)
  BY DEF AnswersOn
<1>3. Distinct(q)'
  <2>1. \A i \in DOMAIN kmOut' : kmOut'[i].op = "SWAP_IN" => OnceIn(kmOut'[i].pids, q)
    BY <1>0, <1>2, AnswersKept DEF Distinct
  <2> QED BY <2>1, Zenon DEF Distinct, OnceIn
<1>4. SwappedOut(q)'
  <2>1. OutAsked(q)' = OutAsked(q)
    BY DEF OutAsked
  <2> QED BY <1>0, <1>1, <1>2, <2>1, SwappedKept
<1>5. AskedInv(q)'
  <2>1. AsksOn(q)
    BY DEF AsksOn
  <2>2. q \in swapped' => \/ q \in swapped
                          \/ /\ kmIn # <<>> /\ kmIn' = Tail(kmIn)
                             /\ Head(kmIn).op = "SWAP_OUT" /\ q \in Range(Head(kmIn).pids)
    OBVIOUS
  <2>3. (q \in swapped' /\ q \in swapped /\ state[q] = "SUSP_READY" /\ q \in Range(suspended) /\ ~Killed(q))
           => state'[q] = "SUSP_READY" /\ q \in Range(suspended') /\ ~Killed(q)'
    BY <1>1 DEF StateOn
  <2> QED BY <1>0, <2>1, <2>2, <2>3, AskedKept, Zenon
<1> QED BY <1>1, <1>3, <1>4, <1>5, MediumKept

\* SWAP_OUT is sent.
LEMMA SendSwapOutMedium ==
    ASSUME Types, Types', MediumAll, NEW p \in Proc, SendSwapOut(p)
    PROVE  MediumAll'
<1> USE DEF procs, medium, devices, memory
<1> DEFINE m == Request("SWAP_OUT", <<p>>)
<1>0. /\ UNCHANGED <<state, queued, blocked, suspended, kh, kmOut, swapped, ended>>
      /\ p \in suspending /\ suspending' = suspending \ {p} /\ kmIn' = Append(kmIn, m)
  BY DEF SendSwapOut
<1>1. m \in ToKm /\ m.op = "SWAP_OUT" /\ \A ops, q : Names(m, ops, q) <=> "SWAP_OUT" \in ops /\ q = p
  BY RequestIs DEF Single
<1> HIDE DEF m
<1>2. kmIn \in Seq(ToKm)
  BY DEF Types, KmTypes
<1> SUFFICES ASSUME NEW q \in Proc PROVE MediumInv(q)'
  BY DEF MediumAll
<1>3. MediumInv(q) /\ Distinct(q) /\ SwappedOut(q) /\ AskedInv(q)
  BY DEF MediumAll, MediumInv
<1>4. Killed(q)' <=> Killed(q)
  <2>1. \E x \in ToKm : kmIn' = Append(kmIn, x) /\ ~Names(x, {"PROCESS_END"}, q)
    BY <1>0, <1>1
  <2> QED BY <1>0, <2>1, KilledSame
<1>5. OutAsked(q)' = OutAsked(q) + (IF q = p THEN 1 ELSE 0) /\ OutAsked(q) \in Nat
  <2>1. /\ Sent(kmIn, {"SWAP_OUT"}, q) \in Nat
        /\ Sent(Append(kmIn, m), {"SWAP_OUT"}, q) = Sent(kmIn, {"SWAP_OUT"}, q) + One(Names(m, {"SWAP_OUT"}, q))
    BY <1>1, <1>2, SentFacts
  <2>2. One(Names(m, {"SWAP_OUT"}, q)) = IF q = p THEN 1 ELSE 0
    BY <1>1 DEF One
  <2> QED BY <1>0, <2>1, <2>2 DEF OutAsked
<1>6. OutToSend(q) = OutToSend(q)' + (IF q = p THEN 1 ELSE 0)
  BY <1>0 DEF OutToSend, One
<1>7. /\ OutAnswered(q)' = OutAnswered(q) /\ OutListing(q)' = OutListing(q) /\ OutListed(q)' = OutListed(q)
      /\ (Applied(q)' <=> Applied(q)) /\ One(Applied(q)') = One(Applied(q))
      /\ BackAnswered(q)' = BackAnswered(q) /\ BackHeld(q)' = BackHeld(q)
  BY <1>0 DEF OutAnswered, OutListing, OutListed, Applied, BackAnswered, BackHeld
<1>8. SwapOuts(q)' = SwapOuts(q) /\ Backs(q)' = Backs(q)
  BY <1>5, <1>6, <1>7, MediumParts, MediumPartsNext
<1>9. StateOn(q)
  BY <1>0, <1>3, <1>4, StateSame
<1>10. AskedInv(q)'
  <2>1. AsksOn(q)
    BY <1>0, <1>1 DEF AsksOn
  <2>2. q \in swapped' => \/ q \in swapped
                          \/ /\ kmIn # <<>> /\ kmIn' = Tail(kmIn)
                             /\ Head(kmIn).op = "SWAP_OUT" /\ q \in Range(Head(kmIn).pids)
    BY <1>0
  <2>3. (q \in swapped' /\ q \in swapped /\ state[q] = "SUSP_READY" /\ q \in Range(suspended) /\ ~Killed(q))
           => state'[q] = "SUSP_READY" /\ q \in Range(suspended') /\ ~Killed(q)'
    BY <1>0, <1>4
  <2> QED BY <1>3, <2>1, <2>2, <2>3, AskedKept, Zenon
<1>11. SwappedOut(q)'
  <2>1. AnswersOn(q)
    BY <1>0 DEF AnswersOn
  <2>2. q \notin suspending => q # p
    BY <1>0
  <2> QED BY <1>0, <1>3, <1>4, <1>5, <1>7, <2>1, <2>2, SwappedKept
<1>12. Distinct(q)'
  BY <1>0, <1>3 DEF Distinct
<1> QED BY <1>0, <1>3, <1>4, <1>7, <1>8, <1>9, <1>10, <1>11, <1>12, MediumKept

\* suspension_manager suspends processes in BLOCK, none of which is under way to SWAP.
LEMMA SuspensionMedium ==
    ASSUME Types, Types', MediumAll, suspension_manager
    PROVE  MediumAll'
<1> USE DEF procs, medium, devices, memory
<1>0. /\ UNCHANGED <<queued, suspended, kh, kmIn, kmOut, swapped, ended>>
      /\ suspending = {}
      /\ \E S \in SUBSET {p \in Proc : blocked[p] > 0 /\ state[p] = "BLOCK"} :
            /\ state' = [p \in Proc |-> IF p \in S THEN "SUSP_BLOCK" ELSE state[p]]
            /\ blocked' = [p \in Proc |-> IF p \in S THEN blocked[p] - 1 ELSE blocked[p]]
            /\ suspending' = S
  BY DEF suspension_manager
<1>1. PICK S \in SUBSET {p \in Proc : blocked[p] > 0 /\ state[p] = "BLOCK"} :
            /\ state' = [p \in Proc |-> IF p \in S THEN "SUSP_BLOCK" ELSE state[p]]
            /\ blocked' = [p \in Proc |-> IF p \in S THEN blocked[p] - 1 ELSE blocked[p]]
            /\ suspending' = S
  BY <1>0
<1> SUFFICES ASSUME NEW q \in Proc PROVE MediumInv(q)'
  BY DEF MediumAll
<1>2. MediumInv(q) /\ Distinct(q) /\ SwappedOut(q) /\ AskedInv(q) /\ ListedInv(q) /\ Returning(q)
  BY DEF MediumAll, MediumInv
<1>3. Killed(q)' <=> Killed(q)
  BY <1>0, KilledSame
<1>4. /\ OutAnswered(q)' = OutAnswered(q) /\ OutListing(q)' = OutListing(q) /\ OutListed(q)' = OutListed(q)
      /\ (Applied(q)' <=> Applied(q)) /\ One(Applied(q)') = One(Applied(q)) /\ OutAsked(q)' = OutAsked(q)
      /\ BackAnswered(q)' = BackAnswered(q) /\ BackHeld(q)' = BackHeld(q)
  BY <1>0 DEF OutAnswered, OutListing, OutListed, Applied, BackAnswered, BackHeld, OutAsked
<1>5. OutToSend(q) = 0 /\ OutToSend(q)' = IF q \in S THEN 1 ELSE 0
  BY <1>0, <1>1 DEF OutToSend, One
<1>6. SwapOuts(q)' = SwapOuts(q) + (IF q \in S THEN 1 ELSE 0) /\ Backs(q)' = Backs(q) /\ SwapOuts(q) \in Nat
  BY <1>4, <1>5, MediumParts, MediumPartsNext
<1>7. Distinct(q)'
  BY <1>0, <1>2 DEF Distinct
<1>8. CASE q \in S
  <2>1. state[q] = "BLOCK" /\ state'[q] = "SUSP_BLOCK" /\ queued'[q] = queued[q]
    BY <1>0, <1>1, <1>8
  <2>2. queued'[q] = One(state'[q] = "READY")
    BY <1>2, <2>1 DEF MediumInv, One
  <2>3. ~Killed(q) => SwapOuts(q) = 0 /\ q \notin swapped
    BY <1>2, <2>1 DEF ListedInv, One
  <2>4. ListedInv(q)'
    <3>1. ~Killed(q)' => SwapOuts(q)' = One(state'[q] \in {"SUSP_BLOCK", "SUSP_READY"})
      BY <1>3, <1>6, <1>8, <2>1, <2>3 DEF One
    <3> QED BY <2>1, <3>1, Zenon DEF ListedInv
  <2>5. SwappedOut(q)'
    <3>1. ~(~Killed(q)' /\ q \in swapped')
      BY <1>0, <1>3, <2>3
    <3> QED BY <3>1, Zenon DEF SwappedOut
  <2>6. Returning(q)'
    <3>1. Backs(q) <= 1 /\ Backs(q) # 1
      BY <1>2, <2>1 DEF Returning
    <3>2. Backs(q)' <= 1 /\ Backs(q)' # 1
      BY <1>6, <3>1
    <3> QED BY <3>2, Zenon DEF Returning
  <2>7. AskedInv(q)'
    <3>1. AsksOn(q)
      BY <1>0 DEF AsksOn
    <3>2. q \in swapped' => \/ q \in swapped
                            \/ /\ kmIn # <<>> /\ kmIn' = Tail(kmIn)
                               /\ Head(kmIn).op = "SWAP_OUT" /\ q \in Range(Head(kmIn).pids)
      BY <1>0
    <3>3. (q \in swapped' /\ q \in swapped /\ state[q] = "SUSP_READY" /\ q \in Range(suspended) /\ ~Killed(q))
             => state'[q] = "SUSP_READY" /\ q \in Range(suspended') /\ ~Killed(q)'
      BY <2>1
    <3> QED BY <1>2, <3>1, <3>2, <3>3, AskedKept, Zenon
  <2>8. state'[q] = "EXIT" => Killed(q)'
    BY <2>1
  <2> QED BY <1>7, <2>2, <2>4, <2>5, <2>6, <2>7, <2>8, Zenon DEF MediumInv
<1>9. CASE q \notin S
  <2>1. state'[q] = state[q] /\ queued'[q] = queued[q] /\ blocked'[q] = blocked[q]
    BY <1>0, <1>1, <1>9
  <2>2. StateOn(q)
    BY <1>2, <1>3, <2>1, StateSame
  <2>3. SwappedOut(q)'
    <3>1. AnswersOn(q)
      BY <1>0 DEF AnswersOn
    <3> QED BY <1>0, <1>1, <1>2, <1>3, <1>4, <1>9, <3>1, SwappedKept
  <2>4. AskedInv(q)'
    <3>1. AsksOn(q)
      BY <1>0 DEF AsksOn
    <3>2. q \in swapped' => \/ q \in swapped
                            \/ /\ kmIn # <<>> /\ kmIn' = Tail(kmIn)
                               /\ Head(kmIn).op = "SWAP_OUT" /\ q \in Range(Head(kmIn).pids)
      BY <1>0
    <3>3. (q \in swapped' /\ q \in swapped /\ state[q] = "SUSP_READY" /\ q \in Range(suspended) /\ ~Killed(q))
             => state'[q] = "SUSP_READY" /\ q \in Range(suspended') /\ ~Killed(q)'
      BY <1>0, <1>3, <2>1
    <3> QED BY <1>2, <3>1, <3>2, <3>3, AskedKept, Zenon
  <2>5. SwapOuts(q)' = SwapOuts(q)
    BY <1>6, <1>9
  <2> QED BY <1>0, <1>2, <1>3, <1>4, <1>6, <1>7, <2>2, <2>3, <2>4, <2>5, MediumKept
<1> QED BY <1>8, <1>9

\* The lists of the handler of Kernel Memory, after a SWAP_OUT.
LEMMA ListMedium ==
    ASSUME Types, Types', MediumAll, KhInv, ListBlocked \/ ListSuspended
    PROVE  MediumAll' /\ KhInv'
<1> USE DEF procs, medium, devices, memory
<1>0. /\ kh \in [at : KhPoints, pids : Seq(Proc), dev : Device \cup {NoDevice}, seen : States]
      /\ blocked \in [Proc -> Nat] /\ suspended \in Seq(Proc)
      /\ UNCHANGED <<state, queued, suspending, kmIn, kmOut, swapped, ended>>
      /\ kh.pids \in Seq(Proc)
  BY DEF Types, KhTypes, ProcTypes, ListBlocked, ListSuspended
<1>1. ASSUME NEW q \in Proc
      PROVE  /\ MediumInv(q) /\ (Killed(q)' <=> Killed(q))
             /\ OutAnswered(q)' = OutAnswered(q) /\ OutToSend(q)' = OutToSend(q) /\ OutAsked(q)' = OutAsked(q)
             /\ BackAnswered(q)' = BackAnswered(q)
  <2>1. Killed(q)' <=> Killed(q)
    BY <1>0, KilledSame
  <2> QED BY <1>0, <2>1 DEF MediumAll, OutAnswered, OutToSend, BackAnswered, OutAsked
<1>2. CASE ListBlocked
  <2>1. /\ kh.at = "block" /\ kh' = [kh EXCEPT !.at = "in", !.pids = Tail(@)] /\ UNCHANGED suspended
        /\ blocked' = [blocked EXCEPT ![Head(kh.pids)] = @ + 1]
    BY <1>2 DEF ListBlocked
  <2>2. kh'.at = "in" /\ kh'.pids = <<>>
    BY <1>0, <2>1 DEF KhInv
  <2>3. ASSUME NEW q \in Proc PROVE MediumInv(q)'
    <3>1. blocked'[q] >= blocked[q] /\ blocked[q] \in Nat /\ (q = Head(kh.pids) => blocked'[q] > 0)
          /\ (q # Head(kh.pids) => blocked'[q] = blocked[q])
      BY <1>0, <2>1
    <3>2. StateOn(q)
      <4>1. state'[q] = "BLOCK" => (state[q] = "BLOCK" /\ blocked'[q] = blocked[q]) \/ blocked'[q] > 0
        BY <1>0, <3>1
      <4> QED BY <1>0, <1>1, <4>1 DEF StateOn, MediumInv
    <3>3. /\ OutListing(q)' = 0 /\ OutListing(q) = 0 /\ OutListed(q)' = OutListed(q)
          /\ ~Applied(q)' /\ ~Applied(q) /\ BackHeld(q)' = 0 /\ BackHeld(q) = 0
      <4>1. q \notin Range(kh'.pids)
        BY <2>2 DEF Range
      <4> QED BY <2>1, <2>2, <4>1 DEF OutListing, OutListed, Applied, BackHeld, One
    <3>4. One(Applied(q)') = 0 /\ One(Applied(q)) = 0
      BY <3>3 DEF One
    <3>5. SwapOuts(q)' = SwapOuts(q) /\ Backs(q)' = Backs(q)
      BY <1>1, <3>3, <3>4, MediumParts, MediumPartsNext
    <3>6. kh'.at \in {"in", "apply"} => OnceIn(kh'.pids, q)
      BY <2>2 DEF OnceIn
    <3> QED BY <1>0, <1>1, <2>1, <3>1, <3>2, <3>3, <3>5, <3>6, SwapStay
  <2>4. KhInv'
    BY <2>2 DEF KhInv
  <2> QED BY <2>3, <2>4 DEF MediumAll
<1>3. CASE ListSuspended
  <2>1. /\ kh.at = "suspend" /\ kh' = Idle(kh) /\ UNCHANGED blocked
        /\ suspended' = Append(suspended, Head(kh.pids))
    BY <1>3 DEF ListSuspended
  <2>2. kh'.at = "idle"
    BY <1>0, <2>1 DEF Idle
  <2>3. PICK p \in Proc : kh.pids = <<p>>
    BY <2>1 DEF Types, KhTypes, OnePid
  <2>4. Head(kh.pids) = p /\ Range(kh.pids) = {p} /\ p \in Proc
    BY <2>3 DEF Range
  <2>5. suspended' = Append(suspended, p) /\ Range(suspended') = Range(suspended) \cup {p}
    BY <1>0, <2>1, <2>4, RangeAppend
  <2>6. ASSUME NEW q \in Proc PROVE MediumInv(q)'
    <3>1. StateOn(q)
      BY <1>0, <1>1, <2>1, StateSame
    <3>2. /\ OutListing(q)' = 0 /\ OutListing(q) = (IF q = p THEN 1 ELSE 0)
          /\ ~Applied(q)' /\ ~Applied(q) /\ BackHeld(q)' = 0 /\ BackHeld(q) = 0
      BY <2>1, <2>2, <2>4 DEF OutListing, Applied, BackHeld, One
    <3>3. OutListed(q)' = OutListed(q) + (IF q = p THEN 1 ELSE 0)
      <4>1. Times(Append(suspended, p), q) = Times(suspended, q) + One(p = q)
        BY <1>0, <2>4, TimesFacts
      <4>2. One(p = q) = IF q = p THEN 1 ELSE 0
        BY DEF One
      <4> QED BY <2>5, <4>1, <4>2 DEF OutListed
    <3>4. One(Applied(q)') = 0 /\ One(Applied(q)) = 0
      BY <3>2 DEF One
    <3>5. SwapOuts(q)' = SwapOuts(q) /\ Backs(q)' = Backs(q)
      BY <1>1, <3>2, <3>3, <3>4, MediumParts, MediumPartsNext
    <3> QED BY <1>0, <1>1, <2>1, <2>2, <2>5, <3>1, <3>2, <3>5, SwapStay
  <2>7. KhInv'
    BY <2>2 DEF KhInv
  <2> QED BY <2>6, <2>7 DEF MediumAll
<1> QED BY <1>2, <1>3

\* The answer to a SWAP_OUT is read.
LEMMA OutAnsweredRead ==
    ASSUME Types, Types', NEW p \in Proc, NEW q \in Proc, kmOut # <<>>, kmOut' = Tail(kmOut),
           Head(kmOut).op = "SWAP_OUT", \A ops, r : Names(Head(kmOut), ops, r) <=> Head(kmOut).op \in ops /\ r = p
    PROVE  /\ OutAnswered(q) = OutAnswered(q)' + (IF q = p THEN 1 ELSE 0)
           /\ BackAnswered(q)' = BackAnswered(q)
<1>0. kmOut \in Seq(FromKm) /\ kmOut' \in Seq(FromKm)
  BY DEF Types, KmTypes
<1>1. Sent(kmOut, {"SWAP_OUT"}, q) = Sent(Tail(kmOut), {"SWAP_OUT"}, q) + One(Names(Head(kmOut), {"SWAP_OUT"}, q))
  BY <1>0, SentFacts
<1>2. One(Names(Head(kmOut), {"SWAP_OUT"}, q)) = IF q = p THEN 1 ELSE 0
  BY DEF One
<1>3. ~Names(Head(kmOut), {"SWAP_IN"}, q)
  BY DEF Names
<1>4. Sent(kmOut', {"SWAP_IN"}, q) = Sent(kmOut, {"SWAP_IN"}, q)
  <2>1. Sent(kmOut, {"SWAP_IN"}, q) = Sent(Tail(kmOut), {"SWAP_IN"}, q) + One(Names(Head(kmOut), {"SWAP_IN"}, q))
    BY <1>0, SentFacts
  <2>3. Sent(kmOut', {"SWAP_IN"}, q) \in Nat
    BY <1>0, SentFacts
  <2>2. One(Names(Head(kmOut), {"SWAP_IN"}, q)) = 0
    BY <1>3 DEF One
  <2> QED BY <2>1, <2>2, <2>3
<1> QED BY <1>1, <1>2, <1>4 DEF OutAnswered, BackAnswered

\* SWAP_OUT is confirmed, or refused and the process goes back where it came from.
LEMMA ConfirmMedium ==
    ASSUME Types, Types', MediumAll, KhInv, wait_confirmation_swap_out
    PROVE  MediumAll' /\ KhInv'
<1> USE DEF procs, medium, devices, memory
<1>0. /\ kh \in [at : KhPoints, pids : Seq(Proc), dev : Device \cup {NoDevice}, seen : States]
      /\ state \in [Proc -> States] /\ queued \in [Proc -> Nat] /\ kmOut \in Seq(FromKm)
  BY DEF Types, KhTypes, ProcTypes, KmTypes
<1>1. /\ UNCHANGED <<blocked, suspended, suspending, kmIn, swapped, ended>>
      /\ kh.at = "idle" /\ kmOut # <<>> /\ Head(kmOut).op = "SWAP_OUT" /\ kmOut' = Tail(kmOut)
  BY DEF wait_confirmation_swap_out, Receives
<1>2. /\ Head(kmOut).op \in Single /\ kmOut[1] = Head(kmOut) /\ 1 \in DOMAIN kmOut
  BY <1>1, Reads DEF Single
<1>3. PICK p \in Proc : p = Pid /\ \A ops, r : Names(Head(kmOut), ops, r) <=> Head(kmOut).op \in ops /\ r = p
  BY <1>1, <1>2, Reads
<1> DEFINE ok == Head(kmOut).ok
           rejected == ~ok /\ state[p] \in {"SUSP_READY", "SUSP_BLOCK"}
<1>4. /\ state' = [state EXCEPT ![p] = IF rejected THEN IF @ = "SUSP_READY" THEN "READY" ELSE "BLOCK" ELSE @]
      /\ queued' = [queued EXCEPT ![p] = IF rejected /\ state[p] = "SUSP_READY" THEN @ + 1 ELSE @]
      /\ kh' = CASE rejected /\ state[p] = "SUSP_BLOCK" -> [kh EXCEPT !.at = "block", !.pids = <<p>>]
                 [] ok /\ state[p] \in {"SUSP_READY", "SUSP_BLOCK"} ->
                       [kh EXCEPT !.at = "suspend", !.pids = <<p>>]
                 [] OTHER -> kh
  BY <1>3, Zenon DEF wait_confirmation_swap_out
<1>5. /\ state'[p] = (IF rejected THEN IF state[p] = "SUSP_READY" THEN "READY" ELSE "BLOCK" ELSE state[p])
      /\ queued'[p] = (IF rejected /\ state[p] = "SUSP_READY" THEN queued[p] + 1 ELSE queued[p])
      /\ \A q \in Proc : q # p => state'[q] = state[q] /\ queued'[q] = queued[q]
  BY <1>0, <1>4
<1>6. /\ rejected /\ state[p] = "SUSP_BLOCK" => kh' = [kh EXCEPT !.at = "block", !.pids = <<p>>]
      /\ ok /\ state[p] \in {"SUSP_READY", "SUSP_BLOCK"} => kh' = [kh EXCEPT !.at = "suspend", !.pids = <<p>>]
      /\ \/ kh' = kh
         \/ rejected /\ state[p] = "SUSP_BLOCK"
         \/ ok /\ state[p] \in {"SUSP_READY", "SUSP_BLOCK"}
  BY <1>4
<1>7. ok \in BOOLEAN
  BY <1>1, Reads
<1>8. /\ kh'.at \in {"idle", "block", "suspend"} /\ (kh'.at # "idle" => kh'.pids = <<p>>)
      /\ kh'.at = "block" <=> rejected /\ state[p] = "SUSP_BLOCK"
      /\ kh'.at = "suspend" <=> ok /\ state[p] \in {"SUSP_READY", "SUSP_BLOCK"}
  <2>1. CASE rejected /\ state[p] = "SUSP_BLOCK"
    BY <1>0, <1>6, <1>7, <2>1
  <2>2. CASE ok /\ state[p] \in {"SUSP_READY", "SUSP_BLOCK"}
    BY <1>0, <1>6, <1>7, <2>2
  <2>3. CASE ~(rejected /\ state[p] = "SUSP_BLOCK") /\ ~(ok /\ state[p] \in {"SUSP_READY", "SUSP_BLOCK"})
    BY <1>1, <1>6, <2>3
  <2> QED BY <2>1, <2>2, <2>3
<1>9. Head(<<p>>) = p /\ Range(<<p>>) = {p} /\ Tail(<<p>>) = <<>>
  BY DEF Range
<1>10. KhInv'
  BY <1>8, <1>9 DEF KhInv
<1> HIDE DEF ok, rejected
<1>11. ASSUME NEW q \in Proc
       PROVE  /\ MediumInv(q) /\ (Killed(q)' <=> Killed(q))
              /\ OutToSend(q)' = OutToSend(q) /\ OutAsked(q)' = OutAsked(q) /\ OutListed(q)' = OutListed(q)
              /\ OutAnswered(q) = OutAnswered(q)' + (IF q = p THEN 1 ELSE 0)
              /\ ~Applied(q)' /\ ~Applied(q) /\ One(Applied(q)') = 0 /\ One(Applied(q)) = 0
              /\ OutListing(q) = 0 /\ OutListing(q)' = IF q = p /\ kh'.at = "suspend" THEN 1 ELSE 0
              /\ Backs(q)' = Backs(q)
  <2>1. Killed(q)' <=> Killed(q)
    BY <1>1, KilledSame
  <2>2. OutAnswered(q) = OutAnswered(q)' + (IF q = p THEN 1 ELSE 0) /\ BackAnswered(q)' = BackAnswered(q)
    BY <1>1, <1>3, OutAnsweredRead
  <2>3. ~Applied(q)' /\ ~Applied(q) /\ BackHeld(q)' = 0 /\ BackHeld(q) = 0
    BY <1>1, <1>8 DEF Applied, BackHeld, One
  <2>4. One(Applied(q)') = 0 /\ One(Applied(q)) = 0
    BY <2>3 DEF One
  <2>5. OutListing(q) = 0 /\ OutListing(q)' = IF q = p /\ kh'.at = "suspend" THEN 1 ELSE 0
    BY <1>1, <1>8, <1>9 DEF OutListing, One
  <2>6. Backs(q)' = Backs(q)
    BY <2>2, <2>3, MediumParts, MediumPartsNext
  <2>7. OutToSend(q)' = OutToSend(q) /\ OutAsked(q)' = OutAsked(q) /\ OutListed(q)' = OutListed(q)
    BY <1>1 DEF OutToSend, OutAsked, OutListed
  <2>8. MediumInv(q)
    BY DEF MediumAll
  <2> QED BY <2>1, <2>2, <2>3, <2>4, <2>5, <2>6, <2>7, <2>8
<1>12. ASSUME NEW q \in Proc, q # p PROVE MediumInv(q)'
  <2>1. SwapOuts(q)' = SwapOuts(q)
    BY <1>11, <1>12, MediumParts, MediumPartsNext
  <2>2. StateOn(q)
    BY <1>1, <1>5, <1>11, <1>12, StateSame
  <2>3. kh'.at \in {"in", "apply"} => OnceIn(kh'.pids, q)
    BY <1>8
  <2> QED BY <1>1, <1>11, <2>1, <2>2, <2>3, SwapStay
<1>13. MediumInv(p)'
  <2>0. /\ MediumInv(p) /\ Distinct(p) /\ SwappedOut(p) /\ AskedInv(p) /\ ListedInv(p) /\ Returning(p)
        /\ queued[p] = One(state[p] = "READY")
    BY <1>11 DEF MediumInv
  <2>1. SwapOuts(p) = SwapOuts(p)' + (IF kh'.at = "suspend" THEN 0 ELSE 1)
    BY <1>11, MediumParts, MediumPartsNext
  <2>2. OutAnswered(p) > 0 /\ SwapOuts(p) \in Nat /\ SwapOuts(p) >= OutAnswered(p) + OutListed(p)
    <3>1. OutAnswered(p) > 0
      BY <1>11, MediumPartsNext
    <3> QED BY <3>1, MediumParts
  <2>3. ~Killed(p) => state[p] \in {"SUSP_BLOCK", "SUSP_READY"} /\ SwapOuts(p) = 1 /\ p \notin Range(suspended)
    <3>1. ~Killed(p) => SwapOuts(p) = One(state[p] \in {"SUSP_BLOCK", "SUSP_READY"})
      BY <2>0 DEF ListedInv
    <3>2. OutListed(p) \in Nat /\ (OutListed(p) > 0 <=> p \in Range(suspended)) /\ OutAnswered(p) \in Nat
      BY MediumParts
    <3> QED BY <2>2, <3>1, <3>2 DEF One
  <2>4. CASE kh'.at = "suspend"
    <3>1. state'[p] = state[p] /\ queued'[p] = queued[p] /\ blocked'[p] = blocked[p]
      BY <1>1, <1>5, <1>8, <2>4 DEF rejected
    <3>2. StateOn(p)
      BY <1>11, <3>1, StateSame
    <3>3. SwapOuts(p)' = SwapOuts(p)
      BY <2>1, <2>2, <2>4, MediumPartsNext
    <3>4. kh'.at \in {"in", "apply"} => OnceIn(kh'.pids, p)
      BY <2>4
    <3> QED BY <1>1, <1>11, <3>2, <3>3, <3>4, SwapStay
  <2>5. CASE kh'.at # "suspend"
    <3>1. SwapOuts(p)' = SwapOuts(p) - 1
      BY <2>1, <2>2, <2>5, MediumPartsNext
    <3>2. Killed(p) \/ rejected
      BY <1>7, <1>8, <2>3, <2>5 DEF rejected
    <3>3. rejected => state[p] \in {"SUSP_READY", "SUSP_BLOCK"} /\ ~ok
      BY DEF rejected
    <3>4. queued'[p] = One(state'[p] = "READY") /\ (state'[p] = "EXIT" => Killed(p)')
      <4>1. queued'[p] = One(state'[p] = "READY")
        BY <1>5, <2>0, <3>3 DEF One
      <4> QED BY <1>5, <1>11, <2>0, <4>1 DEF MediumInv
    <3>5. ~Killed(p) => state'[p] = IF state[p] = "SUSP_READY" THEN "READY" ELSE "BLOCK"
      BY <1>5, <3>2
    <3>6. ListedInv(p)'
      <4> SUFFICES ASSUME ~Killed(p)'
                   PROVE  /\ SwapOuts(p)' = One(state'[p] \in {"SUSP_BLOCK", "SUSP_READY"})
                          /\ state'[p] = "BLOCK" => blocked'[p] > 0 \/ (kh'.at = "block" /\ p = Head(kh'.pids))
                          /\ state'[p] \in {"READY", "EXEC", "BLOCK"} => p \notin swapped'
        BY Zenon DEF ListedInv
      <4>1. ~Killed(p) /\ rejected
        BY <1>11, <3>2
      <4>2. SwapOuts(p)' = 0 /\ One(state'[p] \in {"SUSP_BLOCK", "SUSP_READY"}) = 0
        BY <2>3, <3>1, <3>5, <4>1 DEF One
      <4>3. state'[p] = "BLOCK" => kh'.at = "block" /\ p = Head(kh'.pids)
        BY <1>8, <1>9, <3>3, <3>5, <4>1
      <4>4. p \notin swapped
        <5>1. kmOut[1].op = "SWAP_OUT" /\ p \in Range(kmOut[1].pids) /\ ~kmOut[1].ok
          <6>1. Names(Head(kmOut), {"SWAP_OUT"}, p)
            BY <1>1, <1>3
          <6> QED BY <1>2, <3>3, <4>1, <6>1 DEF Names, ok
        <5> QED BY <1>2, <2>0, <4>1, <5>1 DEF SwappedOut
      <4> QED BY <1>1, <4>2, <4>3, <4>4
    <3>7. SwappedOut(p)'
      <4>1. AnswersOn(p)
        BY <1>1 DEF AnswersOn
      <4> QED BY <1>1, <1>11, <2>0, <4>1, SwappedKept
    <3>8. Returning(p)'
      <4>1. Backs(p) <= 1 /\ Backs(p) # 1
        <5>1. Backs(p) = 1 => ~Killed(p) /\ (p \in Range(suspended) \/ Applied(p))
          BY <2>0 DEF Returning, Applied
        <5>2. Backs(p) <= 1
          BY <2>0 DEF Returning
        <5> QED BY <1>11, <2>3, <5>1, <5>2
      <4>2. Backs(p)' <= 1 /\ Backs(p)' # 1
        BY <1>11, <4>1
      <4> QED BY <4>2, Zenon DEF Returning
    <3>9. Distinct(p)'
      <4>1. AnswersOn(p)
        BY <1>1 DEF AnswersOn
      <4>2. \A i \in DOMAIN kmOut' : kmOut'[i].op = "SWAP_IN" => OnceIn(kmOut'[i].pids, p)
        BY <2>0, <4>1, AnswersKept DEF Distinct
      <4>3. kh'.at \notin {"in", "apply"}
        BY <1>8
      <4> QED BY <4>2, <4>3, Zenon DEF Distinct, OnceIn
    <3>10. AskedInv(p)'
      <4>1. AsksOn(p)
        BY <1>1 DEF AsksOn
      <4>2. p \in swapped' => \/ p \in swapped
                              \/ /\ kmIn # <<>> /\ kmIn' = Tail(kmIn)
                                 /\ Head(kmIn).op = "SWAP_OUT" /\ p \in Range(Head(kmIn).pids)
        BY <1>1
      <4>3. (p \in swapped' /\ p \in swapped /\ state[p] = "SUSP_READY" /\ p \in Range(suspended) /\ ~Killed(p))
               => state'[p] = "SUSP_READY" /\ p \in Range(suspended') /\ ~Killed(p)'
        BY <2>3
      <4> QED BY <2>0, <4>1, <4>2, <4>3, AskedKept, Zenon
    <3> QED BY <3>4, <3>6, <3>7, <3>8, <3>9, <3>10, Zenon DEF MediumInv
  <2> QED BY <2>4, <2>5
<1> QED BY <1>10, <1>12, <1>13 DEF MediumAll

\* An element that is counted once has one place.
LEMMA OnceCounted ==
    ASSUME NEW s \in Seq(Proc), NEW p \in Proc, Times(s, p) <= 1
    PROVE  OnceIn(s, p)
<1> DEFINE I == {i \in DOMAIN s : s[i] = p}
<1> SUFFICES ASSUME NEW k \in DOMAIN s, NEW l \in DOMAIN s, s[k] = p, s[l] = p, k # l PROVE FALSE
  BY DEF OnceIn
<1>1. IsFiniteSet(I)
  <2>1. IsFiniteSet(DOMAIN s)
    BY FS_Interval
  <2> QED BY <2>1, FS_Subset
<1>2. k \in I /\ l \in I \ {k}
  OBVIOUS
<1>3. Cardinality(I) <= 1
  BY DEF Times
<1> HIDE DEF I
<1>4. IsFiniteSet(I \ {k}) /\ Cardinality(I \ {k}) = Cardinality(I) - 1
  BY <1>1, <1>2, FS_RemoveElement
<1>5. Cardinality(I) \in Nat /\ Cardinality(I \ {k}) \in Nat
  BY <1>1, <1>4, FS_CardinalityType
<1>6. Cardinality(I \ {k}) = 0
  BY <1>3, <1>4, <1>5
<1> QED BY <1>2, <1>4, <1>6, FS_EmptySet

\* A process in suspended_processes is there once, and no SWAP_OUT for it is under way.
LEMMA ListedAlone ==
    ASSUME Types, NEW q \in Proc, ListedInv(q), ~Killed(q), q \in Range(suspended)
    PROVE  /\ OutListed(q) = 1 /\ OutToSend(q) = 0 /\ OutAsked(q) = 0 /\ OutAnswered(q) = 0 /\ OutListing(q) = 0
           /\ ~Applied(q) /\ SwapOuts(q) = 1 /\ OnceIn(suspended, q)
<1>1. /\ OutToSend(q) \in Nat /\ OutAsked(q) \in Nat /\ OutAnswered(q) \in Nat /\ OutListing(q) \in Nat
      /\ OutListed(q) \in Nat /\ One(Applied(q)) \in Nat /\ OutListed(q) > 0
      /\ SwapOuts(q) = OutToSend(q) + OutAsked(q) + OutAnswered(q) + OutListing(q) + OutListed(q) + One(Applied(q))
  BY MediumParts
<1>2. SwapOuts(q) <= 1
  BY DEF ListedInv, One
<1>3. /\ OutListed(q) = 1 /\ OutToSend(q) = 0 /\ OutAsked(q) = 0 /\ OutAnswered(q) = 0 /\ OutListing(q) = 0
      /\ One(Applied(q)) = 0 /\ SwapOuts(q) = 1
  BY <1>1, <1>2
<1>4. suspended \in Seq(Proc) /\ Times(suspended, q) <= 1
  BY <1>3 DEF Types, ProcTypes, OutListed
<1> QED BY <1>3, <1>4, OnceCounted DEF One

\* The processes that are SUSP_READY are asked back.
LEMMA AskMedium ==
    ASSUME Types, Types', MediumAll, request_swap_in
    PROVE  MediumAll'
<1> USE DEF procs, medium, devices, memory
<1> DEFINE T == {p \in Proc : state[p] = "SUSP_READY"}
           ready == Filter(suspended, T)
           m == Request("SWAP_IN", sort_processes_by_priority(ready))
<1>0. /\ UNCHANGED <<state, queued, blocked, suspended, suspending, kh, swapped, ended>>
      /\ kmOut # <<>> /\ Head(kmOut).op = "MEMORY_UPDATE" /\ kmOut' = Tail(kmOut)
      /\ kmIn' = kmIn \/ kmIn' = Append(kmIn, m)
  BY DEF request_swap_in, Receives
<1>1. suspended \in Seq(Proc) /\ kmIn \in Seq(ToKm) /\ kmOut \in Seq(FromKm) /\ kmOut' \in Seq(FromKm)
  BY DEF Types, ProcTypes, KmTypes
<1>2. /\ ready \in Seq(Proc)
      /\ \A p : p \in Range(ready) => p \in T /\ p \in Range(suspended)
      /\ \A p \in Proc : OnceIn(suspended, p) => OnceIn(ready, p)
  <2> HIDE DEF T
  <2> QED BY <1>1, FilterIs
<1>3. /\ m \in ToKm /\ m.op = "SWAP_IN"
      /\ \A p : p \in Range(m.pids) => state[p] = "SUSP_READY" /\ p \in Range(suspended)
      /\ \A p \in Proc : OnceIn(suspended, p) => OnceIn(m.pids, p)
  <2>1. m.pids = sort_processes_by_priority(ready) /\ m.op = "SWAP_IN"
    BY DEF Request
  <2> HIDE DEF ready
  <2>2. /\ m.pids \in Seq(Proc)
        /\ \A p : p \in Range(m.pids) => p \in Range(ready)
        /\ \A p \in Proc : OnceIn(ready, p) => OnceIn(m.pids, p)
    BY <1>2, <2>1, SortIs
  <2>3. m \in ToKm
    BY <2>1, <2>2 DEF Request, ToKm, Messages, Single
  <2> HIDE DEF m
  <2> QED BY <1>2, <2>1, <2>2, <2>3
<1> HIDE DEF T, ready, m
<1>4. \A q \in Proc : MediumInv(q)
  BY DEF MediumAll
<1>5. CASE kmIn' = kmIn
  <2>1. Quiet
    BY <1>0, <1>5 DEF Quiet
  <2>2. ASSUME NEW q \in Proc PROVE StateOn(q)
    <3>1. Killed(q)' <=> Killed(q)
      BY <1>0, <1>5, KilledSame
    <3> QED BY <1>0, <1>4, <3>1, StateSame
  <2> QED BY <2>1, <2>2, QuietAll
<1>6. CASE kmIn' = Append(kmIn, m)
  <2> SUFFICES ASSUME NEW q \in Proc PROVE MediumInv(q)'
    BY DEF MediumAll
  <2>0. MediumInv(q) /\ Distinct(q) /\ SwappedOut(q) /\ AskedInv(q) /\ ListedInv(q)
    BY <1>4 DEF MediumInv
  <2>1. Killed(q)' <=> Killed(q)
    <3>1. \E x \in ToKm : kmIn' = Append(kmIn, x) /\ ~Names(x, {"PROCESS_END"}, q)
      BY <1>3, <1>6 DEF Names
    <3> QED BY <1>0, <3>1, KilledSame
  <2>2. OutAsked(q)' = OutAsked(q)
    <3>1. \/ kmIn' = kmIn
          \/ \E x \in ToKm : kmIn' = Append(kmIn, x) /\ ~Names(x, {"SWAP_OUT"}, q)
          \/ kmIn # <<>> /\ kmIn' = Tail(kmIn) /\ ~Names(Head(kmIn), {"SWAP_OUT"}, q)
      BY <1>3, <1>6 DEF Names
    <3>2. kmIn' \in Seq(ToKm)
      BY DEF Types, KmTypes
    <3>3. Sent(kmIn', {"SWAP_OUT"}, q) = Sent(kmIn, {"SWAP_OUT"}, q)
      BY <1>1, <3>1, <3>2, SentSame
    <3> QED BY <3>3 DEF OutAsked
  <2>3. OutAnswered(q)' = OutAnswered(q) /\ BackAnswered(q)' = BackAnswered(q)
    <3>1. \/ kmOut' = kmOut
          \/ \E x \in FromKm : kmOut' = Append(kmOut, x) /\ ~Names(x, {"SWAP_OUT"}, q)
          \/ kmOut # <<>> /\ kmOut' = Tail(kmOut) /\ ~Names(Head(kmOut), {"SWAP_OUT"}, q)
      BY <1>0 DEF Names
    <3>2. \/ kmOut' = kmOut
          \/ \E x \in FromKm : kmOut' = Append(kmOut, x) /\ ~Names(x, {"SWAP_IN"}, q)
          \/ kmOut # <<>> /\ kmOut' = Tail(kmOut) /\ ~Names(Head(kmOut), {"SWAP_IN"}, q)
      BY <1>0 DEF Names
    <3>3. Sent(kmOut', {"SWAP_OUT"}, q) = Sent(kmOut, {"SWAP_OUT"}, q)
      BY <1>1, <3>1, SentSame
    <3>4. Sent(kmOut', {"SWAP_IN"}, q) = Sent(kmOut, {"SWAP_IN"}, q)
      BY <1>1, <3>2, SentSame
    <3> QED BY <3>3, <3>4 DEF OutAnswered, BackAnswered
  <2>4. /\ OutToSend(q)' = OutToSend(q) /\ OutListing(q)' = OutListing(q) /\ OutListed(q)' = OutListed(q)
        /\ (Applied(q)' <=> Applied(q)) /\ One(Applied(q)') = One(Applied(q)) /\ BackHeld(q)' = BackHeld(q)
    BY <1>0 DEF OutToSend, OutListing, OutListed, Applied, BackHeld
  <2>5. SwapOuts(q)' = SwapOuts(q) /\ Backs(q)' = Backs(q)
    BY <2>2, <2>3, <2>4, MediumParts, MediumPartsNext
  <2>6. StateOn(q)
    BY <1>0, <2>0, <2>1, StateSame
  <2>7. AnswersOn(q)
    BY <1>0 DEF AnswersOn
  <2>8. SwappedOut(q)'
    BY <1>0, <2>0, <2>1, <2>2, <2>4, <2>7, SwappedKept
  <2>9. Distinct(q)'
    <3>1. \A i \in DOMAIN kmOut' : kmOut'[i].op = "SWAP_IN" => OnceIn(kmOut'[i].pids, q)
      BY <2>0, <2>7, AnswersKept DEF Distinct
    <3>2. kh'.at \in {"in", "apply"} => OnceIn(kh'.pids, q)
      BY <1>0, <2>0 DEF Distinct
    <3> QED BY <3>1, <3>2, Zenon DEF Distinct, OnceIn
  <2>10. AskedInv(q)'
    <3>1. CASE ~Names(m, {"SWAP_IN"}, q)
      <4>1. AsksOn(q)
        BY <1>0, <1>3, <1>6, <3>1 DEF AsksOn
      <4>2. q \in swapped' => \/ q \in swapped
                              \/ /\ kmIn # <<>> /\ kmIn' = Tail(kmIn)
                                 /\ Head(kmIn).op = "SWAP_OUT" /\ q \in Range(Head(kmIn).pids)
        BY <1>0
      <4>3. (q \in swapped' /\ q \in swapped /\ state[q] = "SUSP_READY" /\ q \in Range(suspended) /\ ~Killed(q))
               => state'[q] = "SUSP_READY" /\ q \in Range(suspended') /\ ~Killed(q)'
        BY <1>0, <2>1
      <4> QED BY <2>0, <4>1, <4>2, <4>3, AskedKept, Zenon
    <3>2. CASE Names(m, {"SWAP_IN"}, q)
      <4>0. state[q] = "SUSP_READY" /\ q \in Range(suspended)
        BY <1>3, <3>2 DEF Names
      <4> SUFFICES ASSUME NEW i \in DOMAIN kmIn', Asked(q, i)'
                   PROVE  /\ \A j \in 1 .. (i - 1) : ~(kmIn'[j].op = "SWAP_OUT" /\ q \in Range(kmIn'[j].pids))
                          /\ OnceIn(kmIn'[i].pids, q)
                          /\ q \in swapped' => state'[q] = "SUSP_READY" /\ q \in Range(suspended') /\ ~Killed(q)'
        BY DEF AskedInv, OnceIn
      <4>1. /\ kmIn'[i].op = "SWAP_IN" /\ q \in Range(kmIn'[i].pids) /\ q \notin ended
            /\ \A j \in 1 .. (i - 1) : ~Ends(kmIn'[j], q)
        BY <1>0 DEF Asked, Ends
      <4>2. \/ i \in DOMAIN kmIn /\ kmIn'[i] = kmIn[i]
            \/ i = Len(kmIn) + 1 /\ kmIn'[i] = m
        BY <1>1, <1>3, <1>6, Comes
      <4>3. \A j \in 1 .. (i - 1) : j \in DOMAIN kmIn /\ kmIn'[j] = kmIn[j]
        BY <1>1, <1>6, <4>2
      <4>4. CASE i \in DOMAIN kmIn /\ kmIn'[i] = kmIn[i]
        <5>1. Asked(q, i)
          BY <4>1, <4>3, <4>4 DEF Asked
        <5>2. /\ \A j \in 1 .. (i - 1) : ~(kmIn[j].op = "SWAP_OUT" /\ q \in Range(kmIn[j].pids))
              /\ OnceIn(kmIn[i].pids, q)
              /\ q \in swapped => state[q] = "SUSP_READY" /\ q \in Range(suspended) /\ ~Killed(q)
          BY <2>0, <4>4, <5>1 DEF AskedInv
        <5> QED BY <1>0, <2>1, <4>3, <4>4, <5>2
      <4>5. CASE i = Len(kmIn) + 1 /\ kmIn'[i] = m
        <5>1. \A j \in DOMAIN kmIn : ~Ends(kmIn[j], q)
          <6>1. DOMAIN kmIn = 1 .. (i - 1)
            BY <1>1, <4>5
          <6> QED BY <4>1, <4>3, <6>1
        <5>2. ~Killed(q)
          <6>1. Sent(kmIn, {"PROCESS_END"}, q) > 0 <=> \E j \in DOMAIN kmIn : Names(kmIn[j], {"PROCESS_END"}, q)
            BY <1>1, SentFacts
          <6>2. \A j \in DOMAIN kmIn : ~Names(kmIn[j], {"PROCESS_END"}, q)
            BY <5>1 DEF Names, Ends
          <6> QED BY <4>1, <6>1, <6>2 DEF Killed
        <5>3. OutAsked(q) = 0 /\ OnceIn(suspended, q)
          BY <2>0, <4>0, <5>2, ListedAlone
        <5>4. \A j \in DOMAIN kmIn : ~Names(kmIn[j], {"SWAP_OUT"}, q)
          <6>1. Sent(kmIn, {"SWAP_OUT"}, q) > 0 <=> \E j \in DOMAIN kmIn : Names(kmIn[j], {"SWAP_OUT"}, q)
            BY <1>1, SentFacts
          <6> QED BY <5>3, <6>1 DEF OutAsked
        <5>5. \A j \in 1 .. (i - 1) : ~(kmIn'[j].op = "SWAP_OUT" /\ q \in Range(kmIn'[j].pids))
          BY <4>3, <5>4 DEF Names
        <5>6. OnceIn(kmIn'[i].pids, q)
          BY <1>3, <4>5, <5>3
        <5> QED BY <1>0, <2>1, <4>0, <5>2, <5>5, <5>6
      <4> QED BY <4>2, <4>4, <4>5
    <3> QED BY <3>1, <3>2
  <2> QED BY <1>0, <2>0, <2>1, <2>4, <2>5, <2>6, <2>8, <2>9, <2>10, MediumKept
<1> QED BY <1>0, <1>5, <1>6

\* The processes that came back are handed to wait_confirmation_swap_in, ...
LEMMA ReceiveInMedium ==
    ASSUME Types, Types', MediumAll, KhInv, ReceiveSwapIn
    PROVE  MediumAll' /\ KhInv'
<1> USE DEF procs, medium, devices, memory
<1>0. /\ kh \in [at : KhPoints, pids : Seq(Proc), dev : Device \cup {NoDevice}, seen : States]
      /\ kmOut \in Seq(FromKm) /\ kmOut' \in Seq(FromKm)
  BY DEF Types, KhTypes, KmTypes
<1>1. /\ UNCHANGED <<state, queued, blocked, suspended, suspending, kmIn, swapped, ended>>
      /\ kh.at = "idle" /\ kmOut # <<>> /\ Head(kmOut).op = "SWAP_IN" /\ kmOut' = Tail(kmOut)
      /\ kh' = [kh EXCEPT !.at = "in", !.pids = Head(kmOut).pids]
  BY DEF ReceiveSwapIn, Receives
<1>2. kh'.at = "in" /\ kh'.pids = Head(kmOut).pids
  BY <1>0, <1>1
<1>3. kmOut[1] = Head(kmOut) /\ 1 \in DOMAIN kmOut
  BY <1>1, Reads
<1>4. KhInv'
  BY <1>2 DEF KhInv
<1>5. ASSUME NEW q \in Proc PROVE MediumInv(q)'
  <2>0. MediumInv(q) /\ Distinct(q)
    BY DEF MediumAll, MediumInv
  <2>1. Killed(q)' <=> Killed(q)
    BY <1>1, KilledSame
  <2>2. StateOn(q)
    BY <1>1, <2>0, <2>1, StateSame
  <2>3. OutAnswered(q)' = OutAnswered(q)
    <3>1. \/ kmOut' = kmOut
          \/ \E x \in FromKm : kmOut' = Append(kmOut, x) /\ ~Names(x, {"SWAP_OUT"}, q)
          \/ kmOut # <<>> /\ kmOut' = Tail(kmOut) /\ ~Names(Head(kmOut), {"SWAP_OUT"}, q)
      BY <1>1 DEF Names
    <3>2. Sent(kmOut', {"SWAP_OUT"}, q) = Sent(kmOut, {"SWAP_OUT"}, q)
      BY <1>0, <3>1, SentSame
    <3> QED BY <3>2 DEF OutAnswered
  <2>4. BackAnswered(q) = BackAnswered(q)' + BackHeld(q)' /\ BackHeld(q) = 0
    <3>1. Sent(kmOut, {"SWAP_IN"}, q) = Sent(Tail(kmOut), {"SWAP_IN"}, q) + One(Names(Head(kmOut), {"SWAP_IN"}, q))
      BY <1>0, <1>1, SentFacts
    <3>2. One(Names(Head(kmOut), {"SWAP_IN"}, q)) = BackHeld(q)'
      BY <1>1, <1>2 DEF One, Names, BackHeld
    <3>3. BackHeld(q) = 0
      BY <1>1 DEF BackHeld, One
    <3> QED BY <1>1, <3>1, <3>2, <3>3 DEF BackAnswered
  <2>5. /\ OutToSend(q)' = OutToSend(q) /\ OutAsked(q)' = OutAsked(q) /\ OutListed(q)' = OutListed(q)
        /\ OutListing(q)' = 0 /\ OutListing(q) = 0 /\ ~Applied(q)' /\ ~Applied(q)
    BY <1>1, <1>2 DEF OutToSend, OutAsked, OutListed, OutListing, Applied, One
  <2>6. One(Applied(q)') = 0 /\ One(Applied(q)) = 0
    BY <2>5 DEF One
  <2>7. SwapOuts(q)' = SwapOuts(q) /\ Backs(q)' = Backs(q)
    BY <2>3, <2>4, <2>5, <2>6, MediumParts, MediumPartsNext
  <2>8. kh'.at \in {"in", "apply"} => OnceIn(kh'.pids, q)
    BY <1>1, <1>2, <1>3, <2>0 DEF Distinct
  <2> QED BY <1>1, <2>0, <2>2, <2>5, <2>7, <2>8, SwapStay
<1> QED BY <1>4, <1>5 DEF MediumAll

\* ... which takes them off suspended_processes one by one, ...
LEMMA NextInMedium ==
    ASSUME Types, Types', MediumAll, KhInv, SwapInNext
    PROVE  MediumAll' /\ KhInv'
<1> USE DEF procs, medium, devices, memory
<1>0. /\ kh \in [at : KhPoints, pids : Seq(Proc), dev : Device \cup {NoDevice}, seen : States]
      /\ suspended \in Seq(Proc) /\ kh.pids \in Seq(Proc)
  BY DEF Types, KhTypes, ProcTypes
<1>1. /\ UNCHANGED <<state, queued, blocked, suspending, kmIn, kmOut, swapped, ended>>
      /\ kh.at = "in"
  BY DEF SwapInNext
<1>2. ASSUME NEW q \in Proc
      PROVE  /\ MediumInv(q) /\ StateOn(q) /\ (kh.at \in {"in", "apply"} => OnceIn(kh.pids, q)) /\ Returning(q)
             /\ OutToSend(q)' = OutToSend(q) /\ OutAsked(q)' = OutAsked(q) /\ OutAnswered(q)' = OutAnswered(q)
             /\ BackAnswered(q)' = BackAnswered(q) /\ OutListing(q) = 0 /\ ~Applied(q) /\ One(Applied(q)) = 0
  <2>1. Killed(q)' <=> Killed(q)
    BY <1>1, KilledSame
  <2>2. MediumInv(q) /\ (kh.at \in {"in", "apply"} => OnceIn(kh.pids, q)) /\ Returning(q)
    BY DEF MediumAll, MediumInv, Distinct
  <2>3. StateOn(q)
    BY <1>1, <2>1, <2>2, StateSame
  <2>4. OutToSend(q)' = OutToSend(q) /\ OutAsked(q)' = OutAsked(q) /\ OutAnswered(q)' = OutAnswered(q)
        /\ BackAnswered(q)' = BackAnswered(q)
    BY <1>1 DEF OutToSend, OutAsked, OutAnswered, BackAnswered
  <2>5. OutListing(q) = 0 /\ ~Applied(q)
    BY <1>1 DEF OutListing, Applied, One
  <2>6. One(Applied(q)) = 0
    BY <2>5 DEF One
  <2> QED BY <2>2, <2>3, <2>4, <2>5, <2>6
<1>3. CASE kh.pids = <<>>
  <2>1. kh' = Idle(kh) /\ UNCHANGED suspended
    BY <1>3 DEF SwapInNext
  <2>2. kh'.at = "idle"
    BY <1>0, <2>1 DEF Idle
  <2>3. ASSUME NEW q \in Proc PROVE MediumInv(q)'
    <3>1. OutListed(q)' = OutListed(q) /\ OutListing(q)' = 0 /\ ~Applied(q)' /\ BackHeld(q)' = 0 /\ BackHeld(q) = 0
      <4>1. q \notin Range(kh.pids)
        BY <1>3 DEF Range
      <4> QED BY <2>1, <2>2, <4>1 DEF OutListed, OutListing, Applied, BackHeld, One
    <3>2. One(Applied(q)') = 0
      BY <3>1 DEF One
    <3>3. SwapOuts(q)' = SwapOuts(q) /\ Backs(q)' = Backs(q)
      BY <1>2, <3>1, <3>2, MediumParts, MediumPartsNext
    <3> QED BY <1>1, <1>2, <2>1, <2>2, <3>1, <3>3, SwapStay
  <2>4. KhInv'
    BY <2>2 DEF KhInv
  <2> QED BY <2>3, <2>4 DEF MediumAll
<1>4. CASE kh.pids # <<>>
  <2>1. PICK p \in Proc : p = Head(kh.pids)
    BY <1>0, <1>4
  <2>2. suspended' = RemoveFirst(suspended, p) /\ kh' = [kh EXCEPT !.at = "apply", !.seen = state[p]]
    BY <1>4, <2>1 DEF SwapInNext
  <2>3. kh'.at = "apply" /\ kh'.seen = state[p] /\ kh'.pids = kh.pids
    BY <1>0, <2>2
  <2>4. p \in Range(kh.pids)
    BY <1>0, <1>4, <2>1 DEF Range
  <2>5. state[p] = "SUSP_READY" /\ p \in Range(suspended) /\ p \notin swapped
    <3>1. BackHeld(p) = 1
      BY <1>1, <2>4 DEF BackHeld, One
    <3>2. Backs(p) = BackAnswered(p) + BackHeld(p) /\ BackAnswered(p) \in Nat
      BY MediumParts
    <3>3. Backs(p) <= 1
      BY <1>2 DEF Returning
    <3>4. Backs(p) = 1
      BY <3>1, <3>2, <3>3
    <3> QED BY <1>1, <1>2, <3>4 DEF Returning
  <2>6. ASSUME NEW q \in Proc PROVE MediumInv(q)'
    <3>1. /\ Applied(q)' <=> q = p
          /\ OutListing(q)' = 0 /\ BackHeld(q)' = BackHeld(q)
      BY <1>1, <2>1, <2>3 DEF Applied, OutListing, BackHeld, One
    <3>2. One(Applied(q)') = IF q = p THEN 1 ELSE 0
      BY <3>1 DEF One
    <3>3. OutListed(q) = OutListed(q)' + (IF q = p THEN 1 ELSE 0)
      <4>1. Times(suspended, q) = Times(RemoveFirst(suspended, p), q) + One(p = q /\ p \in Range(suspended))
        BY <1>0, TimesRemoveFirst
      <4>2. One(p = q /\ p \in Range(suspended)) = IF q = p THEN 1 ELSE 0
        BY <2>5 DEF One
      <4> QED BY <2>2, <4>1, <4>2 DEF OutListed
    <3>4. SwapOuts(q)' = SwapOuts(q) /\ Backs(q)' = Backs(q)
      BY <1>2, <3>1, <3>2, <3>3, MediumParts, MediumPartsNext
    <3>5. q # p /\ q \in Range(suspended) => q \in Range(suspended')
      BY <3>3, MediumParts, MediumPartsNext
    <3>6. /\ q \in Range(suspended) \/ Applied(q) => q \in Range(suspended') \/ Applied(q)'
          /\ q \in swapped => (Applied(q)' => Applied(q)) /\ (q \in Range(suspended) => q \in Range(suspended'))
      BY <1>2, <2>5, <3>1, <3>5
    <3>7. kh'.at \in {"in", "apply"} => OnceIn(kh'.pids, q)
      BY <1>1, <1>2, <2>3
    <3>8. kh.at # "block"
      BY <1>1
    <3> QED BY <1>1, <1>2, <3>4, <3>6, <3>7, <3>8, SwapStay
  <2>7. KhInv'
    BY <2>3, <2>5 DEF KhInv
  <2> QED BY <2>6, <2>7 DEF MediumAll
<1> QED BY <1>3, <1>4

\* ... and sets them READY.
LEMMA ApplyInMedium ==
    ASSUME Types, Types', MediumAll, KhInv, SwapInApply
    PROVE  MediumAll' /\ KhInv'
<1> USE DEF procs, medium, devices, memory
<1>0. /\ kh \in [at : KhPoints, pids : Seq(Proc), dev : Device \cup {NoDevice}, seen : States]
      /\ kh.pids \in Seq(Proc) /\ state \in [Proc -> States] /\ queued \in [Proc -> Nat]
  BY DEF Types, KhTypes, ProcTypes
<1>1. /\ UNCHANGED <<blocked, suspended, suspending, kmIn, kmOut, swapped, ended>>
      /\ kh.at = "apply"
  BY DEF SwapInApply
<1>2. kh.seen = "SUSP_READY" /\ kh.pids # <<>>
  BY <1>1 DEF KhInv, Types, KhTypes
<1>3. PICK p \in Proc : p = Head(kh.pids)
  BY <1>0, <1>2
<1>4. /\ state' = [state EXCEPT ![p] = "READY"] /\ queued' = [queued EXCEPT ![p] = @ + 1]
      /\ kh' = [kh EXCEPT !.at = "in", !.pids = Tail(@)]
  BY <1>2, <1>3 DEF SwapInApply
<1>5. kh'.at = "in" /\ kh'.pids = Tail(kh.pids)
  BY <1>0, <1>4
<1>6. /\ \A i \in DOMAIN Tail(kh.pids) : i \in Nat /\ i + 1 \in DOMAIN kh.pids /\ Tail(kh.pids)[i] = kh.pids[i + 1]
      /\ 1 \in DOMAIN kh.pids /\ kh.pids[1] = p
  BY <1>0, <1>2, <1>3, Comes
<1>7. ASSUME NEW q \in Proc, q # p PROVE q \in Range(Tail(kh.pids)) <=> q \in Range(kh.pids)
  <2>1. Times(kh.pids, q) = Times(Tail(kh.pids), q) + One(Head(kh.pids) = q)
    BY <1>0, <1>2, TimesFacts
  <2>2. One(Head(kh.pids) = q) = 0
    BY <1>3, <1>7 DEF One
  <2>3. Tail(kh.pids) \in Seq(Proc)
    BY <1>0, <1>2
  <2>4. Times(Tail(kh.pids), q) \in Nat /\ (Times(Tail(kh.pids), q) > 0 <=> q \in Range(Tail(kh.pids)))
    BY <2>3, TimesFacts
  <2>5. Times(kh.pids, q) > 0 <=> q \in Range(kh.pids)
    BY <1>0, TimesFacts
  <2> QED BY <2>1, <2>2, <2>4, <2>5
<1>8. ASSUME NEW q \in Proc
      PROVE  /\ MediumInv(q) /\ (Killed(q)' <=> Killed(q)) /\ OnceIn(kh.pids, q)
             /\ OutToSend(q)' = OutToSend(q) /\ OutAsked(q)' = OutAsked(q) /\ OutAnswered(q)' = OutAnswered(q)
             /\ OutListed(q)' = OutListed(q) /\ BackAnswered(q)' = BackAnswered(q)
             /\ OutListing(q) = 0 /\ OutListing(q)' = 0
             /\ (Applied(q) <=> q = p) /\ ~Applied(q)'
             /\ One(Applied(q)) = (IF q = p THEN 1 ELSE 0) /\ One(Applied(q)') = 0
  <2>1. Killed(q)' <=> Killed(q)
    BY <1>1, KilledSame
  <2>2. MediumInv(q) /\ OnceIn(kh.pids, q)
    BY <1>1 DEF MediumAll, MediumInv, Distinct
  <2>3. OutToSend(q)' = OutToSend(q) /\ OutAsked(q)' = OutAsked(q) /\ OutAnswered(q)' = OutAnswered(q)
        /\ OutListed(q)' = OutListed(q) /\ BackAnswered(q)' = BackAnswered(q)
    BY <1>1 DEF OutToSend, OutAsked, OutAnswered, BackAnswered, OutListed
  <2>4. OutListing(q) = 0 /\ OutListing(q)' = 0 /\ (Applied(q) <=> q = p) /\ ~Applied(q)'
    BY <1>1, <1>3, <1>5 DEF OutListing, Applied, One
  <2>5. One(Applied(q)) = (IF q = p THEN 1 ELSE 0) /\ One(Applied(q)') = 0
    BY <2>4 DEF One
  <2> QED BY <2>1, <2>2, <2>3, <2>4, <2>5
<1>9. ASSUME NEW q \in Proc PROVE OnceIn(kh'.pids, q)
  <2>1. OnceIn(kh.pids, q)
    BY <1>8
  <2> SUFFICES ASSUME NEW k \in DOMAIN Tail(kh.pids), NEW l \in DOMAIN Tail(kh.pids),
                      Tail(kh.pids)[k] = q, Tail(kh.pids)[l] = q
               PROVE  k = l
    BY <1>5 DEF OnceIn
  <2>2. /\ k \in Nat /\ k + 1 \in DOMAIN kh.pids /\ kh.pids[k + 1] = q
        /\ l \in Nat /\ l + 1 \in DOMAIN kh.pids /\ kh.pids[l + 1] = q
    BY <1>6
  <2>3. k + 1 = l + 1
    BY <2>1, <2>2 DEF OnceIn
  <2> QED BY <2>2, <2>3
<1>10. ASSUME NEW q \in Proc, q # p PROVE MediumInv(q)'
  <2>1. BackHeld(q)' = BackHeld(q)
    BY <1>1, <1>5, <1>7, <1>10 DEF BackHeld, One
  <2>2. SwapOuts(q)' = SwapOuts(q) /\ Backs(q)' = Backs(q)
    BY <1>8, <1>10, <2>1, MediumParts, MediumPartsNext
  <2>3. state'[q] = state[q] /\ queued'[q] = queued[q] /\ blocked'[q] = blocked[q]
    BY <1>0, <1>1, <1>4, <1>10
  <2>4. StateOn(q)
    BY <1>8, <2>3, StateSame
  <2>5. kh.at # "block" /\ ~Applied(q)
    BY <1>1, <1>8, <1>10
  <2>6. kh'.at \in {"in", "apply"} => OnceIn(kh'.pids, q)
    BY <1>9
  <2> QED BY <1>1, <1>8, <2>2, <2>4, <2>5, <2>6, SwapStay
<1>11. MediumInv(p)'
  <2>0. /\ MediumInv(p) /\ Distinct(p) /\ SwappedOut(p) /\ AskedInv(p) /\ ListedInv(p) /\ Returning(p)
        /\ queued[p] = One(state[p] = "READY")
    BY <1>8 DEF MediumInv
  <2>1. BackHeld(p) = 1
    <3>1. p \in Range(kh.pids)
      BY <1>6 DEF Range
    <3> QED BY <1>1, <3>1 DEF BackHeld, One
  <2>2. Backs(p) = 1 /\ BackAnswered(p) = 0
    <3>1. Backs(p) = BackAnswered(p) + BackHeld(p) /\ BackAnswered(p) \in Nat
      BY MediumParts
    <3>2. Backs(p) <= 1
      BY <2>0 DEF Returning
    <3> QED BY <2>1, <3>1, <3>2
  <2>3. ~Killed(p) /\ state[p] = "SUSP_READY" /\ p \notin swapped
    BY <2>0, <2>2 DEF Returning
  <2>4. SwapOuts(p) = 1
    BY <2>0, <2>3 DEF ListedInv, One
  <2>5. SwapOuts(p) = SwapOuts(p)' + 1
    BY <1>8, MediumParts, MediumPartsNext
  <2>6. Backs(p)' = 0
    <3>1. p \notin Range(Tail(kh.pids))
      <4> SUFFICES ASSUME NEW k \in DOMAIN Tail(kh.pids), Tail(kh.pids)[k] = p PROVE FALSE
        BY DEF Range
      <4>1. k \in Nat /\ k + 1 \in DOMAIN kh.pids /\ kh.pids[k + 1] = p /\ k # 0
        BY <1>0, <1>2, <1>6
      <4>2. k + 1 = 1
        BY <1>6, <1>8, <4>1 DEF OnceIn
      <4> QED BY <4>1, <4>2
    <3>2. BackHeld(p)' = 0
      BY <1>5, <3>1 DEF BackHeld, One
    <3> QED BY <1>8, <2>2, <3>2, MediumPartsNext
  <2>7. state'[p] = "READY" /\ queued'[p] = queued[p] + 1
    BY <1>0, <1>4
  <2>8. queued'[p] = One(state'[p] = "READY")
    BY <2>0, <2>3, <2>7 DEF One
  <2>9. ListedInv(p)'
    <3>1. SwapOuts(p)' = One(state'[p] \in {"SUSP_BLOCK", "SUSP_READY"})
      <4>1. SwapOuts(p)' = 0
        BY <2>4, <2>5, MediumPartsNext
      <4> QED BY <2>7, <4>1 DEF One
    <3>2. p \notin swapped' /\ state'[p] # "BLOCK"
      BY <1>1, <2>3, <2>7
    <3> QED BY <3>1, <3>2, Zenon DEF ListedInv
  <2>10. SwappedOut(p)'
    <3>1. p \notin swapped'
      BY <1>1, <2>3
    <3> QED BY <3>1, Zenon DEF SwappedOut
  <2>11. Returning(p)'
    <3>1. Backs(p)' <= 1 /\ Backs(p)' # 1
      BY <2>6
    <3> QED BY <3>1, Zenon DEF Returning
  <2>12. Distinct(p)'
    <3>1. \A i \in DOMAIN kmOut' : kmOut'[i].op = "SWAP_IN" => OnceIn(kmOut'[i].pids, p)
      BY <1>1, <2>0 DEF Distinct
    <3> QED BY <1>9, <3>1, Zenon DEF Distinct, OnceIn
  <2>13. AskedInv(p)'
    <3>1. AsksOn(p)
      BY <1>1 DEF AsksOn
    <3>2. p \in swapped' => \/ p \in swapped
                            \/ /\ kmIn # <<>> /\ kmIn' = Tail(kmIn)
                               /\ Head(kmIn).op = "SWAP_OUT" /\ p \in Range(Head(kmIn).pids)
      BY <1>1
    <3>3. (p \in swapped' /\ p \in swapped /\ state[p] = "SUSP_READY" /\ p \in Range(suspended) /\ ~Killed(p))
             => state'[p] = "SUSP_READY" /\ p \in Range(suspended') /\ ~Killed(p)'
      BY <2>3
    <3> QED BY <2>0, <3>1, <3>2, <3>3, AskedKept, Zenon
  <2>14. state'[p] # "EXIT"
    BY <2>7
  <2> QED BY <2>8, <2>9, <2>10, <2>11, <2>12, <2>13, <2>14, Zenon DEF MediumInv
<1>12. KhInv'
  BY <1>5 DEF KhInv
<1> QED BY <1>10, <1>11, <1>12 DEF MediumAll

\* Kernel Memory takes a message and leaves the scheduler alone.
KmServes ==
    /\ UNCHANGED <<state, queued, blocked, suspended, suspending, kh>>
    /\ kmIn # <<>> /\ kmIn' = Tail(kmIn)

\* The message it takes is one less on its way.
LEMMA KmCounts ==
    ASSUME Types, Types', NEW q \in Proc, KmServes
    PROVE  /\ OutAsked(q) = OutAsked(q)' + One(Names(Head(kmIn), {"SWAP_OUT"}, q))
           /\ EndsAsked(q) = EndsAsked(q)' + One(Names(Head(kmIn), {"PROCESS_END"}, q))
           /\ OutToSend(q)' = OutToSend(q) /\ OutListing(q)' = OutListing(q) /\ OutListed(q)' = OutListed(q)
           /\ (Applied(q)' <=> Applied(q)) /\ One(Applied(q)') = One(Applied(q)) /\ BackHeld(q)' = BackHeld(q)
<1>1. kmIn \in Seq(ToKm) /\ kmIn # <<>> /\ kmIn' = Tail(kmIn)
  BY DEF Types, KmTypes, KmServes
<1>2. OutAsked(q) = OutAsked(q)' + One(Names(Head(kmIn), {"SWAP_OUT"}, q))
  BY <1>1, SentFacts DEF OutAsked
<1>3. EndsAsked(q) = EndsAsked(q)' + One(Names(Head(kmIn), {"PROCESS_END"}, q))
  BY <1>1, SentFacts DEF EndsAsked
<1>4. /\ OutToSend(q)' = OutToSend(q) /\ OutListing(q)' = OutListing(q) /\ OutListed(q)' = OutListed(q)
      /\ (Applied(q)' <=> Applied(q)) /\ One(Applied(q)') = One(Applied(q)) /\ BackHeld(q)' = BackHeld(q)
  BY DEF KmServes, OutToSend, OutListing, OutListed, Applied, BackHeld
<1> QED BY <1>2, <1>3, <1>4

\* It answers.
LEMMA KmAnswers ==
    ASSUME Types, Types', NEW q \in Proc, NEW a \in FromKm, kmOut' = Append(kmOut, a)
    PROVE  /\ OutAnswered(q)' = OutAnswered(q) + One(Names(a, {"SWAP_OUT"}, q))
           /\ BackAnswered(q)' = BackAnswered(q) + One(Names(a, {"SWAP_IN"}, q))
<1>1. kmOut \in Seq(FromKm)
  BY DEF Types, KmTypes
<1> QED BY <1>1, SentFacts DEF OutAnswered, BackAnswered

\* Nothing changes for q.
LEMMA KmStay ==
    ASSUME Types, Types', NEW q \in Proc, MediumInv(q), KmServes, AsksOn(q),
           Killed(q)' <=> Killed(q), q \in swapped' <=> q \in swapped,
           SwapOuts(q)' = SwapOuts(q), Backs(q)' = Backs(q), Distinct(q)', SwappedOut(q)'
    PROVE  MediumInv(q)'
<1>1. UNCHANGED <<state, queued, blocked, suspended, suspending, kh>>
  BY DEF KmServes
<1>2. StateOn(q)
  BY <1>1, StateSame
<1>3. AskedInv(q)'
  <2>1. AskedInv(q)
    BY DEF MediumInv
  <2>2. q \in swapped' => \/ q \in swapped
                          \/ /\ kmIn # <<>> /\ kmIn' = Tail(kmIn)
                             /\ Head(kmIn).op = "SWAP_OUT" /\ q \in Range(Head(kmIn).pids)
    OBVIOUS
  <2>3. (q \in swapped' /\ q \in swapped /\ state[q] = "SUSP_READY" /\ q \in Range(suspended) /\ ~Killed(q))
           => state'[q] = "SUSP_READY" /\ q \in Range(suspended') /\ ~Killed(q)'
    BY <1>1
  <2> QED BY <2>1, <2>2, <2>3, AskedKept, Zenon
<1>4. Applied(q)' <=> Applied(q)
  BY KmCounts
<1>5. kh.at = "block" /\ q = Head(kh.pids) => blocked'[q] > 0 \/ (kh'.at = "block" /\ q = Head(kh'.pids))
  BY <1>1
<1>6. q \in Range(suspended) \/ Applied(q) => q \in Range(suspended') \/ Applied(q)'
  BY <1>1, <1>4
<1> QED BY <1>2, <1>3, <1>5, <1>6, MediumKept

\* The answers to SWAP_IN name no process twice, if those did that came before.
LEMMA DistinctKept ==
    ASSUME Types, Types', NEW q \in Proc, Distinct(q), kh' = kh,
           kmOut' = kmOut \/ \E a \in FromKm : kmOut' = Append(kmOut, a) /\ (a.op = "SWAP_IN" => OnceIn(a.pids, q))
    PROVE  Distinct(q)'
<1>0. kmOut \in Seq(FromKm)
  BY DEF Types, KmTypes
<1>1. \A i \in DOMAIN kmOut' : kmOut'[i].op = "SWAP_IN" => OnceIn(kmOut'[i].pids, q)
  <2>1. CASE kmOut' = kmOut
    BY <2>1 DEF Distinct
  <2>2. CASE \E a \in FromKm : kmOut' = Append(kmOut, a) /\ (a.op = "SWAP_IN" => OnceIn(a.pids, q))
    <3>1. PICK a \in FromKm : kmOut' = Append(kmOut, a) /\ (a.op = "SWAP_IN" => OnceIn(a.pids, q))
      BY <2>2
    <3>2. \A i \in DOMAIN kmOut' : (i \in DOMAIN kmOut /\ kmOut'[i] = kmOut[i]) \/ kmOut'[i] = a
      BY <1>0, <3>1, Comes
    <3> QED BY <3>1, <3>2 DEF Distinct
  <2> QED BY <2>1, <2>2
<1>2. kh'.at \in {"in", "apply"} => OnceIn(kh'.pids, q)
  BY DEF Distinct
<1> QED BY <1>1, <1>2, Zenon DEF Distinct, OnceIn

\* A process is removed from Kernel Memory.
LEMMA KmEndMedium ==
    ASSUME Types, Types', MediumAll, KernelMemory, Head(kmIn).op = "PROCESS_END"
    PROVE  MediumAll'
<1> USE DEF procs, medium, devices, memory
<1>0. KmServes /\ kmIn # <<>> /\ UNCHANGED <<suspending, kh, swapped, kmOut>> /\ ended' = ended \cup {Head(Head(kmIn).pids)}
  BY DEF KernelMemory, KmServes
<1>1. Head(kmIn) \in ToKm
  BY <1>0 DEF Types, KmTypes
<1>2. PICK p \in Proc : Head(kmIn).pids = <<p>>
  BY <1>1 DEF ToKm, OnePid, Single
<1>3. /\ ended' = ended \cup {p}
      /\ \A ops, q : Names(Head(kmIn), ops, q) <=> "PROCESS_END" \in ops /\ q = p
  <2>1. Range(<<p>>) = {p}
    BY DEF Range
  <2> QED BY <1>0, <1>2, <2>1 DEF Names
<1> SUFFICES ASSUME NEW q \in Proc PROVE MediumInv(q)'
  BY DEF MediumAll
<1>4. MediumInv(q) /\ Distinct(q) /\ SwappedOut(q)
  BY DEF MediumAll, MediumInv
<1>5. One(Names(Head(kmIn), {"SWAP_OUT"}, q)) = 0 /\ One(Names(Head(kmIn), {"PROCESS_END"}, q)) = IF q = p THEN 1 ELSE 0
  BY <1>3 DEF One
<1>6. /\ OutAsked(q)' = OutAsked(q) /\ EndsAsked(q) = EndsAsked(q)' + (IF q = p THEN 1 ELSE 0)
      /\ OutToSend(q)' = OutToSend(q) /\ OutListing(q)' = OutListing(q) /\ OutListed(q)' = OutListed(q)
      /\ (Applied(q)' <=> Applied(q)) /\ One(Applied(q)') = One(Applied(q)) /\ BackHeld(q)' = BackHeld(q)
  <2>1. OutAsked(q)' \in Nat
    BY MediumPartsNext
  <2> QED BY <1>0, <1>5, <2>1, KmCounts
<1>7. OutAnswered(q)' = OutAnswered(q) /\ BackAnswered(q)' = BackAnswered(q)
  BY <1>0 DEF OutAnswered, BackAnswered
<1>8. SwapOuts(q)' = SwapOuts(q) /\ Backs(q)' = Backs(q)
  BY <1>6, <1>7, MediumParts, MediumPartsNext
<1>9. Killed(q)' <=> Killed(q)
  <2>1. /\ EndsAsked(q) \in Nat /\ (Killed(q) <=> q \in ended \/ EndsAsked(q) > 0)
        /\ EndsAsked(q)' \in Nat /\ (Killed(q)' <=> q \in ended' \/ EndsAsked(q)' > 0)
    BY MediumParts, MediumPartsNext
  <2>2. q \in ended' <=> q \in ended \/ q = p
    BY <1>3
  <2> QED BY <1>6, <2>1, <2>2
<1>10. AsksOn(q)
  BY <1>0, <1>3 DEF AsksOn, KmServes, Ends, Names
<1>11. Distinct(q)'
  BY <1>0, <1>4, DistinctKept
<1>12. SwappedOut(q)'
  <2>1. AnswersOn(q)
    BY <1>0 DEF AnswersOn
  <2> QED BY <1>0, <1>4, <1>6, <1>9, <2>1, SwappedKept
<1> QED BY <1>0, <1>4, <1>8, <1>9, <1>10, <1>11, <1>12, KmStay

\* A process is written to SWAP, or is not.
LEMMA KmOutMedium ==
    ASSUME Types, Types', MediumAll, KernelMemory, Head(kmIn).op = "SWAP_OUT"
    PROVE  MediumAll'
<1> USE DEF procs, medium, devices, memory
<1>0. /\ KmServes /\ kmIn # <<>> /\ UNCHANGED <<state, queued, blocked, suspended, suspending, kh, ended>>
      /\ \E ok \in BOOLEAN :
            /\ kmOut' = Append(kmOut, Answer(Head(kmIn).op, Head(kmIn).pids, ok))
            /\ swapped' = IF ok THEN swapped \cup {Head(Head(kmIn).pids)} ELSE swapped
  BY DEF KernelMemory, KmServes
<1>1. Head(kmIn) \in ToKm /\ kmOut \in Seq(FromKm) /\ kmIn' = Tail(kmIn)
  BY <1>0 DEF Types, KmTypes, KmServes
<1>2. PICK p \in Proc : Head(kmIn).pids = <<p>>
  BY <1>1 DEF ToKm, OnePid, Single
<1>3. PICK ok \in BOOLEAN :
            /\ kmOut' = Append(kmOut, Answer("SWAP_OUT", <<p>>, ok))
            /\ swapped' = IF ok THEN swapped \cup {p} ELSE swapped
  <2>1. PICK b \in BOOLEAN :
            /\ kmOut' = Append(kmOut, Answer(Head(kmIn).op, Head(kmIn).pids, b))
            /\ swapped' = IF b THEN swapped \cup {Head(Head(kmIn).pids)} ELSE swapped
    BY <1>0
  <2>2. Head(Head(kmIn).pids) = p
    BY <1>2
  <2>3. kmOut' = Append(kmOut, Answer("SWAP_OUT", <<p>>, b))
    BY <1>2, <2>1
  <2>4. swapped' = IF b THEN swapped \cup {p} ELSE swapped
    BY <2>1, <2>2
  <2> QED BY <2>3, <2>4, Zenon
<1> DEFINE a == Answer("SWAP_OUT", <<p>>, ok)
<1>4. /\ a \in FromKm /\ a.op = "SWAP_OUT" /\ a.ok = ok
      /\ \A ops, q : Names(a, ops, q) <=> "SWAP_OUT" \in ops /\ q = p
      /\ \A ops, q : Names(Head(kmIn), ops, q) <=> "SWAP_OUT" \in ops /\ q = p
  <2>1. Range(<<p>>) = {p} /\ OnePid(<<p>>)
    BY DEF Range, OnePid
  <2>2. a.op = "SWAP_OUT" /\ a.pids = <<p>> /\ a.ok = ok /\ a \in [op : Messages, pids : Seq(Proc), ok : BOOLEAN]
    BY DEF Answer, Messages
  <2> HIDE DEF a
  <2> QED BY <1>2, <2>1, <2>2 DEF Names, FromKm
<1>5. kmOut' = Append(kmOut, a)
  BY <1>3
<1> HIDE DEF a
<1> SUFFICES ASSUME NEW q \in Proc PROVE MediumInv(q)'
  BY DEF MediumAll
<1>6. /\ MediumInv(q) /\ Distinct(q) /\ SwappedOut(q) /\ ListedInv(q) /\ Returning(q) /\ AskedInv(q)
      /\ queued[q] = One(state[q] = "READY") /\ (state[q] = "EXIT" => Killed(q))
  BY DEF MediumAll, MediumInv
<1>7. /\ One(Names(Head(kmIn), {"SWAP_OUT"}, q)) = (IF q = p THEN 1 ELSE 0)
      /\ One(Names(a, {"SWAP_OUT"}, q)) = (IF q = p THEN 1 ELSE 0) /\ One(Names(a, {"SWAP_IN"}, q)) = 0
  BY <1>4 DEF One
<1>8. /\ OutAsked(q) = OutAsked(q)' + (IF q = p THEN 1 ELSE 0)
      /\ OutToSend(q)' = OutToSend(q) /\ OutListing(q)' = OutListing(q) /\ OutListed(q)' = OutListed(q)
      /\ (Applied(q)' <=> Applied(q)) /\ One(Applied(q)') = One(Applied(q)) /\ BackHeld(q)' = BackHeld(q)
  BY <1>0, <1>7, KmCounts
<1>9. OutAnswered(q)' = OutAnswered(q) + (IF q = p THEN 1 ELSE 0) /\ BackAnswered(q)' = BackAnswered(q)
  <2>1. BackAnswered(q) \in Nat
    BY MediumParts
  <2> QED BY <1>4, <1>5, <1>7, <2>1, KmAnswers
<1>10. SwapOuts(q)' = SwapOuts(q) /\ Backs(q)' = Backs(q)
  BY <1>8, <1>9, MediumParts, MediumPartsNext
<1>11. Killed(q)' <=> Killed(q)
  BY <1>0, <1>1, <1>4, KilledSame
<1>12. AsksOn(q)
  BY <1>0, <1>4 DEF AsksOn, KmServes, Ends, Names
<1>13. Distinct(q)'
  BY <1>0, <1>4, <1>5, <1>6, DistinctKept
<1>14. CASE q # p
  <2>1. q \in swapped' <=> q \in swapped
    BY <1>3, <1>14
  <2>2. AnswersOn(q)
    BY <1>4, <1>5, <1>14 DEF AnswersOn
  <2>3. OutAsked(q)' = OutAsked(q)
    BY <1>8, <1>14, MediumPartsNext
  <2>4. SwappedOut(q)'
    BY <1>0, <1>6, <1>8, <1>11, <2>1, <2>2, <2>3, SwappedKept
  <2> QED BY <1>0, <1>6, <1>10, <1>11, <1>12, <1>13, <2>1, <2>4, KmStay
<1>15. CASE q = p
  <2>1. OutAsked(q) > 0
    BY <1>8, <1>15, MediumPartsNext
  <2>2. q \in swapped => Killed(q)
    BY <1>6, <2>1 DEF SwappedOut, OutAsked
  <2>3. ~Killed(q) => /\ state[q] \in {"SUSP_BLOCK", "SUSP_READY"} /\ q \notin suspending
                      /\ OutAsked(q)' = 0 /\ ~Applied(q) /\ OutAnswered(q) = 0 /\ OutListed(q) = 0
    <3> SUFFICES ASSUME ~Killed(q)
                 PROVE  /\ state[q] \in {"SUSP_BLOCK", "SUSP_READY"} /\ q \notin suspending
                        /\ OutAsked(q)' = 0 /\ ~Applied(q) /\ OutAnswered(q) = 0 /\ OutListed(q) = 0
      OBVIOUS
    <3>1. /\ SwapOuts(q) = One(state[q] \in {"SUSP_BLOCK", "SUSP_READY"})
          /\ SwapOuts(q) = OutToSend(q) + OutAsked(q) + OutAnswered(q) + OutListing(q) + OutListed(q) + One(Applied(q))
          /\ OutToSend(q) \in Nat /\ OutAsked(q) \in Nat /\ OutAnswered(q) \in Nat /\ OutListing(q) \in Nat
          /\ OutListed(q) \in Nat /\ One(Applied(q)) \in Nat
      BY <1>6, MediumParts DEF ListedInv
    <3>2. state[q] \in {"SUSP_BLOCK", "SUSP_READY"}
      BY <2>1, <3>1 DEF One
    <3>3. SwapOuts(q) = 1
      BY <3>1, <3>2 DEF One
    <3>4. OutAsked(q) = 1 /\ OutToSend(q) = 0 /\ One(Applied(q)) = 0 /\ OutAnswered(q) = 0 /\ OutListed(q) = 0
      BY <2>1, <3>1, <3>3
    <3>5. OutAsked(q)' = 0
      BY <1>8, <1>15, <3>4, MediumPartsNext
    <3> QED BY <3>2, <3>4, <3>5 DEF OutToSend, One
  <2>4. SwappedOut(q)'
    <3> SUFFICES ASSUME ~Killed(q)', q \in swapped'
                 PROVE  /\ q \notin suspending' /\ OutAsked(q)' = 0 /\ ~Applied(q)'
                        /\ \A i \in DOMAIN kmOut' : kmOut'[i].op = "SWAP_OUT" /\ q \in Range(kmOut'[i].pids) => kmOut'[i].ok
      BY Zenon DEF SwappedOut, OutAsked, Applied
    <3>1. ~Killed(q) /\ ok
      BY <1>3, <1>11, <2>2
    <3>2. \A i \in DOMAIN kmOut : ~(kmOut[i].op = "SWAP_OUT" /\ q \in Range(kmOut[i].pids))
      <4>1. Sent(kmOut, {"SWAP_OUT"}, q) > 0 <=> \E i \in DOMAIN kmOut : Names(kmOut[i], {"SWAP_OUT"}, q)
        BY <1>1, SentFacts
      <4>2. Sent(kmOut, {"SWAP_OUT"}, q) = 0
        BY <2>3, <3>1 DEF OutAnswered
      <4>3. \A i \in DOMAIN kmOut : ~Names(kmOut[i], {"SWAP_OUT"}, q)
        BY <4>1, <4>2
      <4> QED BY <4>3 DEF Names
    <3>3. \A i \in DOMAIN kmOut' : (i \in DOMAIN kmOut /\ kmOut'[i] = kmOut[i]) \/ kmOut'[i] = a
      BY <1>1, <1>4, <1>5, Comes
    <3>4. \A i \in DOMAIN kmOut' : kmOut'[i].op = "SWAP_OUT" /\ q \in Range(kmOut'[i].pids) => kmOut'[i].ok
      BY <1>4, <3>1, <3>2, <3>3
    <3> QED BY <1>0, <1>8, <2>3, <3>1, <3>4
  <2>5. ListedInv(q)'
    <3> SUFFICES ASSUME ~Killed(q)'
                 PROVE  /\ SwapOuts(q)' = One(state'[q] \in {"SUSP_BLOCK", "SUSP_READY"})
                        /\ state'[q] = "BLOCK" => blocked'[q] > 0 \/ (kh'.at = "block" /\ q = Head(kh'.pids))
                        /\ state'[q] \in {"READY", "EXEC", "BLOCK"} => q \notin swapped'
      BY Zenon DEF ListedInv
    <3>1. state[q] \in {"SUSP_BLOCK", "SUSP_READY"}
      BY <1>11, <2>3
    <3>2. SwapOuts(q)' = One(state'[q] \in {"SUSP_BLOCK", "SUSP_READY"})
      BY <1>0, <1>6, <1>10, <1>11 DEF ListedInv
    <3> QED BY <1>0, <3>1, <3>2
  <2>6. Returning(q)'
    <3>1. Backs(q) <= 1 /\ Backs(q) # 1
      <4>1. Backs(q) = 1 => ~Killed(q) /\ (q \in Range(suspended) \/ Applied(q))
        BY <1>6 DEF Returning, Applied
      <4>2. OutListed(q) > 0 <=> q \in Range(suspended)
        BY MediumParts
      <4> QED BY <1>6, <2>3, <4>1, <4>2 DEF Returning
    <3> QED BY <1>10, <3>1, Zenon DEF Returning
  <2>7. AskedInv(q)'
    <3>1. q \in swapped' => \/ q \in swapped
                            \/ /\ kmIn # <<>> /\ kmIn' = Tail(kmIn)
                               /\ Head(kmIn).op = "SWAP_OUT" /\ q \in Range(Head(kmIn).pids)
      <4>1. Names(Head(kmIn), {"SWAP_OUT"}, q)
        BY <1>4, <1>15
      <4> QED BY <1>0, <1>1, <4>1 DEF Names
    <3>2. (q \in swapped' /\ q \in swapped /\ state[q] = "SUSP_READY" /\ q \in Range(suspended) /\ ~Killed(q))
             => state'[q] = "SUSP_READY" /\ q \in Range(suspended') /\ ~Killed(q)'
      BY <1>0, <1>11
    <3> QED BY <1>6, <1>12, <3>1, <3>2, AskedKept, Zenon
  <2>8. queued'[q] = One(state'[q] = "READY") /\ (state'[q] = "EXIT" => Killed(q)')
    BY <1>0, <1>6, <1>11
  <2> QED BY <1>13, <2>4, <2>5, <2>6, <2>7, <2>8, Zenon DEF MediumInv
<1> QED BY <1>14, <1>15

\* Those of the processes of a SWAP_IN that are in SWAP and fit come back.
LEMMA KmInMedium ==
    ASSUME Types, Types', MediumAll, KernelMemory, Head(kmIn).op = "SWAP_IN"
    PROVE  MediumAll'
<1> USE DEF procs, medium, devices, memory
<1>0. /\ KmServes /\ kmIn # <<>> /\ UNCHANGED <<state, queued, blocked, suspended, suspending, kh, ended>>
      /\ \E S \in SUBSET ((Range(Head(kmIn).pids) \cap swapped) \ ended) :
            /\ kmOut' = Append(kmOut, Answer(Head(kmIn).op, Filter(Head(kmIn).pids, S), TRUE))
            /\ swapped' = swapped \ S
  BY DEF KernelMemory, KmServes
<1>1. /\ Head(kmIn) \in ToKm /\ kmOut \in Seq(FromKm) /\ kmIn' = Tail(kmIn)
      /\ kmIn \in Seq(ToKm) /\ 1 \in DOMAIN kmIn /\ kmIn[1] = Head(kmIn)
  BY <1>0 DEF Types, KmTypes, KmServes
<1>2. PICK S \in SUBSET ((Range(Head(kmIn).pids) \cap swapped) \ ended) :
            /\ kmOut' = Append(kmOut, Answer("SWAP_IN", Filter(Head(kmIn).pids, S), TRUE))
            /\ swapped' = swapped \ S
  BY <1>0
<1>3. Head(kmIn).pids \in Seq(Proc)
  BY <1>1 DEF ToKm
<1> DEFINE back == Filter(Head(kmIn).pids, S)
<1>4. /\ back \in Seq(Proc) /\ \A q : q \in Range(back) => q \in S
      /\ \A q \in Proc : OnceIn(Head(kmIn).pids, q) => OnceIn(back, q)
  BY <1>3, FilterIs
<1> HIDE DEF back
<1> DEFINE a == Answer("SWAP_IN", back, TRUE)
<1>5. a \in FromKm /\ a.op = "SWAP_IN" /\ a.pids = back /\ kmOut' = Append(kmOut, a)
  BY <1>2, <1>4 DEF Answer, FromKm, Messages, Single, back
<1> HIDE DEF a
<1> SUFFICES ASSUME NEW q \in Proc PROVE MediumInv(q)'
  BY DEF MediumAll
<1>6. /\ MediumInv(q) /\ Distinct(q) /\ SwappedOut(q) /\ ListedInv(q) /\ Returning(q) /\ AskedInv(q)
      /\ queued[q] = One(state[q] = "READY") /\ (state[q] = "EXIT" => Killed(q))
  BY DEF MediumAll, MediumInv
<1>7. q \in S => /\ q \in swapped /\ Asked(q, 1) /\ OnceIn(Head(kmIn).pids, q)
                 /\ state[q] = "SUSP_READY" /\ q \in Range(suspended) /\ ~Killed(q)
  <2> SUFFICES ASSUME q \in S
               PROVE  /\ q \in swapped /\ Asked(q, 1) /\ OnceIn(Head(kmIn).pids, q)
                      /\ state[q] = "SUSP_READY" /\ q \in Range(suspended) /\ ~Killed(q)
    OBVIOUS
  <2>1. q \in swapped /\ q \in Range(Head(kmIn).pids) /\ q \notin ended
    OBVIOUS
  <2>2. Asked(q, 1)
    BY <1>1, <2>1 DEF Asked
  <2> QED BY <1>1, <1>6, <2>1, <2>2 DEF AskedInv
<1>8. One(Names(Head(kmIn), {"SWAP_OUT"}, q)) = 0 /\ One(Names(a, {"SWAP_OUT"}, q)) = 0
  BY <1>5 DEF One, Names
<1>9. /\ OutAsked(q) = OutAsked(q)'
      /\ OutToSend(q)' = OutToSend(q) /\ OutListing(q)' = OutListing(q) /\ OutListed(q)' = OutListed(q)
      /\ (Applied(q)' <=> Applied(q)) /\ One(Applied(q)') = One(Applied(q)) /\ BackHeld(q)' = BackHeld(q)
  <2>1. OutAsked(q)' \in Nat
    BY MediumPartsNext
  <2> QED BY <1>0, <1>8, <2>1, KmCounts
<1>10. OutAnswered(q)' = OutAnswered(q) /\ BackAnswered(q)' = BackAnswered(q) + One(Names(a, {"SWAP_IN"}, q))
  <2>1. OutAnswered(q) \in Nat
    BY MediumParts
  <2> QED BY <1>5, <1>8, <2>1, KmAnswers
<1>11. SwapOuts(q)' = SwapOuts(q)
  BY <1>9, <1>10, MediumParts, MediumPartsNext
<1>12. Killed(q)' <=> Killed(q)
  <2>1. ~Names(Head(kmIn), {"PROCESS_END"}, q)
    BY DEF Names
  <2> QED BY <1>0, <1>1, <2>1, KilledSame
<1>13. AsksOn(q)
  BY <1>0 DEF AsksOn, KmServes, Ends
<1>14. CASE q \notin S
  <2>1. One(Names(a, {"SWAP_IN"}, q)) = 0 /\ q \notin Range(back)
    BY <1>4, <1>5, <1>14 DEF One, Names
  <2>2. Backs(q)' = Backs(q)
    BY <1>9, <1>10, <2>1, MediumParts, MediumPartsNext
  <2>3. q \in swapped' <=> q \in swapped
    BY <1>2, <1>14
  <2>4. OnceIn(back, q)
    BY <2>1 DEF OnceIn, Range
  <2>5. Distinct(q)'
    BY <1>0, <1>5, <1>6, <2>4, DistinctKept
  <2>6. AnswersOn(q)
    <3>1. ~Names(a, {"SWAP_OUT"}, q) /\ OnceIn(a.pids, q)
      BY <1>5, <2>4 DEF Names
    <3> QED BY <1>5, <3>1 DEF AnswersOn
  <2>7. SwappedOut(q)'
    BY <1>0, <1>6, <1>9, <1>12, <2>3, <2>6, SwappedKept
  <2> QED BY <1>0, <1>6, <1>11, <1>12, <1>13, <2>2, <2>3, <2>5, <2>7, KmStay
<1>15. CASE q \in S
  <2>1. q \notin swapped' /\ q \in swapped
    BY <1>2, <1>7, <1>15
  <2>2. Backs(q) = 0
    <3>1. Backs(q) <= 1 /\ Backs(q) # 1
      BY <1>6, <2>1 DEF Returning
    <3>2. Backs(q) \in Nat
      BY MediumParts
    <3> QED BY <3>1, <3>2
  <2>3. Backs(q)' <= 1
    <3>1. One(Names(a, {"SWAP_IN"}, q)) \in {0, 1}
      BY DEF One
    <3> QED BY <1>9, <1>10, <2>2, <3>1, MediumParts, MediumPartsNext
  <2>4. Returning(q)'
    <3>1. ~Killed(q)' /\ state'[q] = "SUSP_READY" /\ q \notin swapped' /\ q \in Range(suspended')
      BY <1>0, <1>7, <1>12, <1>15, <2>1
    <3> QED BY <2>3, <3>1, Zenon DEF Returning
  <2>5. Distinct(q)'
    <3>1. OnceIn(a.pids, q)
      BY <1>4, <1>5, <1>7, <1>15
    <3> QED BY <1>0, <1>5, <1>6, <3>1, DistinctKept
  <2>6. SwappedOut(q)'
    BY <2>1, Zenon DEF SwappedOut
  <2>7. ListedInv(q)'
    <3>1. SwapOuts(q)' = One(state'[q] \in {"SUSP_BLOCK", "SUSP_READY"})
      BY <1>0, <1>6, <1>7, <1>11, <1>15 DEF ListedInv
    <3>2. state'[q] # "BLOCK" /\ q \notin swapped'
      BY <1>0, <1>7, <1>15, <2>1
    <3> QED BY <3>1, <3>2, Zenon DEF ListedInv
  <2>8. AskedInv(q)'
    <3>1. q \in swapped' => \/ q \in swapped
                            \/ /\ kmIn # <<>> /\ kmIn' = Tail(kmIn)
                               /\ Head(kmIn).op = "SWAP_OUT" /\ q \in Range(Head(kmIn).pids)
      BY <2>1
    <3>2. (q \in swapped' /\ q \in swapped /\ state[q] = "SUSP_READY" /\ q \in Range(suspended) /\ ~Killed(q))
             => state'[q] = "SUSP_READY" /\ q \in Range(suspended') /\ ~Killed(q)'
      BY <2>1
    <3> QED BY <1>6, <1>13, <3>1, <3>2, AskedKept, Zenon
  <2>9. queued'[q] = One(state'[q] = "READY") /\ (state'[q] = "EXIT" => Killed(q)')
    BY <1>0, <1>6, <1>12
  <2> QED BY <2>4, <2>5, <2>6, <2>7, <2>8, <2>9, Zenon DEF MediumInv
<1> QED BY <1>14, <1>15

-----------------------------------------------------------------------------
(* The invariant.                                                          *)

\* Who comes back is SUSP_READY when it is set READY.
LEMMA AppliesHolds ==
    ASSUME Types, KhInv, MediumAll
    PROVE  Applies
<1> SUFFICES ASSUME kh.at = "apply" PROVE kh.seen = "SUSP_READY" /\ state[Head(kh.pids)] = "SUSP_READY"
  BY DEF Applies
<1>1. kh.pids \in Seq(Proc) /\ kh.pids # <<>> /\ kh.seen = "SUSP_READY"
  BY DEF Types, KhTypes, KhInv
<1>2. PICK p \in Proc : p = Head(kh.pids)
  BY <1>1
<1>3. p \in Range(kh.pids)
  BY <1>1, <1>2 DEF Range
<1>4. BackHeld(p) = 1
  BY <1>3 DEF BackHeld, One
<1>5. Backs(p) = BackAnswered(p) + BackHeld(p) /\ BackAnswered(p) \in Nat
  BY MediumParts
<1>6. Returning(p)
  BY DEF MediumAll, MediumInv
<1>7. Backs(p) = 1
  BY <1>4, <1>5, <1>6 DEF Returning
<1> QED BY <1>1, <1>2, <1>6, <1>7 DEF Returning

\* The handler of Kernel Memory is not at the points KhInv is about, or stays there.
LEMMA KhKept ==
    ASSUME KhInv, kh' = kh \/ kh'.at \in Transfers
    PROVE  KhInv'
BY DEF KhInv, Transfers

\* Every step keeps what is known of the medium-term scheduler, ...
LEMMA MediumNext ==
    ASSUME Types, Types', RequestInv, MediumAll, KhInv, [Next]_vars
    PROVE  MediumAll' /\ KhInv'
<1> USE DEF procs, medium, devices, memory
<1>0. kh \in [at : KhPoints, pids : Seq(Proc), dev : Device \cup {NoDevice}, seen : States]
  BY DEF Types, KhTypes
<1>1. ASSUME NEW p \in Proc, Dispatch(p) \/ CpuHandler(p) \/ wait_memory_write_confirmation(p) \/ SendSwapOut(p)
      PROVE  MediumAll' /\ KhInv'
  <2>1. kh' = kh
    BY <1>1 DEF Dispatch, CpuHandler, sleep_syscall_manager, stdin_syscall_manager, stdout_syscall_manager, Block,
                SendMemoryRead, AssignDevice, SendToDevice, wait_memory_write_confirmation, SendSwapOut
  <2>2. MediumAll'
    BY <1>1, CallMedium, SendSwapOutMedium
  <2> QED BY <2>1, <2>2, KhKept
<1>2. ASSUME NEW d \in Device, Connect(d) \/ handle_operation(d) \/ DeviceStops(d) \/ io_handler(d)
      PROVE  MediumAll' /\ KhInv'
  <2>1. kh' = kh
    BY <1>2 DEF Connect, handle_operation, DeviceStops, io_handler, io_finish_process, StdinAnswer, SetAvailable,
                handle_next_operation, SendPending, LoseDevice
  <2>2. MediumAll'
    BY <1>2, DeviceMedium
  <2> QED BY <2>1, <2>2, KhKept
<1>3. CASE suspension_manager \/ MemoryUpdate \/ KernelMemory
  <2>1. kh' = kh
    BY <1>3 DEF suspension_manager, MemoryUpdate, KernelMemory
  <2>2. KernelMemory => Head(kmIn).op \in IoOps \cup {"SWAP_OUT", "SWAP_IN", "PROCESS_END"}
    BY DEF KernelMemory, IoOps
  <2>3. MediumAll'
    BY <1>3, <2>2, SuspensionMedium, TransferMedium, KmOutMedium, KmInMedium, KmEndMedium
  <2> QED BY <2>1, <2>3, KhKept
<1>4. CASE ReceiveRead \/ StdoutAssign \/ StdoutSend \/ ReceiveWrite \/ request_swap_in
  <2>1. \/ kh' = kh \/ kh' = [kh EXCEPT !.at = "assign", !.pids = <<Pid>>] \/ kh' = Idle(kh)
        \/ \E d : kh' = [kh EXCEPT !.at = "send", !.dev = d]
    BY <1>4 DEF ReceiveRead, StdoutAssign, StdoutSend, ReceiveWrite, request_swap_in
  <2>2. kh' = kh \/ kh'.at \in Transfers
    BY <1>0, <2>1 DEF Transfers, Idle
  <2>3. MediumAll'
    BY <1>4, TransferMedium, AskMedium
  <2> QED BY <2>2, <2>3, KhKept
<1>5. CASE \/ wait_confirmation_swap_out \/ ListBlocked \/ ListSuspended
           \/ ReceiveSwapIn \/ SwapInNext \/ SwapInApply
  BY <1>5, ConfirmMedium, ListMedium, ReceiveInMedium, NextInMedium, ApplyInMedium
<1>6. CASE UNCHANGED vars
  <2>1. UNCHANGED <<state, queued, blocked, suspended, suspending, kh, kmIn, kmOut, swapped, ended>>
    BY <1>6 DEF vars
  <2>2. Quiet
    BY <2>1 DEF Quiet
  <2>3. ASSUME NEW q \in Proc PROVE StateOn(q)
    <3>1. Killed(q)' <=> Killed(q)
      BY <2>1, KilledSame
    <3>2. MediumInv(q)
      BY DEF MediumAll
    <3> QED BY <2>1, <3>1, <3>2, StateSame
  <2>4. MediumAll'
    BY <2>2, <2>3, QuietAll
  <2> QED BY <2>1, <2>4, KhKept
<1> QED BY <1>1, <1>2, <1>3, <1>4, <1>5, <1>6 DEF Next, kernel_memory_handler

\* ... and it holds at first: nothing is on its way and every process is READY.
LEMMA MediumInit == Init => MediumAll /\ KhInv
<1> SUFFICES ASSUME Init PROVE MediumAll /\ KhInv
  OBVIOUS
<1>0. /\ state = [p \in Proc |-> "READY"] /\ queued = [p \in Proc |-> 1] /\ suspended = <<>> /\ suspending = {}
      /\ kh.at = "idle" /\ kmIn = <<>> /\ kmOut = <<>> /\ swapped = {} /\ ended = {}
  BY DEF Init, KhIdle
<1>1. KhInv
  BY <1>0 DEF KhInv
<1>2. ASSUME NEW p \in Proc PROVE MediumInv(p)
  <2>1. Times(<<>>, p) = 0 /\ Sent(<<>>, {"SWAP_OUT"}, p) = 0 /\ Sent(<<>>, {"SWAP_IN"}, p) = 0
    BY FS_EmptySet DEF Times, Sent
  <2>2. state[p] = "READY" /\ queued[p] = 1 /\ p \notin suspending /\ p \notin swapped
    BY <1>0
  <2>3. OutToSend(p) = 0 /\ OutAsked(p) = 0 /\ OutAnswered(p) = 0 /\ OutListing(p) = 0 /\ OutListed(p) = 0
        /\ ~Applied(p) /\ BackAnswered(p) = 0 /\ BackHeld(p) = 0
    BY <1>0, <2>1 DEF OutToSend, OutAsked, OutAnswered, OutListing, OutListed, Applied, BackAnswered, BackHeld, One
  <2>4. One(Applied(p)) = 0
    BY <2>3 DEF One
  <2>5. SwapOuts(p) = 0 /\ Backs(p) = 0
    BY <2>3, <2>4, MediumParts, TypesInit
  <2>6. SwapOuts(p) = One(state[p] \in {"SUSP_BLOCK", "SUSP_READY"})
    BY <2>2, <2>5 DEF One
  <2>7. queued[p] = One(state[p] = "READY")
    BY <2>2 DEF One
  <2>8. ListedInv(p) /\ SwappedOut(p)
    BY <2>2, <2>6 DEF ListedInv, SwappedOut
  <2>9. Returning(p)
    BY <2>5 DEF Returning
  <2>10. Distinct(p) /\ AskedInv(p)
    BY <1>0 DEF Distinct, AskedInv
  <2> QED BY <2>2, <2>7, <2>8, <2>9, <2>10 DEF MediumInv
<1> QED BY <1>1, <1>2 DEF MediumAll

\* The inductive invariant holds in every state: requests, the lists of the medium-term
\* scheduler, and the messages to and from Kernel Memory fit together.
THEOREM Invariance == Spec => []IndInv
<1>1. Init => IndInv
  BY TypesInit, RequestInit, MediumInit DEF IndInv, MediumAll
<1>2. IndInv /\ [Next]_vars => IndInv'
  <2> SUFFICES ASSUME IndInv, [Next]_vars PROVE IndInv'
    OBVIOUS
  <2>1. Types /\ RequestInv /\ KhInv /\ MediumAll
    BY DEF IndInv, MediumAll
  <2>2. Types'
    BY <2>1, TypesNext
  <2>3. RequestInv'
    BY <2>1, <2>2, AppliesHolds, RequestNext
  <2>4. MediumAll' /\ KhInv'
    BY <2>1, <2>2, MediumNext
  <2> QED BY <2>2, <2>3, <2>4 DEF IndInv, MediumAll
<1> QED BY <1>1, <1>2, PTL DEF Spec

\* The request of a process that waits for a device or for a transfer of memory is in one
\* place: handed from the CPU's thread to the pending queue, a device, Kernel Memory and
\* back, it is never in two hands and never in none, but when its device left with it.
THEOREM RequestsAreKept == Spec => []OneRequest
<1>1. IndInv => OneRequest
  BY DEF IndInv, RequestInv
<1> QED BY <1>1, Invariance, PTL

\* A process is in the ready queue once while it is READY, and not otherwise: neither
\* io_finish_process nor wait_confirmation_swap_out nor wait_confirmation_swap_in adds a
\* process that another thread has added.
THEOREM NoDoubleReady == Spec => []ReadyOnce
<1>1. IndInv => ReadyOnce
  BY DEF IndInv, MediumInv, ReadyOnce
<1> QED BY <1>1, Invariance, PTL

\* A suspended process is in suspended_processes, or on its way there, once; a process
\* in BLOCK is in block_processes or about to be: the lists that are changed after
\* state_mutex was released still follow the states.
THEOREM ListsFollowStates == Spec => []ListedForState
<1>1. IndInv => ListedForState
  <2> SUFFICES ASSUME IndInv, NEW p \in Proc, ~Killed(p)
               PROVE  /\ SwapOuts(p) = One(state[p] \in {"SUSP_BLOCK", "SUSP_READY"})
                      /\ state[p] = "BLOCK" => blocked[p] > 0 \/ (kh.at = "block" /\ p = Head(kh.pids))
    BY DEF ListedForState
  <2>1. ListedInv(p)
    BY DEF IndInv, MediumInv
  <2> QED BY <2>1 DEF ListedInv
<1> QED BY <1>1, Invariance, PTL

\* A process that is READY, runs or waits in BLOCK has its segments in memory, and
\* wait_confirmation_swap_in sets READY only a process that is still SUSP_READY.
THEOREM InMemoryWhenRunnable == Spec => []NotSwappedOut
<1>1. IndInv => NotSwappedOut
  <2> SUFFICES ASSUME IndInv PROVE NotSwappedOut
    OBVIOUS
  <2>1. Types /\ KhInv /\ MediumAll
    BY DEF IndInv, MediumAll
  <2>2. Applies
    BY <2>1, AppliesHolds
  <2>3. \A p \in Proc : ListedInv(p)
    BY <2>1 DEF MediumAll, MediumInv
  <2> QED BY <2>2, <2>3 DEF NotSwappedOut, Applies, ListedInv
<1> QED BY <1>1, Invariance, PTL
=============================================================================
