------------------------------ MODULE FlatMemory ------------------------------
(***************************************************************************)
(* What the Memory Sticks together promise to Kernel Memory and to the     *)
(* CPUs: one array of bytes that only grows, of which each client sees a   *)
(* growing prefix, and accesses that go through it from left to right.  It *)
(* is the memory that SegmentMemory allocates.  The promise ends when a    *)
(* Memory Stick is lost (corrupted).                                       *)
(***************************************************************************)
EXTENDS Naturals, Sequences

CONSTANTS Client,
          Grain,      \* the sizes by which memory may grow
          Access(_)   \* the accesses a client may ask for: kind, addr, data

VARIABLES bytes,      \* the contents of memory
          visible,    \* how many of them each client can address
          op,         \* the access of each client
          corrupted

vars == <<bytes, visible, op, corrupted>>

Nothing == [at |-> "idle", kind |-> "read", addr |-> 0, size |-> 0, data |-> <<>>, done |-> 0]

Init ==
    /\ bytes = <<>>
    /\ visible = [c \in Client |-> 0]
    /\ op = [c \in Client |-> Nothing]
    /\ corrupted = FALSE

\* New memory comes after the old, with all bytes 0.
Grow ==
    /\ \E n \in Grain : bytes' = bytes \o [i \in 1 .. n |-> 0]
    /\ \A c \in Client : visible'[c] \in visible[c] .. Len(bytes')
    /\ UNCHANGED <<op, corrupted>>

See(c) ==
    /\ \E n \in visible[c] .. Len(bytes) : visible' = [visible EXCEPT ![c] = n]
    /\ UNCHANGED <<bytes, op, corrupted>>

Begin(c) ==
    /\ op[c].at # "active"
    /\ \E a \in Access(c) : op' = [op EXCEPT ![c] = a]
    /\ UNCHANGED <<bytes, visible, corrupted>>

\* The next n bytes of the access, those of the prefix that c sees.
Transfer(c) ==
    LET o == op[c]
        from == o.addr + o.done
    IN  /\ o.at = "active"
        /\ \E n \in 1 .. (o.size - o.done) :
              /\ from + n <= visible[c]
              /\ \/ /\ o.kind = "read"
                    /\ op' = [op EXCEPT ![c].done = @ + n,
                                        ![c].data = @ \o SubSeq(bytes, from + 1, from + n)]
                    /\ UNCHANGED bytes
                 \/ /\ o.kind = "write"
                    /\ op' = [op EXCEPT ![c].done = @ + n]
                    /\ bytes' = [i \in DOMAIN bytes |->
                                   IF i \in from + 1 .. from + n THEN o.data[i - o.addr] ELSE bytes[i]]
        /\ UNCHANGED <<visible, corrupted>>

\* An access succeeds when all of it was done, and fails only at an address
\* that its client cannot see.
Finish(c) ==
    /\ op[c].at = "active"
    /\ \/ op[c].done = op[c].size /\ op' = [op EXCEPT ![c].at = "done"]
       \/ op[c].addr + op[c].done >= visible[c] /\ op' = [op EXCEPT ![c].at = "failed"]
    /\ UNCHANGED <<bytes, visible, corrupted>>

Corrupt == corrupted'

Next ==
    \/ Corrupt \/ Grow
    \/ \E c \in Client : See(c) \/ Begin(c) \/ Transfer(c) \/ Finish(c)

Spec == Init /\ [][Next]_vars
===============================================================================
