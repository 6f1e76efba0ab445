----------------------------- MODULE SegmentMemory -----------------------------
(***************************************************************************)
(* User memory in Kernel Memory: segment tables, the choice of holes,      *)
(* compaction, and suspension to the blocks of SWAP.                       *)
(*                                                                         *)
(* Each SEGMENT_CREATE runs in a thread of its own (thr); the other        *)
(* requests are served by one thread, kernel_scheduler_handler.  Physical  *)
(* memory is one array of bytes, whichever Memory Stick holds them; a byte *)
(* is named by who wrote it: segment id of process p, offset i.  What is   *)
(* left in bytes and blocks that nobody has is not told apart: such a byte *)
(* is Blank.                                                               *)
(* While compact_memory copies a segment it holds no lock: the scheduler   *)
(* tries to keep the CPUs idle meanwhile, but nothing here or there makes  *)
(* sure of it, and a STDIN writes whenever its device answers.  What the   *)
(* properties need of that timing are the last constants.                  *)
(***************************************************************************)
EXTENDS Naturals, Sequences, FiniteSets, SequencesExt

CONSTANTS Proc,              \* a name may stand for one process after another
          Ids,               \* segment ids
          Sizes,             \* sizes programs ask for
          Total,             \* total_memory_size
          Strategy,          \* ALLOCATION_STRATEGY
          BlockSize,         \* swap_block_size
          NumBlocks,         \* swap_total_size / swap_block_size
          SerialAllocation,  \* timing assumption: TRUE means that no other
                             \* SEGMENT_CREATE or SWAP_IN looks for a hole until
                             \* the segment that was given one is in its table
          OneSegmentSwaps,   \* usage assumption: TRUE means that processes with
                             \* several segments are never suspended
          QuietCompaction,   \* timing assumption: TRUE means that while
                             \* compact_memory is at work no process executes
                             \* and no segment is freed
          PromptStdin        \* timing assumption: TRUE means that the segments
                             \* of a process whose STDIN waits for its device
                             \* are neither moved nor suspended

ASSUME MemoryAssumption ==
    /\ Ids \subseteq Nat
    /\ Sizes \subseteq Nat \ {0}
    /\ Total \in Nat \ {0}
    /\ Strategy \in {"BEST", "WORST"}
    /\ BlockSize \in Nat \ {0}
    /\ NumBlocks \in Nat
    /\ SerialAllocation \in BOOLEAN
    /\ OneSegmentSwaps \in BOOLEAN
    /\ QuietCompaction \in BOOLEAN
    /\ PromptStdin \in BOOLEAN

VARIABLES
    live,      \* the processes in list_processes
    table,     \* t_pcb.segment_table
    mem,       \* the bytes of the Memory Sticks
    thr,       \* the segment_create_thread of each process
    compact,   \* the segments compact_memory has still to place, its cursor,
               \* and what it has read of the next one
    stdin,     \* the STDINs under way: process and segment, as it was then
    swapped,   \* the processes in list_suspended_processes, ...
    suspended, \* ... and the suspended_segments of each
    swapFile,  \* the blocks of SWAP
    written    \* history: the segments their process has filled with data

vars == <<live, table, mem, thr, compact, stdin, swapped, suspended, swapFile, written>>

Addresses == 0 .. (Total - 1)
Blocks == 0 .. (NumBlocks - 1)
Blank == <<>>
Byte(p, id, i) == <<p, id, i>>
Idle == [at |-> "idle", id |-> 0, size |-> 0, base |-> 0]
NoHole == [base |-> Total, size |-> 0]

Bytes(s) == s.base .. (s.base + s.size - 1)

\* The bytes m without those that belong to no segment of the tables.
Keep(m, tables) ==
    [a \in Addresses |->
        IF \E p \in Proc : \E i \in DOMAIN tables[p] : a \in Bytes(tables[p][i])
        THEN m[a] ELSE Blank]

\* The blocks of the suspended segments; the others are cleared.
BlocksOf(segs) == UNION {Range(segs[i].blocks) : i \in DOMAIN segs}
BlankBlock == [j \in 0 .. (BlockSize - 1) |-> Blank]
KeepBlocks(file, susp) ==
    [b \in Blocks |-> IF \E p \in Proc : b \in BlocksOf(susp[p]) THEN file[b] ELSE BlankBlock]

Init ==
    /\ live = {}
    /\ table = [p \in Proc |-> <<>>]
    /\ mem = [a \in Addresses |-> Blank]
    /\ thr = [p \in Proc |-> Idle]
    /\ compact = [todo |-> {}, cursor |-> 0, copy |-> Blank]
    /\ stdin = {}
    /\ swapped = {}
    /\ suspended = [p \in Proc |-> <<>>]
    /\ swapFile = [b \in Blocks |-> BlankBlock]
    /\ written = {}

-----------------------------------------------------------------------------
(* Holes.                                                                  *)

SegmentsOf(tables) == UNION {{tables[p][i] : i \in DOMAIN tables[p]} : p \in Proc}
Segments == SegmentsOf(table)

\* Where the cursor is when the segments below b have been passed in the order of
\* their bases: at the end of the last of them.
cursor(b) ==
    LET below == {s \in Segments : s.base < b}
        last == CHOOSE s \in below : \A t \in below : t.base <= s.base
    IN  IF below = {} THEN 0 ELSE last.base + last.size

\* The gaps before the segments of all tables, and the one after the last.
get_free_holes ==
    {[base |-> cursor(b), size |-> b - cursor(b)] :
        b \in {e \in {s.base : s \in Segments} \cup {Total} : e > cursor(e)}}

\* Fault: the last byte of the hole is not counted.
select_hole_OffByOne(holes, size) ==
    LET fit == {h \in holes : h.size + 1 >= size}
    IN  IF fit = {} THEN NoHole ELSE CHOOSE h \in fit : TRUE

\* best_fit takes the smallest hole that is large enough, worst_fit the
\* largest; the first one of equal size.
select_hole(holes, size) ==
    LET fit == {h \in holes : h.size >= size}
        Better(g, h) == IF Strategy = "BEST" THEN g.size < h.size ELSE g.size > h.size
    IN  IF fit = {} THEN NoHole
        ELSE CHOOSE h \in fit :
                \A g \in fit : Better(h, g) \/ (h.size = g.size /\ h.base <= g.base)

\* Fault: the space counted is one byte too much.
FreeSpace_OffByOne(holes) == Cardinality(UNION {Bytes(h) : h \in holes}) + 1

\* total_free_space, the sum of the sizes: each hole lies between two neighbouring
\* bases, so no byte is in two.
FreeSpace(holes) == Cardinality(UNION {Bytes(h) : h \in holes})

-----------------------------------------------------------------------------
(* Requests of the Kernel Scheduler.                                       *)

Compacting == \E p \in Proc : thr[p].at \in {"moving", "copying"}

\* What QuietCompaction rules out.
Quiet == QuietCompaction => ~Compacting

Waits(p) == \E e \in stdin : e[1] = p

\* The process may execute: it makes requests and uses its memory.
Runs(p) ==
    /\ p \in live
    /\ p \notin swapped
    /\ thr[p].at = "idle"
    /\ ~Waits(p)

\* A name is used again when nothing is left of the process that had it.
PROCESS_CREATE(p) ==
    /\ p \notin live
    /\ p \notin swapped
    /\ live' = live \cup {p}
    /\ UNCHANGED <<table, mem, thr, compact, stdin, swapped, suspended, swapFile, written>>

\* A process ends by itself or, blocked or suspended, because its STDOUT
\* failed.  The segment table is freed with the PCB; list_suspended_processes
\* is not looked at.
PROCESS_END(p) ==
    /\ p \in live
    /\ thr[p].at = "idle"
    /\ ~Waits(p)
    /\ Quiet
    /\ live' = live \ {p}
    /\ table' = [table EXCEPT ![p] = <<>>]
    /\ mem' = Keep(mem, table')
    /\ written' = {w \in written : w[1] # p}
    /\ UNCHANGED <<thr, compact, stdin, swapped, suspended, swapFile>>

\* SEGMENT_CREATE starts a thread.  Usage assumption: a program does not ask
\* for an id that it has already.
SEGMENT_CREATE(p, id, size) ==
    /\ Runs(p)
    /\ \A i \in DOMAIN table[p] : table[p][i].id # id
    /\ thr' = [thr EXCEPT ![p] = [Idle EXCEPT !.at = "start", !.id = id, !.size = size]]
    /\ UNCHANGED <<live, table, mem, compact, stdin, swapped, suspended, swapFile, written>>

segment_delete(p, id) ==
    /\ Runs(p)
    /\ Quiet
    /\ \E i \in DOMAIN table[p] :
          /\ table[p][i].id = id
          /\ table' = [table EXCEPT ![p] = RemoveAt(@, i)]
    /\ mem' = Keep(mem, table')
    /\ written' = written \ {<<p, id>>}
    /\ UNCHANGED <<live, thr, compact, stdin, swapped, suspended, swapFile>>

\* The memory after process p has filled the bytes that s names.
Filled(p, s) ==
    [a \in Addresses |-> IF a \in Bytes(s) THEN Byte(p, s.id, a - s.base) ELSE mem[a]]

\* The process fills a segment through its CPU.
MemoryWrite(p, id) ==
    /\ Runs(p)
    /\ Quiet
    /\ <<p, id>> \notin written
    /\ \E k \in DOMAIN table[p] : table[p][k].id = id /\ mem' = Filled(p, table[p][k])
    /\ written' = written \cup {<<p, id>>}
    /\ UNCHANGED <<live, table, thr, compact, stdin, swapped, suspended, swapFile>>

\* STDIN: the CPU translates the address, the process blocks ...
STDIN(p, id) ==
    /\ Runs(p)
    /\ Quiet
    /\ \E k \in DOMAIN table[p] :
          table[p][k].id = id /\ stdin' = stdin \cup {<<p, table[p][k]>>}
    /\ UNCHANGED <<live, table, mem, thr, compact, swapped, suspended, swapFile, written>>

\* ... and what the device read is written to that address, whoever has it.
IO_MEMORY_WRITE(p) ==
    \E e \in stdin :
        /\ e[1] = p
        /\ stdin' = stdin \ {e}
        /\ mem' = Keep(Filled(p, e[2]), table)
        /\ written' = written \cup {<<p, e[2].id>>}
        /\ UNCHANGED <<live, table, thr, compact, swapped, suspended, swapFile>>

-----------------------------------------------------------------------------
(* segment_create, in its thread.                                          *)

\* No segment has been given a hole that its table does not show yet.
AllocatorFree ==
    SerialAllocation => \A p \in Proc : thr[p].at \in {"idle", "start", "failed"}

Choice(p, otherwise) ==
    LET chosen == select_hole(get_free_holes, thr[p].size)
    IN  thr' = [thr EXCEPT ![p] =
                  IF chosen = NoHole THEN [@ EXCEPT !.at = otherwise]
                  ELSE [@ EXCEPT !.at = "insert", !.base = chosen.base]]

\* Without enough free space the answer is SEGMENT_NO_SPACE; without a hole
\* that is large enough COMPACTION_REQUEST is sent.
ChooseHole(p) ==
    /\ thr[p].at = "start"
    /\ AllocatorFree
    /\ IF FreeSpace(get_free_holes) < thr[p].size THEN thr' = [thr EXCEPT ![p] = Idle]
       ELSE Choice(p, "compaction")
    /\ UNCHANGED <<live, table, mem, compact, stdin, swapped, suspended, swapFile, written>>

\* COMPACTION_READY: compact_memory lists all segments (bound: one compaction
\* at a time).
CompactionReady(p) ==
    /\ thr[p].at = "compaction"
    /\ ~Compacting
    /\ thr' = [thr EXCEPT ![p].at = "moving"]
    /\ compact' = [cursor |-> 0, copy |-> Blank,
                   todo |-> {e \in Proc \X Segments :
                                \E i \in DOMAIN table[e[1]] : table[e[1]][i] = e[2]}]
    /\ UNCHANGED <<live, table, mem, stdin, swapped, suspended, swapFile, written>>

\* The next segment, in the order of the bases, and whose it is.
NextSegment == CHOOSE e \in compact.todo : \A f \in compact.todo : e[2].base <= f[2].base

\* What PromptStdin rules out.
Undisturbed(p) == PromptStdin => ~Waits(p)

\* memory_read into a buffer, when the segment is not at the cursor already ...
ReadSegment(p) ==
    /\ thr[p].at = "moving"
    /\ compact.todo # {}
    /\ NextSegment[2].base # compact.cursor
    /\ Undisturbed(NextSegment[1])
    /\ compact' = [compact EXCEPT !.copy =
                     [i \in 0 .. (NextSegment[2].size - 1) |-> mem[NextSegment[2].base + i]]]
    /\ thr' = [thr EXCEPT ![p].at = "copying"]
    /\ UNCHANGED <<live, table, mem, stdin, swapped, suspended, swapFile, written>>

\* Fault: the bytes are written upwards from the last one.
WriteBack_Backwards(to, size) ==
    [a \in Addresses |-> IF a \in to .. (to + size - 1)
                         THEN compact.copy[size - 1 - (a - to)] ELSE mem[a]]

WriteBack(to, size) ==
    [a \in Addresses |-> IF a \in to .. (to + size - 1) THEN compact.copy[a - to] ELSE mem[a]]

\* ... then memory_write at the cursor, and the base is changed.
MoveSegment(p) ==
    /\ \/ thr[p].at = "copying" /\ Undisturbed(NextSegment[1])
       \/ thr[p].at = "moving" /\ compact.todo # {} /\ NextSegment[2].base = compact.cursor
    /\ LET q == NextSegment[1]
           s == NextSegment[2]
       IN  /\ table' = [table EXCEPT ![q] =
                          [i \in DOMAIN @ |-> IF @[i] = s THEN [s EXCEPT !.base = compact.cursor]
                                              ELSE @[i]]]
           /\ mem' = IF thr[p].at = "moving" THEN mem
                     ELSE Keep(WriteBack(compact.cursor, s.size), table')
           /\ compact' = [todo |-> compact.todo \ {NextSegment}, copy |-> Blank,
                          cursor |-> compact.cursor + s.size]
           /\ thr' = [thr EXCEPT ![p].at = "moving"]
    /\ UNCHANGED <<live, stdin, swapped, suspended, swapFile, written>>

\* COMPACTION_FINISHED is sent and a hole looked for again.
CompactionFinished(p) ==
    /\ thr[p].at = "moving"
    /\ compact.todo = {}
    /\ Choice(p, "failed")
    /\ UNCHANGED <<live, table, mem, compact, stdin, swapped, suspended, swapFile, written>>

\* The segment enters the table, at the base chosen before.
InsertSegment(p) ==
    /\ thr[p].at = "insert"
    /\ table' = [table EXCEPT ![p] =
                   Append(@, [id |-> thr[p].id, base |-> thr[p].base, size |-> thr[p].size])]
    /\ thr' = [thr EXCEPT ![p] = Idle]
    /\ UNCHANGED <<live, mem, compact, stdin, swapped, suspended, swapFile, written>>

-----------------------------------------------------------------------------
(* Suspension.                                                             *)

\* The first blocks of free, in their order.
FirstBlocks(free, needed) ==
    IF Cardinality(free) < needed THEN <<>>
    ELSE [k \in 1 .. needed |-> CHOOSE b \in free : Cardinality({c \in free : c < b}) = k - 1]

\* Fault: the blocks of suspended processes are not skipped.
get_free_swap_blocks_Reused(needed) ==
    IF NumBlocks < needed THEN <<>> ELSE [k \in 1 .. needed |-> k - 1]

\* Fault: one block too many is looked at.
get_free_swap_blocks_PastEnd(needed) ==
    FirstBlocks((0 .. NumBlocks) \ UNION {BlocksOf(suspended[p]) : p \in Proc}, needed)

\* The first free blocks; <<>> when there are too few.  A block is used when
\* a suspended process has it.
get_free_swap_blocks(needed) ==
    FirstBlocks(Blocks \ UNION {BlocksOf(suspended[p]) : p \in Proc}, needed)

\* The last segment of the list that has x, when they are handled in order.
LastWith(n, Has(_)) == CHOOSE i \in 1 .. n : Has(i) /\ \A j \in (i + 1) .. n : ~Has(j)

\* process_suspend: each segment gets its blocks while the process is not yet
\* in list_suspended_processes.  Without blocks for one of them SWAP_OUT is
\* refused.
process_suspend(p) ==
    LET segs == table[p]
        needed(i) == (segs[i].size + BlockSize - 1) \div BlockSize
        out == [i \in DOMAIN segs |->
                  [id |-> segs[i].id, size |-> segs[i].size,
                   blocks |-> get_free_swap_blocks(needed(i))]]
        \* Segments that got blocks before one did not.
        done == {i \in DOMAIN segs : \A j \in 1 .. i : out[j].blocks # <<>>}
        n == Cardinality(done)
        \* The k-th block of segment i, padded with zeroes.
        chunk(i, k) == [j \in 0 .. (BlockSize - 1) |->
                          LET at == (k - 1) * BlockSize + j
                          IN  IF at < segs[i].size THEN mem[segs[i].base + at] ELSE Blank]
    IN  /\ p \in live \ swapped
        /\ thr[p].at = "idle"
        /\ Quiet
        /\ Undisturbed(p)
        /\ OneSegmentSwaps => Len(segs) <= 1
        /\ IF n = Len(segs)
           THEN /\ swapped' = swapped \cup {p}
                /\ suspended' = [suspended EXCEPT ![p] = out]
                /\ table' = [table EXCEPT ![p] = <<>>]
           ELSE UNCHANGED <<swapped, suspended, table>>
        /\ swapFile' = KeepBlocks([b \in Blocks |->
                          LET Has(i) == b \in Range(out[i].blocks)
                          IN  IF \E i \in done : Has(i)
                              THEN LET i == LastWith(n, Has)
                                   IN  chunk(i, CHOOSE k \in DOMAIN out[i].blocks :
                                                   out[i].blocks[k] = b)
                              ELSE swapFile[b]], suspended')
        /\ mem' = Keep(mem, table')
        /\ UNCHANGED <<live, thr, compact, stdin, written>>

\* process_desuspend: each segment gets a hole and is read back while the
\* table of the process is still empty.  Without a hole for one of them, or
\* when the process has ended, it stays suspended.
process_desuspend(p) ==
    LET segs == suspended[p]
        place == [i \in DOMAIN segs |->
                    [id |-> segs[i].id, size |-> segs[i].size,
                     base |-> select_hole(get_free_holes, segs[i].size).base]]
        done == {i \in DOMAIN segs : \A j \in 1 .. i : place[j].base # NoHole.base}
        n == Cardinality(done)
    IN  /\ p \in swapped
        /\ ~Waits(p)
        /\ AllocatorFree
        /\ IF n = Len(segs) /\ p \in live
           THEN /\ swapped' = swapped \ {p}
                /\ suspended' = [suspended EXCEPT ![p] = <<>>]
                /\ table' = [table EXCEPT ![p] = place]
           ELSE UNCHANGED <<swapped, suspended, table>>
        /\ mem' = Keep([a \in Addresses |->
                     LET Has(i) == a \in Bytes(place[i])
                     IN  IF \E i \in done : Has(i)
                         THEN LET i == LastWith(n, Has)
                                  at == a - place[i].base
                              IN  swapFile[segs[i].blocks[at \div BlockSize + 1]][at % BlockSize]
                         ELSE mem[a]], table')
        /\ swapFile' = KeepBlocks(swapFile, suspended')
        /\ UNCHANGED <<live, thr, compact, stdin, written>>

-----------------------------------------------------------------------------
Next ==
    \E p \in Proc :
        \/ PROCESS_CREATE(p) \/ PROCESS_END(p)
        \/ \E id \in Ids : \/ \E size \in Sizes : SEGMENT_CREATE(p, id, size)
                           \/ segment_delete(p, id)
                           \/ MemoryWrite(p, id) \/ STDIN(p, id)
        \/ IO_MEMORY_WRITE(p)
        \/ ChooseHole(p) \/ CompactionReady(p) \/ ReadSegment(p) \/ MoveSegment(p)
        \/ CompactionFinished(p) \/ InsertSegment(p)
        \/ process_suspend(p) \/ process_desuspend(p)

Spec == Init /\ [][Next]_vars

-----------------------------------------------------------------------------
(* Properties.                                                             *)

\* Every variable keeps the type of the structure it stands for; every base
\* is an address and every swap block exists.
TypeOK ==
    /\ live \subseteq Proc
    /\ \A p \in Proc : \A i \in DOMAIN table[p] :
          table[p][i] \in [id : Ids, base : Addresses, size : Sizes]
    /\ \A p \in Proc : thr[p].at \in
          {"idle", "start", "compaction", "moving", "copying", "insert", "failed"}
    /\ swapped \subseteq Proc
    /\ compact.cursor \in 0 .. Total
    /\ stdin \subseteq Proc \X [id : Ids, base : Addresses, size : Sizes]
    /\ \A p \in Proc : \A i \in DOMAIN suspended[p] :
          Range(suspended[p][i].blocks) \subseteq Blocks
    /\ written \subseteq Proc \X Ids

\* No byte belongs to two segments, whatever allocations, deletions, swaps
\* and moves came before, and every segment lies inside the memory: a
\* process cannot reach the data of another one through its segment table.
NoOverlap ==
    /\ \A s \in Segments : Bytes(s) \subseteq Addresses
    /\ \A p, q \in Proc : \A i \in DOMAIN table[p], j \in DOMAIN table[q] :
          Bytes(table[p][i]) \cap Bytes(table[q][j]) # {} => p = q /\ i = j

\* A segment keeps its data: in memory, between the steps of a compaction,
\* after it went to SWAP and came back, and whatever others write.
DataIntact ==
    \A p \in Proc : \A k \in DOMAIN table[p] :
        LET s == table[p][k]
        IN  <<p, s.id>> \in written =>
                \A i \in 0 .. (s.size - 1) : mem[s.base + i] = Byte(p, s.id, i)

\* ... and in SWAP: the blocks of a suspended segment hold its data.
SuspendedDataIntact ==
    \A p \in Proc : \A k \in DOMAIN suspended[p] :
        LET s == suspended[p][k]
        IN  <<p, s.id>> \in written =>
                \A i \in 0 .. (s.size - 1) :
                    swapFile[s.blocks[i \div BlockSize + 1]][i % BlockSize] = Byte(p, s.id, i)

\* segment_create does not fail after a compaction: when there is enough
\* free space in all, compaction makes a hole that is large enough.
CompactionSuffices == \A p \in Proc : thr[p].at # "failed"
==============================================================================
