------------------------- MODULE SegmentMemoryProofs -------------------------
(***************************************************************************)
(* Proofs about SegmentMemory, for any processes, sizes and strategy, when *)
(* allocations are served one by one, only processes with at most one      *)
(* segment are suspended, and nothing is freed or written through a CPU    *)
(* while compact_memory is at work: segments never overlap and compaction  *)
(* makes room for what it was asked for.  When moreover nobody's segments  *)
(* are moved or suspended under a STDIN of his (PromptStdin), data survive *)
(* deletions of neighbours, moves, and the way to SWAP and back.           *)
(***************************************************************************)
EXTENDS SegmentMemory, ListProofs, FiniteSetTheorems

Regime == SerialAllocation /\ OneSegmentSwaps /\ QuietCompaction

Points == {"idle", "start", "compaction", "moving", "copying", "insert", "failed"}
Segment == [id : Ids, base : Addresses, size : Sizes]
Swapped == [id : Ids, size : Sizes, blocks : Seq(Blocks)]

Types ==
    /\ live \subseteq Proc /\ swapped \subseteq Proc
    /\ table \in [Proc -> Seq(Segment)]
    /\ mem = [a \in Addresses |-> mem[a]]
    /\ thr \in [Proc -> [at : Points, id : Nat, size : Nat, base : Nat]]
    /\ compact = [todo |-> compact.todo, cursor |-> compact.cursor, copy |-> compact.copy]
    /\ compact.todo \subseteq Proc \X Segment /\ compact.cursor \in 0 .. Total
    /\ stdin \subseteq Proc \X Segment
    /\ suspended \in [Proc -> Seq(Swapped)]
    /\ swapFile = [b \in Blocks |-> swapFile[b]]
    /\ written \subseteq Proc \X Ids

\* Where the segments of a process are, and that nothing else is recorded of it.
HasId(q, id) == \E i \in DOMAIN q : q[i].id = id
Owner(p) ==
    /\ p \notin live => table[p] = <<>>
    /\ p \in swapped => table[p] = <<>>
    /\ p \notin swapped => suspended[p] = <<>>
    /\ Len(suspended[p]) <= 1
    /\ \A i, j \in DOMAIN table[p] : table[p][i].id = table[p][j].id => i = j
    /\ thr[p].at # "idle" => /\ thr[p].id \in Ids /\ thr[p].size \in Sizes
                             /\ p \in live /\ p \notin swapped /\ ~HasId(table[p], thr[p].id)
    /\ \A id \in Ids : <<p, id>> \in written => HasId(table[p], id) \/ HasId(suspended[p], id)
    /\ \A e \in stdin : e[1] = p => HasId(table[p], e[2].id) \/ HasId(suspended[p], e[2].id)

\* s and t have no byte in common.
Apart(s, t) == s.base + s.size <= t.base \/ t.base + t.size <= s.base

\* Every segment is in memory, and no two have a byte in common.
Layout ==
    /\ \A p \in Proc : \A i \in DOMAIN table[p] : table[p][i].base + table[p][i].size <= Total
    /\ \A p, q \in Proc : \A i \in DOMAIN table[p], j \in DOMAIN table[q] :
          (p = q /\ i = j) \/ Apart(table[p][i], table[q][j])

\* The bytes that belong to a segment.
Occupied(tables) == {a \in Addresses : \E p \in Proc : \E i \in DOMAIN tables[p] : a \in Bytes(tables[p][i])}

\* At most one thread has looked for a hole and not used it yet.
Allocating == {"compaction", "moving", "copying", "insert"}
OneAllocator == \A p, q \in Proc : thr[p].at \in Allocating /\ thr[q].at \in Allocating => p = q

\* The hole it was given stays free, ...
HoleKept ==
    \A p \in Proc : thr[p].at = "insert" =>
        /\ thr[p].base + thr[p].size <= Total
        /\ \A q \in Proc : \A j \in DOMAIN table[q] : Apart(thr[p], table[q][j])

\* ... and while it waits for a compaction there is enough space.
RoomLeft ==
    \A p \in Proc : thr[p].at \in {"compaction", "moving", "copying"} =>
        Cardinality(Occupied(table)) + thr[p].size <= Total

Allocation == OneAllocator /\ HoleKept /\ RoomLeft /\ CompactionSuffices

\* compact_memory has placed the segments below its cursor without a gap; the others
\* have not been moved.
Placed(s) == s.base + s.size <= compact.cursor
Moving ==
    /\ Compacting =>
        /\ \A e \in compact.todo : /\ \E i \in DOMAIN table[e[1]] : table[e[1]][i] = e[2]
                                   /\ compact.cursor <= e[2].base
        /\ \A q \in Proc : \A i \in DOMAIN table[q] :
              <<q, table[q][i]>> \in compact.todo \/ Placed(table[q][i])
        /\ \A a \in 0 .. (compact.cursor - 1) : a \in Occupied(table)
    /\ \A p \in Proc : thr[p].at = "copying" => compact.todo # {}

\* The blocks of a suspended segment are enough for it, and no block is used twice.
Enough(s) == Len(s.blocks) = (s.size + BlockSize - 1) \div BlockSize
OwnBlocks(segs) ==
    \A i \in DOMAIN segs : /\ Enough(segs[i])
                           /\ \A k, l \in DOMAIN segs[i].blocks : segs[i].blocks[k] = segs[i].blocks[l] => k = l
NoneShared(susp) == \A p, q \in Proc : p # q => BlocksOf(susp[p]) \cap BlocksOf(susp[q]) = {}
BlocksApart == (\A p \in Proc : OwnBlocks(suspended[p])) /\ NoneShared(suspended)

\* A STDIN under way will write to a segment that is where it was, ...
StdinKnown ==
    \A e \in stdin : e[1] \notin swapped /\ \E k \in DOMAIN table[e[1]] : table[e[1]][k] = e[2]

\* ... and not to the one that compact_memory has read and not yet written back.
CopyKept ==
    \A p \in Proc : thr[p].at = "copying" =>
        /\ ~Waits(NextSegment[1])
        /\ \A i \in 0 .. (NextSegment[2].size - 1) : compact.copy[i] = mem[NextSegment[2].base + i]

Data == DataIntact /\ SuspendedDataIntact /\ StdinKnown /\ CopyKept

IndInv ==
    /\ Types
    /\ \A p \in Proc : Owner(p)
    /\ Layout
    /\ Allocation
    /\ Moving
    /\ BlocksApart
    /\ PromptStdin => Data
-----------------------------------------------------------------------------
(* Holes.                                                                  *)

LEMMA SizeFacts ==
    ASSUME NEW n \in Sizes
    PROVE  n \in Nat /\ n > 0
<1>1. n \in Nat \ {0}
  BY MemoryAssumption
<1> QED BY <1>1

\* What is known of a segment in a table.
LEMMA SegmentFacts ==
    ASSUME Types, NEW p \in Proc, NEW i \in DOMAIN table[p]
    PROVE  /\ table[p][i] \in Segment /\ table[p][i] \in Segments
           /\ table[p][i].id \in Ids /\ table[p][i].size \in Sizes
           /\ table[p][i].base \in Nat /\ table[p][i].base < Total
           /\ table[p][i].size \in Nat /\ table[p][i].size > 0
<1>1. table[p][i] \in Segment
  BY DEF Types
<1>2. table[p][i] \in Segments
  BY DEF Segments, SegmentsOf
<1> DEFINE s == table[p][i]
<1> HIDE DEF s
<1>3. s.id \in Ids /\ s.size \in Sizes /\ s.base \in Addresses
  BY <1>1 DEF Segment, s
<1>4. s.base \in Nat /\ s.base < Total
  BY <1>3, MemoryAssumption DEF Addresses
<1>5. s.size \in Nat /\ s.size > 0
  BY <1>3, SizeFacts
<1> QED BY <1>1, <1>2, <1>3, <1>4, <1>5 DEF s

LEMMA SegmentsAre ==
    ASSUME NEW s \in Segments
    PROVE  \E p \in Proc : \E i \in DOMAIN table[p] : table[p][i] = s
BY DEF Segments, SegmentsOf

\* The cursor of get_free_holes has passed every segment below b, and is where one ends.
LEMMA CursorPasses ==
    ASSUME Types, Layout, NEW b \in Nat
    PROVE  /\ cursor(b) \in Nat
           /\ \A s \in Segments : s.base < b => s.base + s.size <= cursor(b)
           /\ \/ cursor(b) = 0 /\ \A s \in Segments : s.base >= b
              \/ \E s \in Segments : s.base < b /\ cursor(b) = s.base + s.size
<1> DEFINE below == {s \in Segments : s.base < b}
           last == CHOOSE s \in below : \A t \in below : t.base <= s.base
<1>0. \A s \in Segments : s.base \in Nat /\ s.size \in Nat /\ s.size > 0
  BY SegmentsAre, SegmentFacts
<1>1. CASE below = {}
  <2>1. cursor(b) = 0
    BY <1>1 DEF cursor
  <2> QED BY <1>0, <1>1, <2>1
<1>2. CASE below # {}
  <2> DEFINE D == {b - s.base : s \in below}
  <2>1. D \in SUBSET Nat /\ D # {}
    BY <1>0, <1>2
  <2>2. PICK d \in D : \A e \in D : d <= e
    <3> HIDE DEF D
    <3> QED BY <2>1, LeastNat
  <2>3. \E s \in below : \A t \in below : t.base <= s.base
    <3>1. PICK s \in below : d = b - s.base
      OBVIOUS
    <3>2. ASSUME NEW t \in below PROVE t.base <= s.base
      <4>1. b - s.base <= b - t.base
        BY <2>2, <3>1
      <4> QED BY <4>1, <1>0
    <3> QED BY <3>1, <3>2
  <2>4. last \in below /\ \A t \in below : t.base <= last.base
    BY <2>3
  <2>5. cursor(b) = last.base + last.size
    BY <1>2 DEF cursor
  <2> HIDE DEF last
  <2>6. last \in Segments /\ last.base < b /\ last.base \in Nat /\ last.size \in Nat /\ last.size > 0
    BY <2>4, <1>0
  <2>7. ASSUME NEW s \in Segments, s.base < b
        PROVE  s.base + s.size <= cursor(b)
    <3>1. PICK p \in Proc : \E i \in DOMAIN table[p] : table[p][i] = s
      BY SegmentsAre
    <3>2. PICK i \in DOMAIN table[p] : table[p][i] = s
      BY <3>1
    <3>3. PICK q \in Proc : \E j \in DOMAIN table[q] : table[q][j] = last
      BY <2>6, SegmentsAre
    <3>4. PICK j \in DOMAIN table[q] : table[q][j] = last
      BY <3>3
    <3>5. s = last \/ Apart(s, last)
      BY <3>2, <3>4 DEF Layout
    <3>6. s.base <= last.base /\ s.base \in Nat /\ s.size \in Nat /\ s.size > 0
      BY <2>4, <2>7, <1>0
    <3> QED BY <2>5, <2>6, <3>5, <3>6 DEF Apart
  <2> QED BY <2>5, <2>6, <2>7
<1> QED BY <1>1, <1>2

\* A hole is in memory, and apart from every segment.
LEMMA HoleIsFree ==
    ASSUME Types, Layout, NEW h \in get_free_holes
    PROVE  /\ h.base \in Nat /\ h.size \in Nat /\ h.size > 0 /\ h.base + h.size <= Total
           /\ h = [base |-> h.base, size |-> h.size]
           /\ \A s \in Segments : Apart(h, s)
<1>0. \A s \in Segments : s.base \in Nat /\ s.size \in Nat /\ s.base < Total
  BY SegmentsAre, SegmentFacts
<1>1. PICK b \in {s.base : s \in Segments} \cup {Total} :
         b > cursor(b) /\ h = [base |-> cursor(b), size |-> b - cursor(b)]
  BY DEF get_free_holes
<1>2. b \in Nat /\ b <= Total /\ Total \in Nat
  BY <1>0, MemoryAssumption
<1>3. cursor(b) \in Nat /\ \A s \in Segments : s.base < b => s.base + s.size <= cursor(b)
  BY <1>2, CursorPasses
<1>4. h.base = cursor(b) /\ h.size = b - cursor(b)
  BY <1>1
<1>5. ASSUME NEW s \in Segments PROVE Apart(h, s)
  <2>1. CASE s.base < b
    BY <1>3, <1>4, <2>1 DEF Apart
  <2>2. CASE ~(s.base < b)
    <3>1. h.base + h.size = b
      BY <1>2, <1>3, <1>4
    <3> QED BY <1>0, <1>2, <2>2, <3>1 DEF Apart
  <2> QED BY <2>1, <2>2
<1> QED BY <1>1, <1>2, <1>3, <1>4, <1>5

\* Every byte that belongs to no segment is in a hole.
LEMMA FreeIsInHole ==
    ASSUME Types, Layout, NEW a \in Addresses, a \notin Occupied(table)
    PROVE  \E h \in get_free_holes : a \in Bytes(h)
<1>0. \A s \in Segments : s.base \in Nat /\ s.size \in Nat /\ s.base < Total
  BY SegmentsAre, SegmentFacts
<1> DEFINE ends == {s.base : s \in Segments} \cup {Total}
           above == {e \in ends : e > a}
<1>1. a \in Nat /\ a < Total /\ Total \in Nat
  BY MemoryAssumption DEF Addresses
<1>2. above \in SUBSET Nat /\ above # {}
  BY <1>0, <1>1
<1>3. PICK e \in above : \A f \in above : e <= f
  <2> HIDE DEF above
  <2> QED BY <1>2, LeastNat
<1>4. e \in Nat /\ e > a /\ e \in ends
  BY <1>2, <1>3
<1>5. cursor(e) \in Nat /\ cursor(e) <= a
  <2>1. CASE cursor(e) = 0
    BY <1>1, <2>1
  <2>2. CASE cursor(e) # 0
    <3>1. PICK s \in Segments : s.base < e /\ cursor(e) = s.base + s.size
      BY <1>4, <2>2, CursorPasses
    <3>2. s.base <= a
      <4>1. s.base > a => s.base \in above
        OBVIOUS
      <4>2. s.base > a => e <= s.base
        BY <4>1, <1>3
      <4> QED BY <4>2, <3>1, <1>0, <1>1, <1>4
    <3>3. a \notin Bytes(s)
      BY SegmentsAre DEF Occupied
    <3> QED BY <1>0, <1>1, <3>1, <3>2, <3>3 DEF Bytes
  <2> QED BY <2>1, <2>2
<1> DEFINE h == [base |-> cursor(e), size |-> e - cursor(e)]
<1>6. h \in get_free_holes
  BY <1>1, <1>4, <1>5 DEF get_free_holes
<1>7. h.base = cursor(e) /\ h.size = e - cursor(e)
  OBVIOUS
<1>8. a \in Bytes(h)
  <2> HIDE DEF h
  <2> QED BY <1>1, <1>4, <1>5, <1>7 DEF Bytes
<1> QED BY <1>6, <1>8

\* total_free_space is what the segments leave.
LEMMA FreeSpaceIs ==
    ASSUME Types, Layout
    PROVE  /\ Cardinality(Occupied(table)) \in Nat
           /\ FreeSpace(get_free_holes) = Total - Cardinality(Occupied(table))
<1> DEFINE O == Occupied(table)
           F == UNION {Bytes(h) : h \in get_free_holes}
<1>1. F = Addresses \ O
  <2>1. ASSUME NEW h \in get_free_holes, NEW a \in Bytes(h) PROVE a \in Addresses \ O
    <3>1. /\ h.base \in Nat /\ h.size \in Nat /\ h.base + h.size <= Total
          /\ \A s \in Segments : Apart(h, s)
      BY HoleIsFree
    <3>2. a \in Nat /\ h.base <= a /\ a < h.base + h.size /\ a \in Addresses
      BY <3>1, MemoryAssumption DEF Bytes, Addresses
    <3>3. ASSUME NEW p \in Proc, NEW i \in DOMAIN table[p], a \in Bytes(table[p][i]) PROVE FALSE
      <4>1. table[p][i] \in Segments /\ table[p][i].base \in Nat /\ table[p][i].size \in Nat
        BY SegmentFacts
      <4>2. Apart(h, table[p][i])
        BY <3>1, <4>1
      <4> QED BY <3>1, <3>2, <3>3, <4>1, <4>2 DEF Apart, Bytes
    <3> QED BY <3>2, <3>3 DEF Occupied
  <2>2. \A a \in Addresses \ O : a \in F
    BY FreeIsInHole
  <2> QED BY <2>1, <2>2
<1>2. IsFiniteSet(Addresses) /\ Cardinality(Addresses) = Total
  BY FS_Interval, MemoryAssumption DEF Addresses
<1>3. O \subseteq Addresses
  BY DEF Occupied
<1> HIDE DEF O
<1>4. IsFiniteSet(O) /\ Cardinality(O) \in Nat
  BY <1>2, <1>3, FS_Subset, FS_CardinalityType
<1>5. Cardinality(Addresses \ O) = Cardinality(Addresses) - Cardinality(Addresses \cap O)
  BY <1>2, FS_Difference
<1>6. Addresses \cap O = O
  BY <1>3
<1> QED BY <1>1, <1>2, <1>4, <1>5, <1>6 DEF O, FreeSpace

\* best_fit and worst_fit find a hole that is large enough whenever there is one.
LEMMA SelectedFits ==
    ASSUME Types, Layout, NEW size \in Nat
    PROVE  \/ /\ select_hole(get_free_holes, size) = NoHole
              /\ \A g \in get_free_holes : g.size < size
           \/ /\ select_hole(get_free_holes, size) # NoHole
              /\ select_hole(get_free_holes, size) \in get_free_holes
              /\ select_hole(get_free_holes, size).size >= size
<1> DEFINE fit == {h \in get_free_holes : h.size >= size}
           Better(g, h) == IF Strategy = "BEST" THEN g.size < h.size ELSE g.size > h.size
           h == select_hole(get_free_holes, size)
<1>0. \A g \in get_free_holes : g.base \in Nat /\ g.size \in Nat /\ g.size > 0 /\ g.base + g.size <= Total
  BY HoleIsFree
<1>1. CASE fit = {}
  <2>1. h = NoHole
    BY <1>1 DEF select_hole
  <2> QED BY <1>0, <1>1, <2>1
<1>2. CASE fit # {}
  <2> DEFINE key(g) == IF Strategy = "BEST" THEN g.size ELSE Total - g.size
             K == {key(g) : g \in fit}
  <2>1. K \in SUBSET Nat /\ K # {}
    BY <1>0, <1>2, MemoryAssumption
  <2>2. PICK k \in K : \A l \in K : k <= l
    <3> HIDE DEF K
    <3> QED BY <2>1, LeastNat
  <2> DEFINE B == {g.base : g \in {f \in fit : key(f) = k}}
  <2>3. B \in SUBSET Nat /\ B # {}
    BY <1>0, <2>2
  <2>4. PICK b \in B : \A c \in B : b <= c
    <3> HIDE DEF B
    <3> QED BY <2>3, LeastNat
  <2>5. PICK best \in fit : key(best) = k /\ best.base = b
    BY <2>4
  <2>6. ASSUME NEW g \in fit
        PROVE  Better(best, g) \/ (best.size = g.size /\ best.base <= g.base)
    <3>1. key(best) <= key(g)
      BY <2>2, <2>5
    <3>2. key(best) = key(g) => best.base <= g.base
      BY <2>4, <2>5
    <3>3. g.size \in Nat /\ best.size \in Nat /\ g.size <= Total /\ best.size <= Total
      BY <1>0, MemoryAssumption
    <3> QED BY <3>1, <3>2, <3>3, MemoryAssumption
  <2>7. h = CHOOSE f \in fit : \A g \in fit : Better(f, g) \/ (f.size = g.size /\ f.base <= g.base)
    BY <1>2 DEF select_hole
  <2>8. h \in fit
    <3> HIDE DEF fit, Better, h
    <3> QED BY <2>5, <2>6, <2>7
  <2> HIDE DEF h
  <2>9. h \in get_free_holes /\ h.size >= size /\ h.base < Total
    BY <2>8, <1>0, MemoryAssumption
  <2>10. NoHole.base = Total
    BY DEF NoHole
  <2>11. h # NoHole
    BY <2>9, <2>10, MemoryAssumption
  <2> QED BY <2>9, <2>11 DEF h
<1> QED BY <1>1, <1>2

-----------------------------------------------------------------------------
(* Blocks of SWAP.                                                         *)

\* A finite set of numbers has a k-th element, for every k up to its size.
LEMMA KthExists ==
    ASSUME NEW free \in SUBSET Nat, IsFiniteSet(free), NEW k \in 1 .. Cardinality(free)
    PROVE  \E b \in free : Cardinality({c \in free : c < b}) = k - 1
<1> DEFINE Below(b) == {c \in free : c < b}
           Kth(j) == \E b \in free : Cardinality(Below(b)) = j - 1
           Bad == {j \in 1 .. Cardinality(free) : ~Kth(j)}
<1>0. Cardinality(free) \in Nat /\ \A c \in free : c \in Nat
  BY FS_CardinalityType
<1>1. SUFFICES ASSUME Bad # {} PROVE FALSE
  OBVIOUS
<1>2. PICK j \in Bad : \A i \in Bad : j <= i
  <2>1. Bad \in SUBSET Nat
    BY <1>0
  <2> HIDE DEF Bad
  <2> QED BY <1>1, <2>1, LeastNat
<1>3. j \in 1 .. Cardinality(free) /\ j \in Nat /\ ~Kth(j)
  BY <1>0, <1>2
<1>4. free # {}
  BY <1>0, <1>3, FS_EmptySet
<1>5. CASE j = 1
  <2>1. PICK b \in free : \A c \in free : b <= c
    BY <1>4, LeastNat
  <2>2. Below(b) = {}
    <3>1. \A c \in free : ~(c < b)
      BY <1>0, <2>1
    <3> QED BY <3>1
  <2>3. Cardinality(Below(b)) = 0
    BY <2>2, FS_EmptySet
  <2> HIDE DEF Below
  <2> QED BY <1>3, <1>5, <2>3
<1>6. CASE j # 1
  <2>1. j - 1 \in 1 .. Cardinality(free) /\ j - 1 \notin Bad
    BY <1>0, <1>2, <1>3, <1>6
  <2>2. Kth(j - 1)
    <3> HIDE DEF Kth
    <3> QED BY <2>1
  <2>3. PICK b \in free : Cardinality(Below(b)) = j - 1 - 1
    BY <2>2
  <2> DEFINE upto == Below(b) \cup {b}
  <2>4. IsFiniteSet(Below(b)) /\ b \notin Below(b)
    BY FS_Subset
  <2>5. IsFiniteSet(upto) /\ Cardinality(upto) = j - 1
    <3>1. IsFiniteSet(upto) /\ Cardinality(upto) = Cardinality(Below(b)) + 1
      <4> HIDE DEF Below
      <4> QED BY <2>4, FS_AddElement
    <3> HIDE DEF upto, Below
    <3> QED BY <1>3, <2>3, <3>1
  <2> DEFINE above == {c \in free : c > b}
  <2>6. above # {}
    <3> SUFFICES ASSUME above = {} PROVE FALSE
      OBVIOUS
    <3>0. \A c \in free : c < b \/ c = b
      BY <1>0
    <3>1. free = upto
      BY <3>0
    <3> HIDE DEF upto
    <3> QED BY <1>0, <1>3, <2>5, <3>1
  <2>7. PICK d \in above : \A c \in above : d <= c
    <3>1. above \in SUBSET Nat
      OBVIOUS
    <3> HIDE DEF above
    <3> QED BY <2>6, <3>1, LeastNat
  <2>8. Below(d) = upto
    <3>1. d \in Nat /\ d > b /\ b \in Nat /\ \A c \in free : c > b => d <= c
      BY <1>0, <2>7
    <3>2. \A c \in free : c < d <=> c < b \/ c = b
      BY <1>0, <3>1
    <3> QED BY <3>2
  <2>9. d \in free /\ Cardinality(Below(d)) = j - 1
    <3>1. d \in free
      BY <2>7
    <3> HIDE DEF Below, upto
    <3> QED BY <2>5, <2>8, <3>1
  <2> HIDE DEF Below
  <2> QED BY <1>3, <2>9
<1> QED BY <1>5, <1>6

\* get_free_swap_blocks gives as many different free blocks as are needed, or none.
LEMMA FirstBlocksAre ==
    ASSUME NEW free \in SUBSET Nat, IsFiniteSet(free), NEW needed \in Nat
    PROVE  \/ FirstBlocks(free, needed) = <<>>
           \/ /\ FirstBlocks(free, needed) \in Seq(free)
              /\ Len(FirstBlocks(free, needed)) = needed
              /\ \A k, l \in 1 .. needed :
                    FirstBlocks(free, needed)[k] = FirstBlocks(free, needed)[l] => k = l
<1> DEFINE Kth(k) == CHOOSE b \in free : Cardinality({c \in free : c < b}) = k - 1
           q == [k \in 1 .. needed |-> Kth(k)]
<1>1. CASE Cardinality(free) < needed
  BY <1>1 DEF FirstBlocks
<1>2. CASE ~(Cardinality(free) < needed)
  <2>0. Cardinality(free) \in Nat
    BY FS_CardinalityType
  <2>1. \A k \in 1 .. needed : Kth(k) \in free /\ Cardinality({c \in free : c < Kth(k)}) = k - 1
    <3> SUFFICES ASSUME NEW k \in 1 .. needed
                 PROVE  Kth(k) \in free /\ Cardinality({c \in free : c < Kth(k)}) = k - 1
      OBVIOUS
    <3>1. k \in 1 .. Cardinality(free)
      BY <1>2, <2>0
    <3>2. \E b \in free : Cardinality({c \in free : c < b}) = k - 1
      BY <3>1, KthExists
    <3> QED BY <3>2
  <2>2. FirstBlocks(free, needed) = q
    BY <1>2 DEF FirstBlocks
  <2> HIDE DEF Kth
  <2>3. q \in [1 .. needed -> free]
    BY <2>1
  <2>4. \A k, l \in 1 .. needed : q[k] = q[l] => k = l
    <3> SUFFICES ASSUME NEW k \in 1 .. needed, NEW l \in 1 .. needed, Kth(k) = Kth(l) PROVE k = l
      OBVIOUS
    <3>1. k - 1 = l - 1
      BY <2>1
    <3> QED BY <3>1
  <2> HIDE DEF q
  <2>5. q \in Seq(free) /\ Len(q) = needed
    BY <2>3
  <2> QED BY <2>2, <2>4, <2>5
<1> QED BY <1>1, <1>2

-----------------------------------------------------------------------------
(* Segment tables that change.                                             *)

\* The occupied bytes are finitely many.
LEMMA OccupiedFinite ==
    ASSUME NEW O \in SUBSET Addresses
    PROVE  IsFiniteSet(O) /\ Cardinality(O) \in Nat
<1>1. IsFiniteSet(Addresses)
  BY FS_Interval, MemoryAssumption DEF Addresses
<1> QED BY <1>1, FS_Subset, FS_CardinalityType

\* A segment's bytes are addresses, and a byte of one segment is in no other.
LEMMA BytesOf ==
    ASSUME Types, Layout, NEW p \in Proc, NEW i \in DOMAIN table[p], NEW a \in Bytes(table[p][i])
    PROVE  /\ a \in Addresses /\ a \in Nat
           /\ table[p][i].base <= a /\ a < table[p][i].base + table[p][i].size
<1>1. /\ table[p][i].base \in Nat /\ table[p][i].size \in Nat
      /\ table[p][i].base + table[p][i].size <= Total
  BY SegmentFacts DEF Layout
<1> QED BY <1>1, MemoryAssumption DEF Bytes, Addresses

\* When only entries of one table go, nothing overlaps that did not before, a hole
\* that was given stays free, and no data are lost.
LEMMA Shrunk ==
    ASSUME IndInv, NEW p \in Proc, NEW new \in Seq(Segment), ~Compacting, UNCHANGED <<thr, compact>>,
           table' = [table EXCEPT ![p] = new],
           NEW f \in [DOMAIN new -> DOMAIN table[p]],
           \A i, j \in DOMAIN new : f[i] = f[j] => i = j,
           \A i \in DOMAIN new : new[i] = table[p][f[i]],
           mem' = Keep(mem, table'), written' \subseteq written
    PROVE  /\ table' \in [Proc -> Seq(Segment)] /\ mem' = [a \in Addresses |-> mem'[a]]
           /\ Layout' /\ Allocation' /\ Moving' /\ (PromptStdin => DataIntact')
<1> DEFINE o(q, i) == IF q = p THEN f[i] ELSE i
<1>0. Types /\ Layout /\ Allocation /\ Moving /\ (PromptStdin => DataIntact)
  BY DEF IndInv, Data
<1>1. table' \in [Proc -> Seq(Segment)] /\ \A q \in Proc : table'[q] = IF q = p THEN new ELSE table[q]
  BY <1>0 DEF Types
<1>2. mem' = [a \in Addresses |-> mem'[a]]
  BY DEF Keep
<1>3. \A q \in Proc : \A i \in DOMAIN table'[q] :
         o(q, i) \in DOMAIN table[q] /\ table'[q][i] = table[q][o(q, i)]
  BY <1>1
<1>4. \A q \in Proc : \A i, j \in DOMAIN table'[q] : o(q, i) = o(q, j) => i = j
  BY <1>1
<1> HIDE DEF o
<1>5. Layout'
  <2>1. ASSUME NEW q \in Proc, NEW i \in DOMAIN table'[q]
        PROVE  table'[q][i].base + table'[q][i].size <= Total
    BY <1>0, <1>3 DEF Layout
  <2>2. ASSUME NEW q \in Proc, NEW r \in Proc, NEW i \in DOMAIN table'[q], NEW j \in DOMAIN table'[r]
        PROVE  (q = r /\ i = j) \/ Apart(table'[q][i], table'[r][j])
    <3>1. (q = r /\ o(q, i) = o(r, j)) \/ Apart(table[q][o(q, i)], table[r][o(r, j)])
      BY <1>0, <1>3 DEF Layout
    <3> QED BY <1>3, <1>4, <3>1
  <2> QED BY <2>1, <2>2 DEF Layout, Apart
<1>6. Moving'
  BY DEF Moving, Compacting
<1>7. Allocation'
  <2>1. Cardinality(Occupied(table')) <= Cardinality(Occupied(table))
    <3>1. Occupied(table') \subseteq Occupied(table)
      BY <1>3 DEF Occupied
    <3>2. IsFiniteSet(Occupied(table))
      BY OccupiedFinite DEF Occupied
    <3> QED BY <3>1, <3>2, FS_Subset
  <2>2. Cardinality(Occupied(table')) \in Nat /\ Cardinality(Occupied(table)) \in Nat
    BY OccupiedFinite DEF Occupied
  <2>3. ASSUME NEW q \in Proc, thr[q].at \in {"compaction", "moving", "copying"}
        PROVE  Cardinality(Occupied(table')) + thr[q].size <= Total
    <3>1. Cardinality(Occupied(table)) + thr[q].size <= Total /\ thr[q].size \in Nat
      BY <1>0, <2>3 DEF Allocation, RoomLeft, Types
    <3> QED BY <2>1, <2>2, <3>1, MemoryAssumption
  <2>4. ASSUME NEW q \in Proc, thr[q].at = "insert"
        PROVE  /\ thr[q].base + thr[q].size <= Total
               /\ \A r \in Proc : \A j \in DOMAIN table'[r] : Apart(thr[q], table'[r][j])
    BY <1>0, <1>3, <2>4 DEF Allocation, HoleKept
  <2>5. thr' = thr
    OBVIOUS
  <2>6. HoleKept'
    BY <2>4, <2>5 DEF HoleKept, Apart
  <2>7. RoomLeft'
    BY <2>3, <2>5 DEF RoomLeft, Occupied, Bytes
  <2>8. OneAllocator'
    BY <1>0, <2>5 DEF Allocation, OneAllocator
  <2>9. CompactionSuffices'
    BY <1>0, <2>5 DEF Allocation, CompactionSuffices
  <2> QED BY <2>6, <2>7, <2>8, <2>9 DEF Allocation
<1>8. PromptStdin => DataIntact'
  <2> SUFFICES ASSUME PromptStdin, NEW q \in Proc, NEW k \in DOMAIN table'[q], <<q, table'[q][k].id>> \in written',
                      NEW i \in 0 .. (table'[q][k].size - 1)
               PROVE  mem'[table'[q][k].base + i] = Byte(q, table'[q][k].id, i)
    BY DEF DataIntact, Byte
  <2>1. PICK l \in DOMAIN table[q] : table'[q][k] = table[q][l]
    BY <1>3
  <2> DEFINE s == table[q][l]
  <2>2. s.base \in Nat /\ s.size \in Nat /\ i \in Nat /\ s.base + i \in Bytes(s)
    BY <2>1, SegmentFacts, <1>0 DEF Bytes
  <2>3. s.base + i \in Addresses
    BY <1>0, <2>2, BytesOf
  <2>4. mem'[s.base + i] = mem[s.base + i]
    <3>1. \E r \in Proc : \E j \in DOMAIN table'[r] : s.base + i \in Bytes(table'[r][j])
      BY <2>1, <2>2
    <3> QED BY <2>3, <3>1 DEF Keep
  <2>5. mem[s.base + i] = Byte(q, s.id, i)
    BY <1>0, <2>1 DEF DataIntact
  <2> QED BY <2>1, <2>4, <2>5
<1> QED BY <1>1, <1>2, <1>5, <1>6, <1>7, <1>8

\* ... in particular when all of them go.
LEMMA Emptied ==
    ASSUME IndInv, NEW p \in Proc, ~Compacting, thr' = thr, compact' = compact,
           table' = [table EXCEPT ![p] = <<>>], mem' = Keep(mem, table'), written' \subseteq written
    PROVE  /\ table' \in [Proc -> Seq(Segment)] /\ mem' = [a \in Addresses |-> mem'[a]]
           /\ Layout' /\ Allocation' /\ Moving' /\ (PromptStdin => DataIntact')
<1> DEFINE f == [i \in {} |-> i]
<1>1. <<>> \in Seq(Segment) /\ f \in [DOMAIN <<>> -> DOMAIN table[p]]
      /\ (\A i, j \in DOMAIN <<>> : f[i] = f[j] => i = j) /\ \A i \in DOMAIN <<>> : <<>>[i] = table[p][f[i]]
  OBVIOUS
<1> HIDE DEF f
<1>2. UNCHANGED <<thr, compact>>
  OBVIOUS
<1> QED BY <1>1, <1>2, Shrunk

\* The data in SWAP are kept when neither the lists of blocks nor the blocks change.
LEMMA SwapUntouched ==
    ASSUME SuspendedDataIntact, suspended' = suspended, swapFile' = swapFile, written' \subseteq written
    PROVE  SuspendedDataIntact'
<1> SUFFICES ASSUME NEW q \in Proc, NEW k \in DOMAIN suspended[q], <<q, suspended[q][k].id>> \in written',
                    NEW i \in 0 .. (suspended[q][k].size - 1)
             PROVE  swapFile[suspended[q][k].blocks[i \div BlockSize + 1]][i % BlockSize]
                       = Byte(q, suspended[q][k].id, i)
  BY DEF SuspendedDataIntact, Byte
<1>1. <<q, suspended[q][k].id>> \in written
  OBVIOUS
<1> QED BY <1>1 DEF SuspendedDataIntact

\* What a step that moves no segment keeps.
LEMMA SegmentsKept ==
    ASSUME Layout, BlocksApart, table' = table, suspended' = suspended
    PROVE  Layout' /\ BlocksApart'
<1>1. Layout'
  BY DEF Layout, Apart
<1>2. BlocksApart'
  BY DEF BlocksApart
<1> QED BY <1>1, <1>2

\* The buffer of compact_memory matters only between its read and its write.
LEMMA NothingCopied ==
    ASSUME \A p \in Proc : thr'[p].at # "copying"
    PROVE  CopyKept'
BY DEF CopyKept

LEMMA CopySame ==
    ASSUME CopyKept, \A p \in Proc : thr'[p].at = "copying" => thr[p].at = "copying",
           compact' = compact, mem' = mem, stdin' = stdin
    PROVE  CopyKept'
BY DEF CopyKept, NextSegment, Waits

\* A step that touches no data keeps them.
LEMMA DataSame ==
    ASSUME Data, CopyKept', table' = table, mem' = mem, stdin' = stdin, swapped' = swapped,
           suspended' = suspended, swapFile' = swapFile, written' = written
    PROVE  Data'
<1>1. DataIntact'
  BY DEF Data, DataIntact, Byte
<1>2. SuspendedDataIntact'
  BY SwapUntouched DEF Data
<1>3. StdinKnown'
  BY DEF Data, StdinKnown
<1> QED BY <1>1, <1>2, <1>3 DEF Data

\* What compact_memory knows does not depend on who else is there.
LEMMA MovingKept ==
    ASSUME Moving, table' = table, compact' = compact,
           \A p \in Proc : thr'[p].at \in {"moving", "copying"} => thr'[p].at = thr[p].at
    PROVE  Moving'
BY DEF Moving, Compacting, Placed, Occupied, Bytes

\* While no thread has looked for a hole nothing is promised to any.
LEMMA NoneAllocates ==
    ASSUME \A p \in Proc : thr'[p].at \in {"idle", "start"}
    PROVE  Allocation' /\ Moving'
<1>1. OneAllocator' /\ HoleKept' /\ RoomLeft' /\ CompactionSuffices' /\ Moving'
  BY DEF OneAllocator, Allocating, HoleKept, RoomLeft, CompactionSuffices, Moving, Compacting
<1> QED BY <1>1 DEF Allocation

\* When allocations are served one by one, the threads of the other processes have not
\* looked for a hole.
LEMMA OthersWait ==
    ASSUME Types, Allocation, NEW p \in Proc, thr[p].at \in Allocating
    PROVE  \A q \in Proc : q # p => thr[q].at \in {"idle", "start"}
<1> SUFFICES ASSUME NEW q \in Proc, q # p PROVE thr[q].at \in {"idle", "start"}
  OBVIOUS
<1>1. thr[q].at \in Points
  BY DEF Types
<1>2. thr[q].at \notin Allocating /\ thr[q].at # "failed"
  BY DEF Allocation, OneAllocator, CompactionSuffices
<1> QED BY <1>1, <1>2 DEF Points, Allocating

LEMMA FreeMeansWait ==
    ASSUME SerialAllocation, Allocation, AllocatorFree
    PROVE  \A q \in Proc : thr[q].at \in {"idle", "start"}
BY DEF AllocatorFree, Allocation, CompactionSuffices

\* A step that changes nothing of q keeps what is known of it.
LEMMA OwnerKept ==
    ASSUME NEW q \in Proc, Owner(q), table'[q] = table[q], suspended'[q] = suspended[q],
           thr'[q] = thr[q], q \in live' <=> q \in live, q \in swapped' <=> q \in swapped,
           \A id \in Ids : <<q, id>> \in written' => <<q, id>> \in written,
           \A e \in stdin' : e[1] = q => e \in stdin
    PROVE  Owner(q)'
BY DEF Owner, HasId

-----------------------------------------------------------------------------
(* The actions keep the invariant.                                         *)

LEMMA InitInd == Init => IndInv
<1> SUFFICES ASSUME Init PROVE IndInv
  OBVIOUS
<1> USE DEF Init
<1>0. \A p \in Proc : table[p] = <<>> /\ suspended[p] = <<>> /\ thr[p] = Idle /\ DOMAIN table[p] = {} /\ DOMAIN suspended[p] = {}
  OBVIOUS
<1>1. Types
  <2>1. live \subseteq Proc /\ swapped \subseteq Proc /\ stdin \subseteq Proc \X Segment /\ written \subseteq Proc \X Ids
    OBVIOUS
  <2>2. table \in [Proc -> Seq(Segment)] /\ suspended \in [Proc -> Seq(Swapped)]
    OBVIOUS
  <2>3. mem = [a \in Addresses |-> mem[a]] /\ swapFile = [b \in Blocks |-> swapFile[b]]
    OBVIOUS
  <2>4. thr \in [Proc -> [at : Points, id : Nat, size : Nat, base : Nat]]
    BY DEF Idle, Points
  <2>5. /\ compact = [todo |-> compact.todo, cursor |-> compact.cursor, copy |-> compact.copy]
        /\ compact.todo \subseteq Proc \X Segment /\ compact.cursor \in 0 .. Total
    BY MemoryAssumption
  <2> QED BY <2>1, <2>2, <2>3, <2>4, <2>5 DEF Types
<1>2. \A p \in Proc : Owner(p)
  BY <1>0 DEF Owner, Idle
<1>3. Layout /\ DataIntact /\ SuspendedDataIntact /\ StdinKnown /\ CopyKept
  BY <1>0 DEF Layout, DataIntact, SuspendedDataIntact, StdinKnown, CopyKept, Idle
<1>4. OneAllocator /\ HoleKept /\ RoomLeft /\ CompactionSuffices /\ Moving
  BY <1>0 DEF OneAllocator, Allocating, HoleKept, RoomLeft, CompactionSuffices, Moving, Compacting, Idle
<1>5. BlocksApart
  BY <1>0 DEF BlocksApart, OwnBlocks, NoneShared, BlocksOf
<1> QED BY <1>1, <1>2, <1>3, <1>4, <1>5 DEF IndInv, Allocation, Data

LEMMA ProcessCreateInd ==
    ASSUME IndInv, NEW p \in Proc, PROCESS_CREATE(p)
    PROVE  IndInv'
<1>0. Types /\ (\A q \in Proc : Owner(q)) /\ Layout /\ Allocation /\ Moving /\ BlocksApart /\ (PromptStdin => Data)
  BY DEF IndInv
<1>1. /\ table' = table /\ mem' = mem /\ thr' = thr /\ compact' = compact /\ swapped' = swapped
      /\ suspended' = suspended /\ swapFile' = swapFile /\ written' = written
      /\ live' = live \cup {p} /\ p \notin live /\ p \notin swapped /\ stdin' = stdin
  BY DEF PROCESS_CREATE
<1>2. Layout' /\ BlocksApart' /\ (PromptStdin => Data')
  <2>1. Data => CopyKept'
    BY <1>1, CopySame DEF Data
  <2> QED BY <1>0, <1>1, <2>1, SegmentsKept, DataSame
<1>3. Types'
  BY <1>0, <1>1 DEF Types
<1>4. ASSUME NEW q \in Proc PROVE Owner(q)'
  <2>1. CASE q # p
    BY <1>0, <1>1, <2>1, OwnerKept
  <2>2. CASE q = p
    <3>1. Owner(p) /\ p \notin swapped /\ p \in live' /\ p \notin live
      BY <1>0, <1>1 DEF Types
    <3> QED BY <1>1, <2>2, <3>1 DEF Owner, HasId
  <2> QED BY <2>1, <2>2
<1>5. OneAllocator' /\ HoleKept' /\ RoomLeft' /\ CompactionSuffices'
  <2>1. OneAllocator' /\ CompactionSuffices'
    BY <1>0, <1>1 DEF Allocation, OneAllocator, CompactionSuffices
  <2>2. HoleKept'
    BY <1>0, <1>1 DEF Allocation, HoleKept, Apart
  <2>3. RoomLeft'
    BY <1>0, <1>1 DEF Allocation, RoomLeft, Occupied, Bytes
  <2> QED BY <2>1, <2>2, <2>3
<1>6. Moving'
  BY <1>0, <1>1, MovingKept
<1> QED BY <1>2, <1>3, <1>4, <1>5, <1>6 DEF IndInv, Allocation

LEMMA SegmentCreateInd ==
    ASSUME IndInv, NEW p \in Proc, NEW id \in Ids, NEW size \in Sizes, SEGMENT_CREATE(p, id, size)
    PROVE  IndInv'
<1>0. Types /\ (\A q \in Proc : Owner(q)) /\ Layout /\ Allocation /\ Moving /\ BlocksApart /\ (PromptStdin => Data)
  BY DEF IndInv
<1> DEFINE new == [Idle EXCEPT !.at = "start", !.id = id, !.size = size]
<1>1. /\ table' = table /\ mem' = mem /\ live' = live /\ compact' = compact /\ swapped' = swapped
      /\ suspended' = suspended /\ swapFile' = swapFile /\ written' = written
      /\ thr' = [thr EXCEPT ![p] = new] /\ stdin' = stdin
  BY DEF SEGMENT_CREATE
<1>2. Layout' /\ BlocksApart'
  BY <1>0, <1>1, SegmentsKept
<1>3. id \in Nat /\ size \in Nat
  BY MemoryAssumption, SizeFacts
<1>4. new.at = "start" /\ new.id = id /\ new.size = size /\ new \in [at : Points, id : Nat, size : Nat, base : Nat]
  BY <1>3 DEF Idle, Points
<1> HIDE DEF new
<1>5. thr'[p] = new /\ (\A q \in Proc : q # p => thr'[q] = thr[q])
      /\ thr' \in [Proc -> [at : Points, id : Nat, size : Nat, base : Nat]]
  BY <1>0, <1>1, <1>4 DEF Types
<1>6. Types'
  BY <1>0, <1>1, <1>5 DEF Types
<1>7. ASSUME NEW q \in Proc PROVE Owner(q)'
  <2>1. CASE q # p
    BY <1>0, <1>1, <1>5, <2>1, OwnerKept
  <2>2. CASE q = p
    <3>1. Owner(p) /\ p \notin swapped /\ p \in live /\ ~HasId(table[p], id)
      BY <1>0 DEF SEGMENT_CREATE, Runs, HasId
    <3> QED BY <1>1, <1>4, <1>5, <2>2, <3>1 DEF Owner, HasId
  <2> QED BY <2>1, <2>2
<1>8. Allocation'
  <2>1. OneAllocator'
    BY <1>0, <1>4, <1>5 DEF Allocation, OneAllocator, Allocating
  <2>2. HoleKept'
    BY <1>0, <1>1, <1>4, <1>5 DEF Allocation, HoleKept, Apart
  <2>3. RoomLeft'
    BY <1>0, <1>1, <1>4, <1>5 DEF Allocation, RoomLeft, Occupied, Bytes
  <2>4. CompactionSuffices'
    BY <1>0, <1>4, <1>5 DEF Allocation, CompactionSuffices
  <2> QED BY <2>1, <2>2, <2>3, <2>4 DEF Allocation
<1>9. Moving'
  BY <1>0, <1>1, <1>4, <1>5, MovingKept
<1>10. PromptStdin => Data'
  <2>1. Data => CopyKept'
    BY <1>1, <1>4, <1>5, CopySame DEF Data
  <2> QED BY <1>0, <1>1, <2>1, DataSame
<1> QED BY <1>2, <1>6, <1>7, <1>8, <1>9, <1>10 DEF IndInv

\* PROCESS_END and segment_delete take entries out of a table.
LEMMA ProcessEndInd ==
    ASSUME QuietCompaction, IndInv, NEW p \in Proc, PROCESS_END(p)
    PROVE  IndInv'
<1>0. Types /\ (\A q \in Proc : Owner(q)) /\ Layout /\ Allocation /\ Moving /\ BlocksApart /\ (PromptStdin => Data)
  BY DEF IndInv
<1>1. /\ table' = [table EXCEPT ![p] = <<>>] /\ mem' = Keep(mem, table') /\ thr' = thr
      /\ live' = live \ {p} /\ compact' = compact /\ swapped' = swapped
      /\ suspended' = suspended /\ swapFile' = swapFile /\ written' = {w \in written : w[1] # p} /\ stdin' = stdin
  BY DEF PROCESS_END
<1>2. ~Compacting /\ p \in live /\ thr[p].at = "idle" /\ ~Waits(p)
  BY DEF PROCESS_END, Quiet
<1>3. /\ table' \in [Proc -> Seq(Segment)] /\ mem' = [a \in Addresses |-> mem'[a]]
      /\ Layout' /\ Allocation' /\ Moving' /\ (PromptStdin => DataIntact')
  <2>1. written' \subseteq written
    BY <1>1
  <2> QED BY <1>1, <1>2, <2>1, Emptied
<1>4. BlocksApart' /\ (PromptStdin => Data')
  <2>1. BlocksApart'
    BY <1>0, <1>1 DEF BlocksApart
  <2>2. PromptStdin => SuspendedDataIntact'
    BY <1>0, <1>1, SwapUntouched DEF Data
  <2>3. ASSUME PromptStdin PROVE StdinKnown'
    <3> SUFFICES ASSUME NEW e \in stdin
                 PROVE  e[1] \notin swapped /\ \E k \in DOMAIN table'[e[1]] : table'[e[1]][k] = e[2]
      BY <1>1 DEF StdinKnown
    <3>1. e[1] \in Proc /\ e[1] # p
      BY <1>0, <1>2 DEF Types, Waits
    <3>2. table'[e[1]] = table[e[1]]
      BY <1>0, <1>1, <3>1 DEF Types
    <3> QED BY <1>0, <2>3, <3>2 DEF Data, StdinKnown
  <2>4. CopyKept'
    BY <1>1, <1>2, NothingCopied DEF Compacting
  <2> QED BY <1>3, <2>1, <2>2, <2>3, <2>4 DEF Data
<1>5. Types'
  BY <1>0, <1>1, <1>2, <1>3 DEF Types
<1>6. ASSUME NEW q \in Proc PROVE Owner(q)'
  <2>1. CASE q # p
    <3>1. table'[q] = table[q]
      BY <1>0, <1>1, <2>1 DEF Types
    <3> QED BY <1>0, <1>1, <2>1, <3>1, OwnerKept
  <2>2. CASE q = p
    <3>1. table'[p] = <<>> /\ \A id \in Ids : <<p, id>> \notin written'
      BY <1>0, <1>1 DEF Types
    <3>2. Owner(p)
      BY <1>0
    <3>3. \A e \in stdin' : e[1] # p
      BY <1>1, <1>2 DEF Waits
    <3> QED BY <1>1, <1>2, <2>2, <3>1, <3>2, <3>3 DEF Owner
  <2> QED BY <2>1, <2>2
<1> QED BY <1>3, <1>4, <1>5, <1>6 DEF IndInv

LEMMA SegmentDeleteInd ==
    ASSUME QuietCompaction, IndInv, NEW p \in Proc, NEW id \in Ids, segment_delete(p, id)
    PROVE  IndInv'
<1>0. Types /\ (\A q \in Proc : Owner(q)) /\ Layout /\ Allocation /\ Moving /\ BlocksApart /\ (PromptStdin => Data)
  BY DEF IndInv
<1>1. PICK k \in DOMAIN table[p] : table[p][k].id = id /\ table' = [table EXCEPT ![p] = RemoveAt(@, k)]
  BY DEF segment_delete
<1>2. /\ mem' = Keep(mem, table') /\ thr' = thr /\ live' = live /\ compact' = compact /\ swapped' = swapped
      /\ suspended' = suspended /\ swapFile' = swapFile /\ written' = written \ {<<p, id>>} /\ stdin' = stdin
  BY DEF segment_delete
<1>3. ~Compacting /\ p \in live /\ p \notin swapped /\ thr[p].at = "idle" /\ ~Waits(p)
  BY DEF segment_delete, Runs, Quiet
<1> DEFINE new == RemoveAt(table[p], k)
           f == [i \in DOMAIN new |-> IF i < k THEN i ELSE i + 1]
<1>4. table[p] \in Seq(Segment) /\ k \in 1 .. Len(table[p])
  BY <1>0, <1>1 DEF Types
<1>5. /\ new \in Seq(Segment) /\ Len(new) = Len(table[p]) - 1
      /\ \A i \in 1 .. (Len(table[p]) - 1) : new[i] = IF i < k THEN table[p][i] ELSE table[p][i + 1]
  BY <1>4, RemoveAtIs
<1>6. table' = [table EXCEPT ![p] = new]
  BY <1>1
<1> HIDE DEF new
<1>7. DOMAIN new = 1 .. (Len(table[p]) - 1) /\ DOMAIN table[p] = 1 .. Len(table[p]) /\ Len(table[p]) \in Nat
  BY <1>4, <1>5
<1>8. f \in [DOMAIN new -> DOMAIN table[p]]
  BY <1>4, <1>7
<1>9. /\ \A i, j \in DOMAIN new : f[i] = f[j] => i = j
      /\ \A i \in DOMAIN new : new[i] = table[p][f[i]]
  <2>1. ASSUME NEW i \in DOMAIN new, NEW j \in DOMAIN new, f[i] = f[j] PROVE i = j
    <3>1. i \in Nat /\ j \in Nat /\ k \in Nat
      BY <1>4, <1>7
    <3> QED BY <2>1, <3>1
  <2>2. ASSUME NEW i \in DOMAIN new PROVE new[i] = table[p][f[i]]
    BY <1>5, <1>7
  <2> QED BY <2>1, <2>2
<1>10. \A j \in DOMAIN table[p] : j # k => \E i \in DOMAIN new : f[i] = j
  <2> SUFFICES ASSUME NEW j \in DOMAIN table[p], j # k PROVE \E i \in DOMAIN new : f[i] = j
    OBVIOUS
  <2>1. CASE j < k
    <3>1. j \in DOMAIN new
      BY <1>4, <1>7, <2>1
    <3> QED BY <2>1, <3>1
  <2>2. CASE ~(j < k)
    <3>1. j - 1 \in DOMAIN new /\ ~(j - 1 < k) /\ j - 1 + 1 = j
      BY <1>4, <1>7, <2>2
    <3>2. f[j - 1] = j
      BY <3>1
    <3> QED BY <3>1, <3>2
  <2> QED BY <2>1, <2>2
<1> HIDE DEF f
<1>11. /\ table' \in [Proc -> Seq(Segment)] /\ mem' = [a \in Addresses |-> mem'[a]]
       /\ Layout' /\ Allocation' /\ Moving' /\ (PromptStdin => DataIntact')
  <2>1. UNCHANGED <<thr, compact>> /\ written' \subseteq written
    BY <1>2
  <2> QED BY <1>2, <1>3, <1>5, <1>6, <1>8, <1>9, <2>1, Shrunk
<1>12. BlocksApart' /\ (PromptStdin => Data')
  <2>1. BlocksApart'
    BY <1>0, <1>2 DEF BlocksApart
  <2>2. PromptStdin => SuspendedDataIntact'
    BY <1>0, <1>2, SwapUntouched DEF Data
  <2>3. ASSUME PromptStdin PROVE StdinKnown'
    <3> SUFFICES ASSUME NEW e \in stdin
                 PROVE  e[1] \notin swapped /\ \E l \in DOMAIN table'[e[1]] : table'[e[1]][l] = e[2]
      BY <1>2 DEF StdinKnown
    <3>1. e[1] \in Proc /\ e[1] # p
      BY <1>0, <1>3 DEF Types, Waits
    <3>2. table'[e[1]] = table[e[1]]
      BY <1>0, <1>6, <3>1 DEF Types
    <3> QED BY <1>0, <2>3, <3>2 DEF Data, StdinKnown
  <2>4. CopyKept'
    BY <1>2, <1>3, NothingCopied DEF Compacting
  <2> QED BY <1>11, <2>1, <2>2, <2>3, <2>4 DEF Data
<1>13. Types'
  BY <1>0, <1>2, <1>11 DEF Types
<1>14. ASSUME NEW q \in Proc PROVE Owner(q)'
  <2>1. CASE q # p
    <3>1. table'[q] = table[q]
      BY <1>0, <1>6, <2>1 DEF Types
    <3> QED BY <1>0, <1>2, <2>1, <3>1, OwnerKept
  <2>2. CASE q = p
    <3>0. Owner(p) /\ suspended[p] = <<>> /\ table'[p] = new
      BY <1>0, <1>3, <1>6 DEF Owner, Types
    <3>1. \A i, j \in DOMAIN new : new[i].id = new[j].id => i = j
      BY <1>8, <1>9, <3>0 DEF Owner
    <3>2. ASSUME NEW d \in Ids, <<p, d>> \in written' PROVE HasId(new, d)
      <4>1. d # id /\ <<p, d>> \in written
        BY <1>2, <3>2
      <4>2. PICK j \in DOMAIN table[p] : table[p][j].id = d
        BY <3>0, <4>1 DEF Owner, HasId
      <4>3. PICK i \in DOMAIN new : f[i] = j
        BY <1>1, <1>10, <4>1, <4>2
      <4> QED BY <1>9, <4>2, <4>3 DEF HasId
    <3>3. \A e \in stdin' : e[1] # p
      BY <1>2, <1>3 DEF Waits
    <3> QED BY <1>2, <1>3, <2>2, <3>0, <3>1, <3>2, <3>3 DEF Owner, HasId
  <2> QED BY <2>1, <2>2
<1> QED BY <1>11, <1>12, <1>13, <1>14 DEF IndInv

\* A step that changes neither the tables nor the threads keeps what they were promised.
LEMMA AllocationKept ==
    ASSUME Allocation, thr' = thr, table' = table
    PROVE  Allocation'
<1>1. OneAllocator' /\ CompactionSuffices'
  BY DEF Allocation, OneAllocator, CompactionSuffices
<1>2. HoleKept'
  BY DEF Allocation, HoleKept, Apart
<1>3. RoomLeft'
  BY DEF Allocation, RoomLeft, Occupied, Bytes
<1> QED BY <1>1, <1>2, <1>3 DEF Allocation

\* A process that fills a segment of its table spoils no other.
LEMMA SegmentFilled ==
    ASSUME IndInv, PromptStdin, NEW p \in Proc, NEW k \in DOMAIN table[p], suspended[p] = <<>>,
           table' = table, suspended' = suspended, swapFile' = swapFile,
           written' = written \cup {<<p, table[p][k].id>>},
           \A q \in Proc : \A l \in DOMAIN table[q] : \A a \in Bytes(table[q][l]) :
              mem'[a] = Filled(p, table[p][k])[a]
    PROVE  /\ DataIntact' /\ SuspendedDataIntact'
           /\ \A q \in Proc : \A l \in DOMAIN table[q] : ~(q = p /\ l = k) =>
                 \A a \in Bytes(table[q][l]) : mem'[a] = mem[a]
<1> DEFINE s == table[p][k]
<1>0. Types /\ Owner(p) /\ Layout /\ DataIntact /\ SuspendedDataIntact
  BY DEF IndInv, Data
<1>1. s.base \in Nat /\ s.size \in Nat
  BY <1>0, SegmentFacts
<1>2. ASSUME NEW q \in Proc, NEW l \in DOMAIN table[q], ~(q = p /\ l = k), NEW a \in Bytes(table[q][l])
      PROVE  mem'[a] = mem[a]
  <2>1. table[q][l].base \in Nat /\ table[q][l].size \in Nat
    BY <1>0, SegmentFacts
  <2>2. a \in Addresses /\ a \in Nat /\ table[q][l].base <= a /\ a < table[q][l].base + table[q][l].size
    BY <1>0, BytesOf
  <2>3. Apart(table[q][l], s)
    BY <1>0, <1>2 DEF Layout
  <2>4. a \notin Bytes(s)
    <3> HIDE DEF s
    <3> QED BY <1>1, <2>1, <2>2, <2>3 DEF Apart, Bytes
  <2>5. mem'[a] = Filled(p, s)[a]
    OBVIOUS
  <2> HIDE DEF s
  <2> QED BY <2>2, <2>4, <2>5 DEF Filled
<1>3. DataIntact'
  <2> SUFFICES ASSUME NEW q \in Proc, NEW l \in DOMAIN table[q], <<q, table[q][l].id>> \in written',
                      NEW i \in 0 .. (table[q][l].size - 1)
               PROVE  mem'[table[q][l].base + i] = Byte(q, table[q][l].id, i)
    BY DEF DataIntact, Byte
  <2> DEFINE t == table[q][l]
  <2>1. t.base \in Nat /\ t.size \in Nat /\ t.size > 0
    BY <1>0, SegmentFacts
  <2>2. t.base + i \in Bytes(t) /\ i \in Nat /\ i < t.size
    BY <2>1 DEF Bytes
  <2>3. PICK a \in Addresses : a = t.base + i
    BY <1>0, <2>2, BytesOf
  <2>4. CASE q = p /\ l = k
    <3>1. a \in Bytes(s) /\ a - s.base = i /\ t = s
      BY <2>1, <2>2, <2>3, <2>4
    <3>2. mem'[a] = Filled(p, s)[a]
      BY <2>2, <2>3
    <3> HIDE DEF s, t
    <3>3. mem'[a] = Byte(p, s.id, a - s.base)
      BY <3>1, <3>2 DEF Filled
    <3> QED BY <2>3, <2>4, <3>1, <3>3 DEF t
  <2>5. CASE ~(q = p /\ l = k)
    <3>1. mem'[t.base + i] = mem[t.base + i]
      BY <1>2, <2>2, <2>5
    <3>2. <<q, t.id>> \in written
      BY <1>0, <2>5 DEF Owner
    <3> QED BY <1>0, <3>1, <3>2 DEF DataIntact
  <2> QED BY <2>4, <2>5
<1>4. SuspendedDataIntact'
  <2> SUFFICES ASSUME NEW q \in Proc, NEW l \in DOMAIN suspended[q], <<q, suspended[q][l].id>> \in written',
                      NEW i \in 0 .. (suspended[q][l].size - 1)
               PROVE  swapFile[suspended[q][l].blocks[i \div BlockSize + 1]][i % BlockSize]
                         = Byte(q, suspended[q][l].id, i)
    BY DEF SuspendedDataIntact, Byte
  <2>1. q # p
    OBVIOUS
  <2>2. <<q, suspended[q][l].id>> \in written
    BY <2>1
  <2> QED BY <1>0, <2>2 DEF SuspendedDataIntact
<1> QED BY <1>2, <1>3, <1>4

LEMMA MemoryWriteInd ==
    ASSUME QuietCompaction, IndInv, NEW p \in Proc, NEW id \in Ids, MemoryWrite(p, id)
    PROVE  IndInv'
<1>0. Types /\ (\A q \in Proc : Owner(q)) /\ Layout /\ Allocation /\ Moving /\ BlocksApart /\ (PromptStdin => Data)
  BY DEF IndInv
<1>1. PICK k \in DOMAIN table[p] : table[p][k].id = id /\ mem' = Filled(p, table[p][k])
  BY DEF MemoryWrite
<1>2. /\ table' = table /\ thr' = thr /\ live' = live /\ compact' = compact /\ swapped' = swapped /\ stdin' = stdin
      /\ suspended' = suspended /\ swapFile' = swapFile /\ written' = written \cup {<<p, id>>}
  BY DEF MemoryWrite
<1>3. ~Compacting /\ p \in live /\ p \notin swapped /\ thr[p].at = "idle"
  BY DEF MemoryWrite, Runs, Quiet
<1>4. suspended[p] = <<>> /\ Owner(p)
  BY <1>0, <1>3 DEF Owner
<1>5. Types'
  <2>1. mem' = [a \in Addresses |-> mem'[a]]
    BY <1>1 DEF Filled
  <2>2. written' \subseteq Proc \X Ids
    BY <1>0, <1>2 DEF Types
  <2> QED BY <1>0, <1>2, <2>1, <2>2 DEF Types
<1>6. Layout' /\ BlocksApart' /\ Allocation' /\ Moving'
  BY <1>0, <1>2, SegmentsKept, AllocationKept, MovingKept
<1>7. ASSUME NEW q \in Proc PROVE Owner(q)'
  <2>1. CASE q # p
    BY <1>0, <1>2, <2>1, OwnerKept
  <2>2. CASE q = p
    <3>1. HasId(table[p], id)
      BY <1>1 DEF HasId
    <3> QED BY <1>2, <1>3, <1>4, <2>2, <3>1 DEF Owner, HasId
  <2> QED BY <2>1, <2>2
<1>8. ASSUME PromptStdin PROVE Data'
  <2>1. DataIntact' /\ SuspendedDataIntact'
    BY <1>1, <1>2, <1>4, <1>8, SegmentFilled
  <2>2. StdinKnown'
    BY <1>0, <1>2, <1>8 DEF Data, StdinKnown
  <2>3. CopyKept'
    BY <1>2, <1>3, NothingCopied DEF Compacting
  <2> QED BY <2>1, <2>2, <2>3 DEF Data
<1> QED BY <1>5, <1>6, <1>7, <1>8 DEF IndInv

LEMMA StdinInd ==
    ASSUME QuietCompaction, IndInv, NEW p \in Proc, NEW id \in Ids, STDIN(p, id)
    PROVE  IndInv'
<1>0. Types /\ (\A q \in Proc : Owner(q)) /\ Layout /\ Allocation /\ Moving /\ BlocksApart /\ (PromptStdin => Data)
  BY DEF IndInv
<1>1. PICK k \in DOMAIN table[p] : stdin' = stdin \cup {<<p, table[p][k]>>}
  BY DEF STDIN
<1>2. /\ table' = table /\ mem' = mem /\ thr' = thr /\ live' = live /\ compact' = compact /\ swapped' = swapped
      /\ suspended' = suspended /\ swapFile' = swapFile /\ written' = written
  BY DEF STDIN
<1>3. ~Compacting /\ p \notin swapped
  BY DEF STDIN, Runs, Quiet
<1>4. Types'
  <2>1. table[p][k] \in Segment
    BY <1>0, SegmentFacts
  <2>2. stdin' \subseteq Proc \X Segment
    BY <1>0, <1>1, <2>1 DEF Types
  <2> QED BY <1>0, <1>2, <2>2 DEF Types
<1>5. Layout' /\ BlocksApart' /\ Allocation' /\ Moving'
  BY <1>0, <1>2, SegmentsKept, AllocationKept, MovingKept
<1>6. ASSUME NEW q \in Proc PROVE Owner(q)'
  <2>1. CASE q # p
    <3>1. \A e \in stdin' : e[1] = q => e \in stdin
      BY <1>1, <2>1
    <3> QED BY <1>0, <1>2, <2>1, <3>1, OwnerKept
  <2>2. CASE q = p
    <3>1. HasId(table[p], table[p][k].id) /\ Owner(p)
      BY <1>0 DEF HasId
    <3> QED BY <1>1, <1>2, <2>2, <3>1 DEF Owner, HasId
  <2> QED BY <2>1, <2>2
<1>7. ASSUME PromptStdin PROVE Data'
  <2>0. Data
    BY <1>0, <1>7
  <2>1. DataIntact'
    BY <1>2, <2>0 DEF Data, DataIntact, Byte
  <2>2. SuspendedDataIntact'
    BY <1>2, <2>0, SwapUntouched DEF Data
  <2>3. StdinKnown'
    BY <1>1, <1>2, <1>3, <2>0 DEF Data, StdinKnown
  <2>4. CopyKept'
    BY <1>2, <1>3, NothingCopied DEF Compacting
  <2> QED BY <2>1, <2>2, <2>3, <2>4 DEF Data
<1> QED BY <1>4, <1>5, <1>6, <1>7 DEF IndInv

\* The segment compact_memory turns to next.
LEMMA NextExists ==
    ASSUME Types, compact.todo # {}
    PROVE  NextSegment \in compact.todo /\ \A f \in compact.todo : NextSegment[2].base <= f[2].base
<1> DEFINE B == {e[2].base : e \in compact.todo}
<1>1. \A e \in compact.todo : e[2].base \in Nat
  <2>1. \A e \in compact.todo : e \in Proc \X Segment
    BY DEF Types
  <2>2. \A e \in compact.todo : e[2].base \in Addresses
    BY <2>1 DEF Segment
  <2> QED BY <2>2 DEF Addresses
<1>2. B \in SUBSET Nat /\ B # {}
  BY <1>1
<1>3. PICK b \in B : \A c \in B : b <= c
  <2> HIDE DEF B
  <2> QED BY <1>2, LeastNat
<1>4. \E e \in compact.todo : \A f \in compact.todo : e[2].base <= f[2].base
  BY <1>3
<1> QED BY <1>4 DEF NextSegment

\* The answer to a STDIN may come at any time, also while a segment is moved.
LEMMA IoMemoryWriteInd ==
    ASSUME IndInv, NEW p \in Proc, IO_MEMORY_WRITE(p)
    PROVE  IndInv'
<1>0. Types /\ (\A q \in Proc : Owner(q)) /\ Layout /\ Allocation /\ Moving /\ BlocksApart /\ (PromptStdin => Data)
  BY DEF IndInv
<1>1. PICK e \in stdin :
         /\ e[1] = p /\ stdin' = stdin \ {e} /\ mem' = Keep(Filled(p, e[2]), table)
         /\ written' = written \cup {<<p, e[2].id>>}
         /\ UNCHANGED <<live, table, thr, compact, swapped, suspended, swapFile>>
  BY DEF IO_MEMORY_WRITE
<1>2. /\ table' = table /\ thr' = thr /\ live' = live /\ compact' = compact /\ swapped' = swapped
      /\ suspended' = suspended /\ swapFile' = swapFile
  BY <1>1
<1>3. e \in Proc \X Segment /\ e[2].id \in Ids
  BY <1>0 DEF Types, Segment
<1>4. Types'
  <2>1. mem' = [a \in Addresses |-> mem'[a]]
    BY <1>1 DEF Keep
  <2>2. written' \subseteq Proc \X Ids /\ stdin' \subseteq Proc \X Segment
    BY <1>0, <1>1, <1>3 DEF Types
  <2> QED BY <1>0, <1>2, <2>1, <2>2 DEF Types
<1>5. Layout' /\ BlocksApart' /\ Allocation' /\ Moving'
  BY <1>0, <1>2, SegmentsKept, AllocationKept, MovingKept
<1>6. ASSUME NEW q \in Proc PROVE Owner(q)'
  <2>1. CASE q # p
    BY <1>0, <1>1, <1>2, <2>1, OwnerKept
  <2>2. CASE q = p
    <3>1. Owner(p) /\ (HasId(table[p], e[2].id) \/ HasId(suspended[p], e[2].id))
      BY <1>0, <1>1 DEF Owner
    <3>2. \A id \in Ids : <<p, id>> \in written' => HasId(table[p], id) \/ HasId(suspended[p], id)
      BY <1>1, <3>1 DEF Owner
    <3> QED BY <1>1, <1>2, <2>2, <3>1, <3>2 DEF Owner, HasId
  <2> QED BY <2>1, <2>2
<1>7. ASSUME PromptStdin PROVE Data'
  <2>0. Data
    BY <1>0, <1>7
  <2>1. PICK k \in DOMAIN table[p] : table[p][k] = e[2]
    BY <1>1, <2>0 DEF Data, StdinKnown
  <2>2. suspended[p] = <<>>
    BY <1>0, <1>1, <2>0 DEF Data, StdinKnown, Owner
  <2>3. \A q \in Proc : \A l \in DOMAIN table[q] : \A a \in Bytes(table[q][l]) :
           mem'[a] = Filled(p, table[p][k])[a]
    <3> SUFFICES ASSUME NEW q \in Proc, NEW l \in DOMAIN table[q], NEW a \in Bytes(table[q][l])
                 PROVE  mem'[a] = Filled(p, e[2])[a]
      BY <2>1
    <3>1. a \in Addresses
      BY <1>0, BytesOf
    <3> QED BY <1>1, <3>1 DEF Keep
  <2>4. /\ DataIntact' /\ SuspendedDataIntact'
        /\ \A q \in Proc : \A l \in DOMAIN table[q] : ~(q = p /\ l = k) =>
              \A a \in Bytes(table[q][l]) : mem'[a] = mem[a]
    BY <1>1, <1>2, <1>7, <2>1, <2>2, <2>3, SegmentFilled
  <2>5. StdinKnown'
    BY <1>1, <1>2, <2>0 DEF Data, StdinKnown
  <2>6. CopyKept'
    <3> SUFFICES ASSUME NEW q \in Proc, thr[q].at = "copying"
                 PROVE  /\ ~(Waits(NextSegment[1]))'
                        /\ \A i \in 0 .. (NextSegment[2].size - 1) :
                              compact.copy[i] = mem'[NextSegment[2].base + i]
      BY <1>2 DEF CopyKept, NextSegment
    <3>1. /\ ~Waits(NextSegment[1])
          /\ \A i \in 0 .. (NextSegment[2].size - 1) : compact.copy[i] = mem[NextSegment[2].base + i]
      BY <2>0 DEF Data, CopyKept
    <3>2. ~(Waits(NextSegment[1]))'
      BY <1>1, <1>2, <3>1 DEF Waits, NextSegment
    <3>3. NextSegment \in compact.todo
      BY <1>0, NextExists DEF Moving
    <3>4. NextSegment[1] # p /\ NextSegment[1] \in Proc
      BY <1>0, <1>1, <3>1, <3>3 DEF Waits, Types
    <3>5. PICK l \in DOMAIN table[NextSegment[1]] : table[NextSegment[1]][l] = NextSegment[2]
      BY <1>0, <3>3 DEF Moving, Compacting
    <3>6. ASSUME NEW i \in 0 .. (NextSegment[2].size - 1)
          PROVE  mem'[NextSegment[2].base + i] = mem[NextSegment[2].base + i]
      <4> DEFINE t == NextSegment[2]
      <4>1. t.base \in Nat /\ t.size \in Nat
        BY <1>0, <3>4, <3>5, SegmentFacts
      <4>2. t.base + i \in Bytes(t)
        <5> HIDE DEF t
        <5> QED BY <4>1, <3>6 DEF Bytes, t
      <4> QED BY <2>4, <3>4, <3>5, <4>2
    <3> QED BY <3>1, <3>2, <3>6
  <2> QED BY <2>4, <2>5, <2>6 DEF Data
<1> QED BY <1>4, <1>5, <1>6, <1>7 DEF IndInv

\* What looking for a hole leaves in the thread: the base of a hole that is free and large
\* enough, or the news that there is none.
LEMMA ChoiceIs ==
    ASSUME Types, Layout, NEW p \in Proc, NEW otherwise \in Points, Choice(p, otherwise)
    PROVE  /\ thr' \in [Proc -> [at : Points, id : Nat, size : Nat, base : Nat]]
           /\ \A q \in Proc : q # p => thr'[q] = thr[q]
           /\ thr'[p].id = thr[p].id /\ thr'[p].size = thr[p].size
           /\ \/ thr'[p].at = otherwise /\ \A g \in get_free_holes : g.size < thr[p].size
              \/ /\ thr'[p].at = "insert"
                 /\ thr'[p].base + thr'[p].size <= Total
                 /\ \A q \in Proc : \A j \in DOMAIN table[q] : Apart(thr'[p], table[q][j])
<1> DEFINE h == select_hole(get_free_holes, thr[p].size)
<1>0. thr \in [Proc -> [at : Points, id : Nat, size : Nat, base : Nat]]
  BY DEF Types
<1>1. thr[p].size \in Nat /\ thr[p] \in [at : Points, id : Nat, size : Nat, base : Nat]
  BY <1>0
<1>2. \/ h = NoHole /\ \A g \in get_free_holes : g.size < thr[p].size
      \/ h # NoHole /\ h \in get_free_holes /\ h.size >= thr[p].size
  BY <1>1, SelectedFits
<1>3. thr' = [thr EXCEPT ![p] = IF h = NoHole THEN [@ EXCEPT !.at = otherwise]
                                ELSE [@ EXCEPT !.at = "insert", !.base = h.base]]
  BY DEF Choice
<1> HIDE DEF h
<1>4. CASE h = NoHole
  <2>1. thr' = [thr EXCEPT ![p] = [@ EXCEPT !.at = otherwise]]
    BY <1>3, <1>4
  <2>2. /\ thr' \in [Proc -> [at : Points, id : Nat, size : Nat, base : Nat]]
        /\ \A q \in Proc : q # p => thr'[q] = thr[q]
        /\ thr'[p].id = thr[p].id /\ thr'[p].size = thr[p].size /\ thr'[p].at = otherwise
    BY <1>0, <2>1
  <2> QED BY <1>2, <1>4, <2>2
<1>5. CASE h # NoHole
  <2>1. thr' = [thr EXCEPT ![p] = [@ EXCEPT !.at = "insert", !.base = h.base]]
    BY <1>3, <1>5
  <2>2. /\ h.base \in Nat /\ h.size \in Nat /\ h.base + h.size <= Total /\ h.size >= thr[p].size
        /\ \A s \in Segments : Apart(h, s)
    BY <1>2, <1>5, HoleIsFree
  <2>3. /\ thr' \in [Proc -> [at : Points, id : Nat, size : Nat, base : Nat]]
        /\ \A q \in Proc : q # p => thr'[q] = thr[q]
        /\ thr'[p].id = thr[p].id /\ thr'[p].size = thr[p].size
        /\ thr'[p].at = "insert" /\ thr'[p].base = h.base
    BY <1>0, <2>1, <2>2 DEF Points
  <2>4. thr'[p].base + thr'[p].size <= Total
    BY <1>1, <2>2, <2>3, MemoryAssumption
  <2>5. ASSUME NEW q \in Proc, NEW j \in DOMAIN table[q] PROVE Apart(thr'[p], table[q][j])
    <3>1. table[q][j] \in Segments /\ table[q][j].base \in Nat /\ table[q][j].size \in Nat
      BY SegmentFacts
    <3>2. Apart(h, table[q][j])
      BY <2>2, <3>1
    <3> QED BY <1>1, <2>2, <2>3, <3>1, <3>2 DEF Apart
  <2> QED BY <2>3, <2>4, <2>5
<1> QED BY <1>4, <1>5

\* One thread has a hole that is free.
LEMMA GivenHole ==
    ASSUME NEW p \in Proc, \A q \in Proc : q # p => thr'[q].at \in {"idle", "start"}, table' = table,
           thr'[p].at = "insert", thr'[p].base + thr'[p].size <= Total,
           \A q \in Proc : \A j \in DOMAIN table[q] : Apart(thr'[p], table[q][j])
    PROVE  Allocation' /\ Moving'
<1>1. OneAllocator'
  BY DEF OneAllocator, Allocating
<1>2. HoleKept'
  BY DEF HoleKept, Apart
<1>3. RoomLeft' /\ CompactionSuffices' /\ Moving'
  BY DEF RoomLeft, CompactionSuffices, Moving, Compacting
<1> QED BY <1>1, <1>2, <1>3 DEF Allocation

\* A thread that goes on keeps its request.
LEMMA OwnerGoesOn ==
    ASSUME IndInv, NEW p \in Proc, thr[p].at # "idle",
           thr'[p].at = "idle" \/ (thr'[p].id = thr[p].id /\ thr'[p].size = thr[p].size),
           \A q \in Proc : q # p => thr'[q] = thr[q],
           UNCHANGED <<live, table, stdin, swapped, suspended, written>>
    PROVE  \A q \in Proc : Owner(q)'
<1>1. live' = live /\ table' = table /\ swapped' = swapped /\ suspended' = suspended /\ written' = written /\ stdin' = stdin
  OBVIOUS
<1> SUFFICES ASSUME NEW q \in Proc PROVE Owner(q)'
  OBVIOUS
<1>2. Owner(q)
  BY DEF IndInv
<1>3. CASE q # p
  BY <1>1, <1>2, <1>3, OwnerKept
<1>4. CASE q = p
  BY <1>1, <1>2, <1>4 DEF Owner, HasId
<1> QED BY <1>3, <1>4

LEMMA ChooseHoleInd ==
    ASSUME SerialAllocation, IndInv, NEW p \in Proc, ChooseHole(p)
    PROVE  IndInv'
<1>0. Types /\ (\A q \in Proc : Owner(q)) /\ Layout /\ Allocation /\ Moving /\ BlocksApart /\ (PromptStdin => Data)
  BY DEF IndInv
<1>1. /\ live' = live /\ table' = table /\ mem' = mem /\ compact' = compact /\ swapped' = swapped
      /\ suspended' = suspended /\ swapFile' = swapFile /\ written' = written
      /\ thr[p].at = "start" /\ stdin' = stdin
  BY DEF ChooseHole
<1>2. Layout' /\ BlocksApart'
  BY <1>0, <1>1, SegmentsKept
<1>3. \A q \in Proc : thr[q].at \in {"idle", "start"}
  BY <1>0, FreeMeansWait DEF ChooseHole
<1>6. PromptStdin => ((\A q \in Proc : thr'[q].at # "copying") => Data')
  BY <1>0, <1>1, NothingCopied, DataSame
<1>4. CASE FreeSpace(get_free_holes) < thr[p].size
  <2>1. thr' = [thr EXCEPT ![p] = Idle]
    BY <1>4 DEF ChooseHole
  <2>2. Idle \in [at : Points, id : Nat, size : Nat, base : Nat] /\ Idle.at = "idle"
    BY DEF Idle, Points
  <2>3. /\ thr' \in [Proc -> [at : Points, id : Nat, size : Nat, base : Nat]]
        /\ thr'[p] = Idle /\ \A q \in Proc : q # p => thr'[q] = thr[q]
    BY <1>0, <2>1, <2>2 DEF Types
  <2>4. \A q \in Proc : thr'[q].at \in {"idle", "start"}
    BY <1>3, <2>2, <2>3
  <2>5. \A q \in Proc : Owner(q)'
    BY <1>1, <2>2, <2>3, OwnerGoesOn
  <2>6. Types'
    BY <1>0, <1>1, <2>3 DEF Types
  <2>7. PromptStdin => Data'
    BY <1>6, <2>4
  <2> QED BY <1>2, <2>4, <2>5, <2>6, <2>7, NoneAllocates DEF IndInv
<1>5. CASE ~(FreeSpace(get_free_holes) < thr[p].size)
  <2>1. Choice(p, "compaction")
    BY <1>5 DEF ChooseHole
  <2>2. "compaction" \in Points
    BY DEF Points
  <2>3. /\ thr' \in [Proc -> [at : Points, id : Nat, size : Nat, base : Nat]]
        /\ \A q \in Proc : q # p => thr'[q] = thr[q]
        /\ thr'[p].id = thr[p].id /\ thr'[p].size = thr[p].size
        /\ \/ thr'[p].at = "compaction"
           \/ /\ thr'[p].at = "insert"
              /\ thr'[p].base + thr'[p].size <= Total
              /\ \A q \in Proc : \A j \in DOMAIN table[q] : Apart(thr'[p], table[q][j])
    BY <1>0, <2>1, <2>2, ChoiceIs
  <2>4. Types'
    BY <1>0, <1>1, <2>3 DEF Types
  <2>5. \A q \in Proc : Owner(q)'
    BY <1>1, <2>3, OwnerGoesOn
  <2>6. \A q \in Proc : q # p => thr'[q].at \in {"idle", "start"}
    BY <1>3, <2>3
  <2>9. PromptStdin => Data'
    BY <1>6, <2>3, <2>6
  <2>7. CASE thr'[p].at = "compaction"
    <3>1. Cardinality(Occupied(table)) + thr[p].size <= Total
      <4>1. Cardinality(Occupied(table)) \in Nat /\ FreeSpace(get_free_holes) = Total - Cardinality(Occupied(table))
        BY <1>0, FreeSpaceIs
      <4>2. thr[p].size \in Nat
        BY <1>0 DEF Types
      <4> QED BY <1>5, <4>1, <4>2, MemoryAssumption
    <3>2. RoomLeft'
      BY <1>1, <2>3, <2>6, <2>7, <3>1 DEF RoomLeft, Occupied, Bytes
    <3>3. OneAllocator' /\ HoleKept' /\ CompactionSuffices' /\ Moving'
      BY <2>6, <2>7 DEF OneAllocator, Allocating, HoleKept, CompactionSuffices, Moving, Compacting
    <3> QED BY <1>2, <2>4, <2>5, <2>9, <3>2, <3>3 DEF IndInv, Allocation
  <2>8. CASE thr'[p].at = "insert"
    <3>1. Allocation' /\ Moving'
      BY <1>1, <2>3, <2>6, <2>8, GivenHole
    <3> QED BY <1>2, <2>4, <2>5, <2>9, <3>1 DEF IndInv
  <2> QED BY <2>3, <2>7, <2>8
<1> QED BY <1>4, <1>5

LEMMA CompactionReadyInd ==
    ASSUME IndInv, NEW p \in Proc, CompactionReady(p)
    PROVE  IndInv'
<1>0. Types /\ (\A q \in Proc : Owner(q)) /\ Layout /\ Allocation /\ Moving /\ BlocksApart /\ (PromptStdin => Data)
  BY DEF IndInv
<1>1. /\ live' = live /\ table' = table /\ mem' = mem /\ swapped' = swapped
      /\ suspended' = suspended /\ swapFile' = swapFile /\ written' = written
      /\ thr[p].at = "compaction" /\ thr' = [thr EXCEPT ![p].at = "moving"] /\ stdin' = stdin
      /\ compact' = [cursor |-> 0, copy |-> Blank, todo |-> {e \in Proc \X Segments :
                                                \E i \in DOMAIN table[e[1]] : table[e[1]][i] = e[2]}]
  BY DEF CompactionReady
<1>2. Layout' /\ BlocksApart'
  BY <1>0, <1>1, SegmentsKept
<1>3. /\ thr' \in [Proc -> [at : Points, id : Nat, size : Nat, base : Nat]]
      /\ thr'[p].at = "moving" /\ thr'[p].id = thr[p].id /\ thr'[p].size = thr[p].size
      /\ \A q \in Proc : q # p => thr'[q] = thr[q]
  BY <1>0, <1>1 DEF Types, Points
<1>4. \A q \in Proc : q # p => thr'[q].at \in {"idle", "start"}
  <2>1. thr[p].at \in Allocating
    BY <1>1 DEF Allocating
  <2> QED BY <1>0, <1>3, <2>1, OthersWait
<1>5. \A q \in Proc : Owner(q)'
  BY <1>1, <1>3, OwnerGoesOn
<1>6. compact'.cursor = 0 /\ compact'.todo \subseteq Proc \X Segment /\ compact' = [todo |-> compact'.todo, cursor |-> compact'.cursor, copy |-> compact'.copy]
  <2>1. Segments \subseteq Segment
    BY <1>0, SegmentsAre, SegmentFacts
  <2>2. {e \in Proc \X Segments : \E i \in DOMAIN table[e[1]] : table[e[1]][i] = e[2]} \subseteq Proc \X Segment
    BY <2>1
  <2> QED BY <1>1, <2>2
<1>7. Types'
  <2>1. compact'.cursor \in 0 .. Total
    BY <1>6, MemoryAssumption
  <2> QED BY <1>0, <1>1, <1>3, <1>6, <2>1 DEF Types
<1>8. RoomLeft'
  <2>1. Cardinality(Occupied(table)) + thr[p].size <= Total
    BY <1>0, <1>1 DEF Allocation, RoomLeft
  <2> QED BY <1>1, <1>3, <1>4, <2>1 DEF RoomLeft, Occupied, Bytes
<1>9. OneAllocator' /\ HoleKept' /\ CompactionSuffices'
  BY <1>3, <1>4 DEF OneAllocator, Allocating, HoleKept, CompactionSuffices
<1>10. Moving'
  <2>1. \A e \in compact'.todo : (\E i \in DOMAIN table[e[1]] : table[e[1]][i] = e[2]) /\ 0 <= e[2].base
    <3>1. \A s \in Segments : s.base \in Nat
      BY <1>0, SegmentsAre, SegmentFacts
    <3> QED BY <1>1, <3>1
  <2>2. \A q \in Proc : \A i \in DOMAIN table[q] : <<q, table[q][i]>> \in compact'.todo
    <3> SUFFICES ASSUME NEW q \in Proc, NEW i \in DOMAIN table[q] PROVE <<q, table[q][i]>> \in compact'.todo
      OBVIOUS
    <3>1. table[q][i] \in Segments
      BY DEF Segments, SegmentsOf
    <3> QED BY <1>1, <3>1
  <2>3. 0 .. (0 - 1) = {}
    OBVIOUS
  <2>4. \A q \in Proc : thr'[q].at # "copying"
    BY <1>3, <1>4
  <2> QED BY <1>1, <1>6, <2>1, <2>2, <2>3, <2>4 DEF Moving
<1>11. PromptStdin => Data'
  <2>1. \A q \in Proc : thr'[q].at # "copying"
    BY <1>3, <1>4
  <2> QED BY <1>0, <1>1, <2>1, NothingCopied, DataSame
<1> QED BY <1>2, <1>5, <1>7, <1>8, <1>9, <1>10, <1>11 DEF IndInv, Allocation

-----------------------------------------------------------------------------
(* A move of compact_memory.                                               *)

LEMMA ReadSegmentInd ==
    ASSUME IndInv, NEW p \in Proc, ReadSegment(p)
    PROVE  IndInv'
<1>0. Types /\ (\A q \in Proc : Owner(q)) /\ Layout /\ Allocation /\ Moving /\ BlocksApart /\ (PromptStdin => Data)
  BY DEF IndInv
<1> DEFINE read == [i \in 0 .. (NextSegment[2].size - 1) |-> mem[NextSegment[2].base + i]]
<1>1. /\ live' = live /\ table' = table /\ mem' = mem /\ swapped' = swapped /\ stdin' = stdin
      /\ suspended' = suspended /\ swapFile' = swapFile /\ written' = written
      /\ thr[p].at = "moving" /\ thr' = [thr EXCEPT ![p].at = "copying"]
      /\ compact' = [compact EXCEPT !.copy = read] /\ compact.todo # {} /\ Undisturbed(NextSegment[1])
  BY DEF ReadSegment
<1> HIDE DEF read
<1>2. /\ compact' = [todo |-> compact'.todo, cursor |-> compact'.cursor, copy |-> compact'.copy]
      /\ compact'.todo = compact.todo /\ compact'.cursor = compact.cursor /\ compact'.copy = read
  <2>1. compact = [todo |-> compact.todo, cursor |-> compact.cursor, copy |-> compact.copy]
    BY <1>0 DEF Types
  <2>2. compact' = [todo |-> compact.todo, cursor |-> compact.cursor, copy |-> read]
    BY <1>1, <2>1
  <2> QED BY <2>2
<1>3. /\ thr' \in [Proc -> [at : Points, id : Nat, size : Nat, base : Nat]]
      /\ thr'[p].at = "copying" /\ thr'[p].id = thr[p].id /\ thr'[p].size = thr[p].size
      /\ \A q \in Proc : q # p => thr'[q] = thr[q]
  BY <1>0, <1>1 DEF Types, Points
<1>4. \A q \in Proc : q # p => thr'[q].at \in {"idle", "start"}
  <2>1. thr[p].at \in Allocating
    BY <1>1 DEF Allocating
  <2> QED BY <1>0, <1>3, <2>1, OthersWait
<1>5. \A q \in Proc : Owner(q)'
  BY <1>1, <1>3, OwnerGoesOn
<1>6. Types'
  BY <1>0, <1>1, <1>2, <1>3 DEF Types
<1>7. Layout' /\ BlocksApart'
  BY <1>0, <1>1, SegmentsKept
<1>8. Allocation'
  <2>1. Cardinality(Occupied(table)) + thr[p].size <= Total
    BY <1>0, <1>1 DEF Allocation, RoomLeft
  <2>2. RoomLeft'
    BY <1>1, <1>3, <1>4, <2>1 DEF RoomLeft, Occupied, Bytes
  <2>3. OneAllocator' /\ HoleKept' /\ CompactionSuffices'
    BY <1>3, <1>4 DEF OneAllocator, Allocating, HoleKept, CompactionSuffices
  <2> QED BY <2>2, <2>3 DEF Allocation
<1>9. Moving'
  <2>1. Compacting
    BY <1>1 DEF Compacting
  <2> QED BY <1>0, <1>1, <1>2, <2>1 DEF Moving, Placed, Occupied, Bytes
<1>10. ASSUME PromptStdin PROVE Data'
  <2>1. NextSegment' = NextSegment
    BY <1>2 DEF NextSegment
  <2>2. ~(Waits(NextSegment[1]))'
    BY <1>1, <1>10, <2>1 DEF Waits, Undisturbed
  <2>3. \A i \in 0 .. (NextSegment[2].size - 1) : read[i] = mem[NextSegment[2].base + i]
    BY DEF read
  <2>4. CopyKept'
    BY <1>1, <1>2, <2>1, <2>2, <2>3 DEF CopyKept
  <2> QED BY <1>0, <1>1, <1>10, <2>4, DataSame
<1> QED BY <1>5, <1>6, <1>7, <1>8, <1>9, <1>10 DEF IndInv

\* The segment at k in the table of q goes to the cursor; the others stay where they are,
\* placed already or above it.
Stays(s, r, i) ==
    /\ table'[r][i] = table[r][i]
    /\ \/ Placed(table[r][i])
       \/ <<r, table[r][i]>> \in compact.todo /\ s.base + s.size <= table[r][i].base
Moves(p, q, k, s) ==
    /\ s = table[q][k] /\ NextSegment = <<q, s>> /\ <<q, s>> \in compact.todo /\ compact.cursor <= s.base
    /\ \A r \in Proc : DOMAIN table'[r] = DOMAIN table[r]
    /\ table'[q][k] = [s EXCEPT !.base = compact.cursor]
    /\ \A r \in Proc : \A i \in DOMAIN table[r] : (r = q /\ i = k) \/ (<<r, table[r][i]>> # <<q, s>> /\ Stays(s, r, i))
    /\ \/ thr[p].at = "moving" /\ s.base = compact.cursor /\ mem' = mem
       \/ /\ thr[p].at = "copying" /\ Undisturbed(q)
          /\ mem' = Keep(WriteBack(compact.cursor, s.size), table')
    /\ compact' = [todo |-> compact.todo \ {<<q, s>>}, copy |-> Blank, cursor |-> compact.cursor + s.size]

LEMMA MoveIs ==
    ASSUME IndInv, NEW p \in Proc, MoveSegment(p)
    PROVE  /\ table' \in [Proc -> Seq(Segment)]
           /\ \E q \in Proc, s \in Segment : \E k \in DOMAIN table[q] : Moves(p, q, k, s)
<1>0. Types /\ Layout /\ Moving
  BY DEF IndInv
<1>1. compact.todo # {} /\ Compacting
  BY <1>0 DEF MoveSegment, Moving, Compacting
<1>2. NextSegment \in compact.todo /\ \A f \in compact.todo : NextSegment[2].base <= f[2].base
  BY <1>0, <1>1, NextExists
<1>3. NextSegment \in Proc \X Segment
  BY <1>0, <1>2 DEF Types
<1>4. PICK q \in Proc, s \in Segment : NextSegment = <<q, s>>
  BY <1>3
<1>5. /\ table' = [table EXCEPT ![NextSegment[1]] =
                     [i \in DOMAIN @ |-> IF @[i] = NextSegment[2] THEN [NextSegment[2] EXCEPT !.base = compact.cursor]
                                         ELSE @[i]]]
      /\ \/ thr[p].at = "moving" /\ NextSegment[2].base = compact.cursor /\ mem' = mem
         \/ /\ thr[p].at = "copying" /\ Undisturbed(NextSegment[1])
            /\ mem' = Keep(WriteBack(compact.cursor, NextSegment[2].size), table')
      /\ compact' = [todo |-> compact.todo \ {NextSegment}, copy |-> Blank, cursor |-> compact.cursor + NextSegment[2].size]
  BY DEF MoveSegment
<1>6. /\ table' = [table EXCEPT ![q] =
                     [i \in DOMAIN table[q] |-> IF table[q][i] = s THEN [s EXCEPT !.base = compact.cursor]
                                                ELSE table[q][i]]]
      /\ \/ thr[p].at = "moving" /\ s.base = compact.cursor /\ mem' = mem
         \/ /\ thr[p].at = "copying" /\ Undisturbed(q)
            /\ mem' = Keep(WriteBack(compact.cursor, s.size), table')
      /\ compact' = [todo |-> compact.todo \ {<<q, s>>}, copy |-> Blank, cursor |-> compact.cursor + s.size]
  BY <1>4, <1>5
<1>7. \A e \in compact.todo : (\E i \in DOMAIN table[e[1]] : table[e[1]][i] = e[2]) /\ compact.cursor <= e[2].base
  BY <1>0, <1>1 DEF Moving
<1>8. <<q, s>> \in compact.todo
  BY <1>2, <1>4
<1>9. compact.cursor <= s.base /\ \E i \in DOMAIN table[q] : table[q][i] = s
  BY <1>7, <1>8
<1>10. PICK k \in DOMAIN table[q] : table[q][k] = s
  BY <1>9
<1>11. s.base \in Nat /\ s.size \in Nat /\ s.size > 0 /\ s.base < Total
  BY <1>0, <1>10, SegmentFacts
<1>12. ASSUME NEW r \in Proc, NEW i \in DOMAIN table[r], ~(r = q /\ i = k)
       PROVE  <<r, table[r][i]>> # <<q, s>> /\ (Placed(table[r][i]) \/ (<<r, table[r][i]>> \in compact.todo /\ s.base + s.size <= table[r][i].base))
  <2> DEFINE t == table[r][i]
  <2>1. t.base \in Nat /\ t.size \in Nat /\ t.size > 0
    BY <1>0, SegmentFacts
  <2>2. Apart(t, s)
    BY <1>0, <1>10, <1>12 DEF Layout
  <2>3. t # s
    BY <1>11, <2>2 DEF Apart
  <2>4. <<r, t>> \in compact.todo \/ Placed(t)
    BY <1>0, <1>1 DEF Moving
  <2>5. <<r, t>> \in compact.todo => s.base <= t.base
    BY <1>2, <1>4
  <2>6. <<r, t>> \in compact.todo => s.base + s.size <= t.base
    BY <1>11, <2>1, <2>2, <2>5 DEF Apart
  <2> QED BY <2>3, <2>4, <2>6
<1>13. compact.cursor \in Addresses
  <2>1. compact.cursor \in 0 .. Total
    BY <1>0 DEF Types
  <2> QED BY <1>9, <1>11, <2>1, MemoryAssumption DEF Addresses
<1> DEFINE new == [s EXCEPT !.base = compact.cursor]
           row == [i \in DOMAIN table[q] |-> IF table[q][i] = s THEN new ELSE table[q][i]]
<1>14. new \in Segment
  BY <1>13 DEF Segment
<1> HIDE DEF new
<1>15. table[q] \in Seq(Segment) /\ row \in [1 .. Len(table[q]) -> Segment] /\ DOMAIN row = DOMAIN table[q]
  BY <1>0, <1>14 DEF Types
<1>16. row \in Seq(Segment)
  <2> HIDE DEF row
  <2> QED BY <1>15
<1>17. row[k] = new /\ \A i \in DOMAIN table[q] : i # k => row[i] = table[q][i]
  BY <1>10, <1>12
<1>18. table' = [table EXCEPT ![q] = row]
  BY <1>6 DEF new
<1> HIDE DEF row
<1>19. table' \in [Proc -> Seq(Segment)] /\ table'[q] = row /\ \A r \in Proc : r # q => table'[r] = table[r]
  BY <1>0, <1>16, <1>18 DEF Types
<1>20. Moves(p, q, k, s)
  <2>1. \A r \in Proc : DOMAIN table'[r] = DOMAIN table[r]
    BY <1>15, <1>19
  <2>2. \A r \in Proc : \A i \in DOMAIN table[r] : (r = q /\ i = k) \/ table'[r][i] = table[r][i]
    BY <1>17, <1>19
  <2>3. \A r \in Proc : \A i \in DOMAIN table[r] : (r = q /\ i = k) \/ (<<r, table[r][i]>> # <<q, s>> /\ Stays(s, r, i))
    BY <1>12, <2>2 DEF Stays
  <2>4. table'[q][k] = [s EXCEPT !.base = compact.cursor]
    BY <1>17, <1>19 DEF new
  <2> QED BY <1>4, <1>6, <1>8, <1>9, <1>10, <2>1, <2>3, <2>4 DEF Moves
<1> QED BY <1>19, <1>20

\* The bytes of a segment are as many as its size.
LEMMA BytesCount ==
    ASSUME NEW b \in Nat, NEW n \in Nat
    PROVE  IsFiniteSet(b .. (b + n - 1)) /\ Cardinality(b .. (b + n - 1)) = n
<1>1. IsFiniteSet(b .. (b + n - 1)) /\ Cardinality(b .. (b + n - 1)) = IF b > b + n - 1 THEN 0 ELSE (b + n - 1) - b + 1
  BY FS_Interval
<1>2. (IF b > b + n - 1 THEN 0 ELSE (b + n - 1) - b + 1) = n
  OBVIOUS
<1> QED BY <1>1, <1>2

\* Taking the bytes S out of O and putting as many back does not enlarge it.
LEMMA ExchangeCount ==
    ASSUME NEW O, IsFiniteSet(O), NEW S \in SUBSET O, NEW N, IsFiniteSet(N), Cardinality(N) = Cardinality(S),
           NEW O2 \in SUBSET ((O \ S) \cup N)
    PROVE  Cardinality(O2) \in Nat /\ Cardinality(O2) <= Cardinality(O)
<1>1. IsFiniteSet(S) /\ Cardinality(S) \in Nat /\ Cardinality(O) \in Nat
  BY FS_Subset, FS_CardinalityType
<1>2. IsFiniteSet(O \ S) /\ Cardinality(O \ S) = Cardinality(O) - Cardinality(S)
  <2>1. O \cap S = S
    OBVIOUS
  <2>2. IsFiniteSet(O \ S) /\ Cardinality(O \ S) = Cardinality(O) - Cardinality(O \cap S)
    BY FS_Difference
  <2> QED BY <2>1, <2>2
<1> DEFINE R == O \ S
           U == R \cup N
<1> HIDE DEF R
<1>3. IsFiniteSet(R) /\ Cardinality(R) = Cardinality(O) - Cardinality(S)
  BY <1>2 DEF R
<1>4. IsFiniteSet(U) /\ Cardinality(U) = Cardinality(R) + Cardinality(N) - Cardinality(R \cap N)
  BY <1>3, FS_Union
<1>5. Cardinality(R \cap N) \in Nat
  BY <1>3, FS_Intersection, FS_CardinalityType
<1>6. O2 \subseteq U
  BY DEF R
<1> HIDE DEF U
<1>7. IsFiniteSet(O2) /\ Cardinality(O2) <= Cardinality(U) /\ Cardinality(O2) \in Nat /\ Cardinality(U) \in Nat
  BY <1>4, <1>6, FS_Subset, FS_CardinalityType
<1> QED BY <1>1, <1>3, <1>4, <1>5, <1>7

LEMMA MoveSegmentInd ==
    ASSUME IndInv, NEW p \in Proc, MoveSegment(p)
    PROVE  IndInv'
<1>0. Types /\ (\A r \in Proc : Owner(r)) /\ Layout /\ Allocation /\ Moving /\ BlocksApart /\ (PromptStdin => Data)
  BY DEF IndInv
<1>1. /\ live' = live /\ swapped' = swapped /\ suspended' = suspended /\ stdin' = stdin
      /\ swapFile' = swapFile /\ written' = written /\ thr' = [thr EXCEPT ![p].at = "moving"]
      /\ thr[p].at \in {"moving", "copying"}
  BY DEF MoveSegment
<1>t. /\ thr' \in [Proc -> [at : Points, id : Nat, size : Nat, base : Nat]]
      /\ thr'[p].at = "moving" /\ thr'[p].id = thr[p].id /\ thr'[p].size = thr[p].size
      /\ \A r \in Proc : r # p => thr'[r] = thr[r]
  BY <1>0, <1>1 DEF Types, Points
<1>o. \A r \in Proc : r # p => thr'[r].at \in {"idle", "start"}
  <2>1. thr[p].at \in Allocating
    BY <1>1 DEF Allocating
  <2> QED BY <1>0, <1>t, <2>1, OthersWait
<1>m. Compacting
  BY <1>1 DEF Compacting
<1>2. table' \in [Proc -> Seq(Segment)] /\ \E q \in Proc, s \in Segment : \E k \in DOMAIN table[q] : Moves(p, q, k, s)
  BY MoveIs
<1>3. PICK q \in Proc, s \in Segment : \E k \in DOMAIN table[q] : Moves(p, q, k, s)
  BY <1>2
<1>4. PICK k \in DOMAIN table[q] : Moves(p, q, k, s)
  BY <1>3
<1>5. PICK c \in Nat : c = compact.cursor /\ c <= Total
  BY <1>0, MemoryAssumption DEF Types
<1> DEFINE n == [s EXCEPT !.base = c]
<1>6. /\ table[q][k] = s /\ <<q, s>> \in compact.todo /\ c <= s.base
      /\ \A r \in Proc : DOMAIN table'[r] = DOMAIN table[r]
      /\ table'[q][k] = n
      /\ \/ thr[p].at = "moving" /\ s.base = c /\ mem' = mem
         \/ /\ thr[p].at = "copying" /\ Undisturbed(q)
            /\ mem' = Keep(WriteBack(c, s.size), table')
      /\ compact' = [todo |-> compact.todo \ {<<q, s>>}, copy |-> Blank, cursor |-> c + s.size]
      /\ NextSegment = <<q, s>>
  BY <1>4, <1>5 DEF Moves
<1>7. \A r \in Proc : \A i \in DOMAIN table[r] : (r = q /\ i = k) \/
         /\ <<r, table[r][i]>> # <<q, s>> /\ table'[r][i] = table[r][i]
         /\ \/ table[r][i].base + table[r][i].size <= c
            \/ <<r, table[r][i]>> \in compact.todo /\ s.base + s.size <= table[r][i].base
  BY <1>4, <1>5 DEF Moves, Stays, Placed
<1>8. s.base \in Nat /\ s.size \in Nat /\ s.size > 0 /\ s.base + s.size <= Total
  BY <1>0, <1>6, SegmentFacts DEF Layout
<1>9. n.base = c /\ n.size = s.size /\ n.id = s.id
  BY DEF Segment
<1> HIDE DEF n
<1>10. \A r \in Proc : \A i \in DOMAIN table[r] : (r = q /\ i = k) \/ (table'[r][i] = table[r][i] /\ Apart(n, table[r][i]) /\ Apart(table[r][i], n))
  <2> SUFFICES ASSUME NEW r \in Proc, NEW i \in DOMAIN table[r], ~(r = q /\ i = k)
               PROVE  table'[r][i] = table[r][i] /\ Apart(n, table[r][i]) /\ Apart(table[r][i], n)
    OBVIOUS
  <2>1. table[r][i].base \in Nat /\ table[r][i].size \in Nat
    BY <1>0, SegmentFacts
  <2>2. table'[r][i] = table[r][i] /\ (table[r][i].base + table[r][i].size <= c \/ s.base + s.size <= table[r][i].base)
    BY <1>7
  <2>3. c + s.size <= s.base + s.size
    BY <1>6, <1>8
  <2>4. table[r][i].base + table[r][i].size <= n.base \/ n.base + n.size <= table[r][i].base
    BY <1>8, <1>9, <2>1, <2>2, <2>3
  <2> QED BY <2>2, <2>4 DEF Apart
<1>11. Layout'
  <2>1. ASSUME NEW r \in Proc, NEW i \in DOMAIN table[r]
        PROVE  table'[r][i].base + table'[r][i].size <= Total
    <3>1. CASE r = q /\ i = k
      BY <1>6, <1>8, <1>9, <3>1, MemoryAssumption
    <3>2. CASE ~(r = q /\ i = k)
      BY <1>0, <1>10, <3>2 DEF Layout
    <3> QED BY <3>1, <3>2
  <2>2. ASSUME NEW r1 \in Proc, NEW r2 \in Proc, NEW i \in DOMAIN table[r1], NEW j \in DOMAIN table[r2]
        PROVE  (r1 = r2 /\ i = j) \/ Apart(table'[r1][i], table'[r2][j])
    <3>1. CASE r1 = q /\ i = k
      BY <1>6, <1>10, <3>1
    <3>2. CASE ~(r1 = q /\ i = k) /\ r2 = q /\ j = k
      BY <1>6, <1>10, <3>2
    <3>3. CASE ~(r1 = q /\ i = k) /\ ~(r2 = q /\ j = k)
      BY <1>0, <1>10, <3>3 DEF Layout
    <3> QED BY <3>1, <3>2, <3>3
  <2> QED BY <1>6, <2>1, <2>2 DEF Layout, Apart
<1>12. Types'
  <2>1. c + s.size \in 0 .. Total
    BY <1>6, <1>8, MemoryAssumption
  <2>2. compact.todo \in SUBSET (Proc \X Segment)
    BY <1>0 DEF Types
  <2>3. /\ compact' = [todo |-> compact'.todo, cursor |-> compact'.cursor, copy |-> compact'.copy]
        /\ compact'.todo \subseteq Proc \X Segment /\ compact'.cursor \in 0 .. Total
    BY <1>6, <2>1, <2>2
  <2>4. mem' = [a \in Addresses |-> mem'[a]]
    BY <1>0, <1>6 DEF Keep, Types
  <2> QED BY <1>0, <1>1, <1>t, <1>2, <2>3, <2>4 DEF Types
<1>13. ASSUME NEW r \in Proc PROVE Owner(r)'
  <2>1. \A i \in DOMAIN table[r] : table'[r][i].id = table[r][i].id
    BY <1>6, <1>9, <1>10
  <2>2. \A id : HasId(table'[r], id) <=> HasId(table[r], id)
    BY <1>6, <2>1 DEF HasId
  <2>3. table[r] = <<>> => table'[r] = <<>>
    BY <1>2, <1>6
  <2>4. Owner(r)
    BY <1>0
  <2>5. \A i, j \in DOMAIN table'[r] : table'[r][i].id = table'[r][j].id => i = j
    BY <1>6, <2>1, <2>4 DEF Owner
  <2>6. (r \notin live => table'[r] = <<>>) /\ (r \in swapped => table'[r] = <<>>) /\ (r \notin swapped => suspended[r] = <<>>) /\ Len(suspended[r]) <= 1
    BY <2>3, <2>4 DEF Owner
  <2>7. thr[r].at # "idle" => /\ thr[r].id \in Ids /\ thr[r].size \in Sizes
                              /\ r \in live /\ r \notin swapped /\ ~HasId(table'[r], thr[r].id)
    BY <2>2, <2>4 DEF Owner
  <2>9. \A e \in stdin : e[1] = r => HasId(table'[r], e[2].id) \/ HasId(suspended[r], e[2].id)
    BY <2>2, <2>4 DEF Owner
  <2>10. thr'[r].at # "idle" => thr[r].at # "idle" /\ thr'[r].id = thr[r].id /\ thr'[r].size = thr[r].size
    BY <1>1, <1>t
  <2>8. \A id \in Ids : <<r, id>> \in written => HasId(table'[r], id) \/ HasId(suspended[r], id)
    BY <2>2, <2>4 DEF Owner
  <2> QED BY <1>1, <2>5, <2>6, <2>7, <2>8, <2>9, <2>10 DEF Owner, HasId
<1>14. BlocksApart'
  BY <1>0, <1>1 DEF BlocksApart
<1>16. OneAllocator' /\ CompactionSuffices'
  BY <1>t, <1>o DEF OneAllocator, Allocating, CompactionSuffices
<1>17. HoleKept'
  BY <1>t, <1>o DEF HoleKept
<1>18. RoomLeft'
  <2>1. Occupied(table') \subseteq (Occupied(table) \ Bytes(s)) \cup Bytes(n)
    <3> SUFFICES ASSUME NEW a \in Addresses, NEW r \in Proc, NEW i \in DOMAIN table'[r], a \in Bytes(table'[r][i]),
                        a \notin Bytes(n)
                 PROVE  a \in Occupied(table) /\ a \notin Bytes(s)
      BY DEF Occupied
    <3>1. i \in DOMAIN table[r] /\ ~(r = q /\ i = k) /\ table'[r][i] = table[r][i]
      BY <1>6, <1>10
    <3>2. Apart(table[r][i], s)
      BY <1>0, <1>6, <3>1 DEF Layout
    <3>3. table[r][i].base \in Nat /\ table[r][i].size \in Nat
      BY <1>0, <3>1, SegmentFacts
    <3>4. a \notin Bytes(s)
      BY <1>8, <3>1, <3>2, <3>3 DEF Apart, Bytes
    <3> QED BY <3>1, <3>4 DEF Occupied
  <2>2. Bytes(s) \subseteq Occupied(table)
    BY <1>0, <1>6, BytesOf DEF Occupied
  <2>3. IsFiniteSet(Bytes(n)) /\ Cardinality(Bytes(n)) = Cardinality(Bytes(s))
    BY <1>5, <1>8, <1>9, BytesCount DEF Bytes
  <2>4. IsFiniteSet(Occupied(table)) /\ Cardinality(Occupied(table)) \in Nat
    BY OccupiedFinite DEF Occupied
  <2>5. Cardinality(Occupied(table')) \in Nat /\ Cardinality(Occupied(table')) <= Cardinality(Occupied(table))
    BY <2>1, <2>2, <2>3, <2>4, ExchangeCount
  <2>6. Cardinality(Occupied(table')) + thr[p].size <= Total
    <3>1. Cardinality(Occupied(table)) + thr[p].size <= Total /\ thr[p].size \in Nat
      BY <1>0, <1>1 DEF Allocation, RoomLeft, Types
    <3> QED BY <2>4, <2>5, <3>1, MemoryAssumption
  <2> QED BY <1>t, <1>o, <2>6 DEF RoomLeft, Occupied, Bytes
<1>19. Moving'
  <2>1. ASSUME NEW e \in compact'.todo
        PROVE  (\E i \in DOMAIN table'[e[1]] : table'[e[1]][i] = e[2]) /\ c + s.size <= e[2].base
    <3>1. e \in compact.todo /\ e # <<q, s>> /\ e \in Proc \X Segment
      BY <1>0, <1>6 DEF Types
    <3>2. PICK r \in Proc, t \in Segment : e = <<r, t>>
      BY <3>1
    <3>3. PICK i \in DOMAIN table[r] : table[r][i] = t
      <4>1. \E i \in DOMAIN table[e[1]] : table[e[1]][i] = e[2]
        BY <1>0, <1>m, <3>1 DEF Moving
      <4> QED BY <3>2, <4>1
    <3>4. ~(r = q /\ i = k) /\ table'[r][i] = t
      BY <1>6, <1>7, <3>1, <3>2, <3>3
    <3>5. t.base \in Nat /\ t.size \in Nat /\ t.size > 0
      BY <1>0, <3>3, SegmentFacts
    <3>6. c <= t.base
      BY <1>0, <1>m, <1>5, <3>1, <3>2 DEF Moving
    <3>7. t.base + t.size <= c \/ s.base + s.size <= t.base
      BY <1>7, <3>3, <3>4
    <3>8. c + s.size <= t.base
      BY <1>5, <1>6, <1>8, <3>5, <3>6, <3>7
    <3> QED BY <1>6, <3>2, <3>4, <3>8
  <2>2. ASSUME NEW r \in Proc, NEW i \in DOMAIN table[r]
        PROVE  <<r, table'[r][i]>> \in compact'.todo \/ table'[r][i].base + table'[r][i].size <= c + s.size
    <3>1. CASE r = q /\ i = k
      BY <1>6, <1>8, <1>9, <3>1
    <3>2. CASE ~(r = q /\ i = k)
      <4>1. table[r][i].base \in Nat /\ table[r][i].size \in Nat
        BY <1>0, SegmentFacts
      <4>2. CASE <<r, table[r][i]>> \in compact.todo
        BY <1>6, <1>7, <3>2, <4>2
      <4>3. CASE table[r][i].base + table[r][i].size <= c
        <5>1. table[r][i].base + table[r][i].size <= c + s.size
          BY <1>8, <4>1, <4>3
        <5> QED BY <1>7, <3>2, <5>1
      <4> QED BY <1>7, <3>2, <4>2, <4>3
    <3> QED BY <3>1, <3>2
  <2>3. compact'.cursor = c + s.size
    BY <1>6
  <2>4. ASSUME NEW a \in 0 .. (compact'.cursor - 1) PROVE a \in Occupied(table')
    <3>0. a \in Addresses /\ a \in Nat
      BY <1>6, <1>8, <2>3, MemoryAssumption DEF Addresses
    <3>1. CASE a < c
      <4>1. a \in Occupied(table)
        BY <1>0, <1>m, <1>5, <3>0, <3>1 DEF Moving
      <4>2. PICK r \in Proc : \E i \in DOMAIN table[r] : a \in Bytes(table[r][i])
        BY <4>1 DEF Occupied
      <4>3. PICK i \in DOMAIN table[r] : a \in Bytes(table[r][i])
        BY <4>2
      <4>4. ~(r = q /\ i = k)
        BY <1>6, <1>8, <3>1, <4>3 DEF Bytes
      <4> QED BY <1>6, <1>10, <3>0, <4>3, <4>4 DEF Occupied
    <3>2. CASE ~(a < c)
      <4>1. a \in Bytes(n)
        BY <1>8, <1>9, <2>3, <3>0, <3>2 DEF Bytes
      <4> QED BY <1>6, <3>0, <4>1 DEF Occupied
    <3> QED BY <3>1, <3>2
  <2>5. \A r \in Proc : thr'[r].at # "copying"
    BY <1>t, <1>o
  <2> QED BY <1>6, <2>1, <2>2, <2>3, <2>4, <2>5 DEF Moving, Placed
<1>20. ASSUME PromptStdin, NEW a \in Addresses, NEW r \in Proc, NEW l \in DOMAIN table'[r], a \in Bytes(table'[r][l])
       PROVE  mem'[a] = IF r = q /\ l = k THEN mem[a - c + s.base] ELSE mem[a]
  <2>0. a \in Nat
    BY DEF Addresses
  <2>1. a \in c .. (c + s.size - 1) <=> r = q /\ l = k
    <3>1. CASE r = q /\ l = k
      BY <1>6, <1>8, <1>9, <1>20, <3>1 DEF Bytes
    <3>2. CASE ~(r = q /\ l = k)
      <4>1. l \in DOMAIN table[r] /\ table'[r][l] = table[r][l] /\ Apart(n, table[r][l])
        BY <1>6, <1>10, <3>2
      <4>2. table[r][l].base \in Nat /\ table[r][l].size \in Nat
        BY <1>0, <4>1, SegmentFacts
      <4> QED BY <1>8, <1>9, <1>20, <2>0, <3>2, <4>1, <4>2 DEF Apart, Bytes
    <3> QED BY <3>1, <3>2
  <2>2. CASE thr[p].at = "moving"
    BY <1>6, <1>8, <2>0, <2>2
  <2>3. CASE thr[p].at = "copying"
    <3>1. mem'[a] = WriteBack(c, s.size)[a]
      BY <1>6, <1>20, <2>3 DEF Keep
    <3>2. CASE r = q /\ l = k
      <4>1. PICK i \in 0 .. (s.size - 1) : i = a - c /\ a - c + s.base = s.base + i
        BY <1>8, <2>0, <2>1, <3>2
      <4>2. compact.copy[i] = mem[s.base + i]
        <5>1. \A j \in 0 .. (NextSegment[2].size - 1) : compact.copy[j] = mem[NextSegment[2].base + j]
          BY <1>0, <1>20, <2>3 DEF Data, CopyKept
        <5>2. NextSegment[2] = s
          BY <1>6
        <5> QED BY <5>1, <5>2
      <4>3. mem'[a] = compact.copy[a - c]
        BY <2>1, <3>1, <3>2 DEF WriteBack
      <4> QED BY <3>2, <4>1, <4>2, <4>3
    <3>3. CASE ~(r = q /\ l = k)
      BY <2>1, <3>1, <3>3 DEF WriteBack
    <3> QED BY <3>2, <3>3
  <2> QED BY <1>1, <2>2, <2>3
<1>21. ASSUME PromptStdin PROVE DataIntact'
  <2> SUFFICES ASSUME NEW r \in Proc, NEW l \in DOMAIN table'[r], <<r, table'[r][l].id>> \in written',
                      NEW i \in 0 .. (table'[r][l].size - 1)
               PROVE  mem'[table'[r][l].base + i] = Byte(r, table'[r][l].id, i)
    BY DEF DataIntact, Byte
  <2>0. l \in DOMAIN table[r] /\ DataIntact
    BY <1>0, <1>6, <1>21 DEF Data
  <2>1. CASE r = q /\ l = k
    <3>1. table'[r][l] = n /\ i \in Nat /\ i < s.size
      BY <1>6, <1>8, <1>9, <2>1
    <3>2. PICK a \in Addresses : a = c + i
      BY <1>6, <1>8, <3>1, MemoryAssumption DEF Addresses
    <3>3. a \in Bytes(table'[r][l])
      BY <1>8, <1>9, <3>1, <3>2 DEF Bytes
    <3>4. mem'[a] = mem[a - c + s.base] /\ a - c + s.base = s.base + i
      <4>1. mem'[a] = mem[a - c + s.base]
        BY <1>20, <1>21, <2>1, <3>3
      <4>2. a - c + s.base = s.base + i
        BY <1>8, <3>1, <3>2
      <4> QED BY <4>1, <4>2
    <3>5. mem[s.base + i] = Byte(q, s.id, i)
      BY <1>1, <1>6, <1>9, <2>0, <2>1, <3>1 DEF DataIntact
    <3> QED BY <1>9, <2>1, <3>1, <3>2, <3>4, <3>5
  <2>2. CASE ~(r = q /\ l = k)
    <3> DEFINE t == table[r][l]
    <3>1. table'[r][l] = t
      BY <1>10, <2>0, <2>2
    <3>2. t.base \in Nat /\ t.size \in Nat /\ i \in Nat /\ t.base + i \in Bytes(t)
      BY <1>0, <2>0, <3>1, SegmentFacts DEF Bytes
    <3>3. PICK a \in Addresses : a = t.base + i
      BY <1>0, <2>0, <3>2, BytesOf
    <3>4. mem'[a] = mem[a]
      BY <1>20, <1>21, <2>2, <3>1, <3>2, <3>3
    <3>5. mem[t.base + i] = Byte(r, t.id, i)
      BY <1>1, <2>0, <3>1 DEF DataIntact
    <3> QED BY <3>1, <3>3, <3>4, <3>5
  <2> QED BY <2>1, <2>2
<1>22. ASSUME PromptStdin PROVE StdinKnown'
  <2> SUFFICES ASSUME NEW e \in stdin
               PROVE  e[1] \notin swapped /\ \E l \in DOMAIN table'[e[1]] : table'[e[1]][l] = e[2]
    BY <1>1 DEF StdinKnown
  <2>0. e[1] \in Proc
    BY <1>0 DEF Types
  <2>1. e[1] \notin swapped /\ \E l \in DOMAIN table[e[1]] : table[e[1]][l] = e[2]
    BY <1>0, <1>22 DEF Data, StdinKnown
  <2>2. PICK l \in DOMAIN table[e[1]] : table[e[1]][l] = e[2]
    BY <2>1
  <2>3. table'[e[1]][l] = table[e[1]][l]
    <3>1. CASE e[1] = q /\ l = k
      <4>1. s.base = c
        BY <1>6, <1>22, <3>1 DEF Undisturbed, Waits
      <4>2. n = s
        BY <4>1 DEF n, Segment
      <4> QED BY <1>6, <3>1, <4>2
    <3>2. CASE ~(e[1] = q /\ l = k)
      BY <1>10, <2>0, <3>2
    <3> QED BY <3>1, <3>2
  <2> QED BY <1>6, <2>0, <2>1, <2>2, <2>3
<1>23. PromptStdin => Data'
  <2>1. PromptStdin => SuspendedDataIntact'
    BY <1>0, <1>1, SwapUntouched DEF Data
  <2>2. CopyKept'
    BY <1>t, <1>o, NothingCopied
  <2> QED BY <1>21, <1>22, <2>1, <2>2 DEF Data
<1> QED BY <1>11, <1>12, <1>13, <1>14, <1>16, <1>17, <1>18, <1>19, <1>23 DEF IndInv, Allocation

\* When every segment is placed the rest of memory is one hole.
LEMMA CompactionMadeRoom ==
    ASSUME IndInv, NEW p \in Proc, thr[p].at = "moving", compact.todo = {}
    PROVE  \E h \in get_free_holes : h.size >= thr[p].size
<1>0. Types /\ Owner(p) /\ Layout /\ Allocation /\ Moving /\ Compacting
  BY DEF IndInv, Compacting
<1>1. PICK c \in Nat : c = compact.cursor /\ c <= Total
  BY <1>0, MemoryAssumption DEF Types
<1>2. PICK size \in Nat : size = thr[p].size /\ size > 0
  BY <1>0, SizeFacts DEF Owner
<1>3. \A s \in Segments : s.base \in Nat /\ s.size \in Nat /\ s.base < Total /\ s.base + s.size <= c
  <2> SUFFICES ASSUME NEW s \in Segments PROVE s.base \in Nat /\ s.size \in Nat /\ s.base < Total /\ s.base + s.size <= c
    OBVIOUS
  <2>1. PICK q \in Proc : \E i \in DOMAIN table[q] : table[q][i] = s
    BY SegmentsAre
  <2>2. PICK i \in DOMAIN table[q] : table[q][i] = s
    BY <2>1
  <2>3. Placed(table[q][i])
    BY <1>0 DEF Moving
  <2> QED BY <1>0, <1>1, <2>2, <2>3, SegmentFacts DEF Placed
<1>4. c + size <= Total
  <2>1. 0 .. (c - 1) \subseteq Occupied(table)
    BY <1>0, <1>1 DEF Moving
  <2>2. Cardinality(0 .. (0 + c - 1)) = c
    BY BytesCount
  <2>3. 0 .. (0 + c - 1) = 0 .. (c - 1)
    OBVIOUS
  <2>4. IsFiniteSet(Occupied(table)) /\ Cardinality(Occupied(table)) \in Nat
    BY OccupiedFinite DEF Occupied
  <2>5. Cardinality(0 .. (c - 1)) <= Cardinality(Occupied(table))
    BY <2>1, <2>4, FS_Subset
  <2>6. Cardinality(Occupied(table)) + size <= Total
    BY <1>0, <1>2 DEF Allocation, RoomLeft
  <2> QED BY <1>2, <2>2, <2>3, <2>4, <2>5, <2>6, MemoryAssumption
<1>5. cursor(Total) \in Nat /\ cursor(Total) <= c
  <2>1. Total \in Nat
    BY MemoryAssumption
  <2>2. /\ cursor(Total) \in Nat
        /\ cursor(Total) = 0 \/ \E s \in Segments : cursor(Total) = s.base + s.size
    BY <1>0, <2>1, CursorPasses
  <2> QED BY <1>1, <1>3, <2>2
<1> DEFINE h == [base |-> cursor(Total), size |-> Total - cursor(Total)]
<1>6. Total > cursor(Total) /\ Total - cursor(Total) >= size
  BY <1>2, <1>4, <1>5, MemoryAssumption
<1>7. h \in get_free_holes
  BY <1>6 DEF get_free_holes
<1>8. h.size >= thr[p].size
  BY <1>2, <1>6
<1> QED BY <1>7, <1>8

LEMMA CompactionFinishedInd ==
    ASSUME IndInv, NEW p \in Proc, CompactionFinished(p)
    PROVE  IndInv'
<1>0. Types /\ (\A q \in Proc : Owner(q)) /\ Layout /\ Allocation /\ Moving /\ BlocksApart /\ (PromptStdin => Data)
  BY DEF IndInv
<1>1. /\ live' = live /\ table' = table /\ mem' = mem /\ compact' = compact /\ swapped' = swapped
      /\ suspended' = suspended /\ swapFile' = swapFile /\ written' = written
      /\ thr[p].at = "moving" /\ compact.todo = {} /\ Choice(p, "failed") /\ stdin' = stdin
  BY DEF CompactionFinished
<1>2. Layout' /\ BlocksApart'
  BY <1>0, <1>1, SegmentsKept
<1>3. "failed" \in Points
  BY DEF Points
<1>4. ~ \A g \in get_free_holes : g.size < thr[p].size
  <2>1. PICK h \in get_free_holes : h.size >= thr[p].size
    BY <1>1, CompactionMadeRoom
  <2>2. h.size \in Nat /\ thr[p].size \in Nat
    BY <1>0, HoleIsFree DEF Types
  <2> QED BY <2>1, <2>2
<1>5. /\ thr' \in [Proc -> [at : Points, id : Nat, size : Nat, base : Nat]]
      /\ \A q \in Proc : q # p => thr'[q] = thr[q]
      /\ thr'[p].id = thr[p].id /\ thr'[p].size = thr[p].size
      /\ thr'[p].at = "insert"
      /\ thr'[p].base + thr'[p].size <= Total
      /\ \A q \in Proc : \A j \in DOMAIN table[q] : Apart(thr'[p], table[q][j])
  BY <1>0, <1>1, <1>3, <1>4, ChoiceIs
<1>6. Types'
  BY <1>0, <1>1, <1>5 DEF Types
<1>7. \A q \in Proc : Owner(q)'
  BY <1>1, <1>5, OwnerGoesOn
<1>8. \A q \in Proc : q # p => thr'[q].at \in {"idle", "start"}
  <2>1. thr[p].at \in Allocating
    BY <1>1 DEF Allocating
  <2> QED BY <1>0, <1>5, <2>1, OthersWait
<1>9. Allocation' /\ Moving'
  BY <1>1, <1>5, <1>8, GivenHole
<1>10. PromptStdin => Data'
  <2>1. \A q \in Proc : thr'[q].at # "copying"
    BY <1>5, <1>8
  <2> QED BY <1>0, <1>1, <2>1, NothingCopied, DataSame
<1> QED BY <1>2, <1>6, <1>7, <1>9, <1>10 DEF IndInv

-----------------------------------------------------------------------------
(* Segments that enter a table.                                            *)

LEMMA AppendIs ==
    ASSUME NEW S, NEW q \in Seq(S), NEW e \in S
    PROVE  /\ Append(q, e) \in Seq(S) /\ DOMAIN Append(q, e) = DOMAIN q \cup {Len(q) + 1}
           /\ Len(q) + 1 \notin DOMAIN q /\ Append(q, e)[Len(q) + 1] = e
           /\ \A i \in DOMAIN q : Append(q, e)[i] = q[i]
<1>1. Append(q, e) \in Seq(S) /\ Len(Append(q, e)) = Len(q) + 1
  OBVIOUS
<1>2. Append(q, e)[Len(q) + 1] = e /\ \A i \in DOMAIN q : Append(q, e)[i] = q[i]
  OBVIOUS
<1>3. Len(q) \in Nat /\ DOMAIN q = 1 .. Len(q) /\ DOMAIN Append(q, e) = 1 .. (Len(q) + 1)
  BY <1>1
<1>4. DOMAIN Append(q, e) = DOMAIN q \cup {Len(q) + 1} /\ Len(q) + 1 \notin DOMAIN q
  BY <1>3
<1> QED BY <1>1, <1>2, <1>4

\* A segment that is apart from the others and has its data may enter a table.
LEMMA Added ==
    ASSUME IndInv, NEW p \in Proc, NEW s \in Segment, s.base + s.size <= Total,
           \A q \in Proc : \A j \in DOMAIN table[q] : Apart(s, table[q][j]),
           table' = [table EXCEPT ![p] = Append(@, s)], written' = written,
           \A q \in Proc : \A j \in DOMAIN table[q] : \A a \in Bytes(table[q][j]) : mem'[a] = mem[a],
           PromptStdin /\ <<p, s.id>> \in written => \A i \in 0 .. (s.size - 1) : mem'[s.base + i] = Byte(p, s.id, i)
    PROVE  /\ table' \in [Proc -> Seq(Segment)]
           /\ Layout' /\ (PromptStdin => DataIntact')
           /\ \A q \in Proc : \A i \in DOMAIN table[q] : i \in DOMAIN table'[q] /\ table'[q][i] = table[q][i]
<1>0. Types /\ Layout /\ (PromptStdin => DataIntact)
  BY DEF IndInv, Data
<1>1. table[p] \in Seq(Segment)
  BY <1>0 DEF Types
<1>2. PICK e : e = Len(table[p]) + 1
  OBVIOUS
<1>3. /\ Append(table[p], s) \in Seq(Segment) /\ DOMAIN Append(table[p], s) = DOMAIN table[p] \cup {e}
      /\ e \notin DOMAIN table[p] /\ Append(table[p], s)[e] = s
      /\ \A i \in DOMAIN table[p] : Append(table[p], s)[i] = table[p][i]
  BY <1>1, <1>2, AppendIs
<1>4. table' \in [Proc -> Seq(Segment)] /\ table'[p] = Append(table[p], s) /\ \A q \in Proc : q # p => table'[q] = table[q]
  BY <1>0, <1>3 DEF Types
<1>5. \A q \in Proc : \A i \in DOMAIN table'[q] :
         \/ q = p /\ i = e /\ table'[q][i] = s
         \/ ~(q = p /\ i = e) /\ i \in DOMAIN table[q] /\ table'[q][i] = table[q][i]
  BY <1>3, <1>4
<1>6. Layout'
  <2>1. ASSUME NEW q \in Proc, NEW i \in DOMAIN table'[q]
        PROVE  table'[q][i].base + table'[q][i].size <= Total
    BY <1>0, <1>5 DEF Layout
  <2>2. \A q \in Proc : \A j \in DOMAIN table[q] : Apart(table[q][j], s)
    BY DEF Apart
  <2>3. ASSUME NEW q \in Proc, NEW r \in Proc, NEW i \in DOMAIN table'[q], NEW j \in DOMAIN table'[r]
        PROVE  (q = r /\ i = j) \/ Apart(table'[q][i], table'[r][j])
    <3>1. CASE q = p /\ i = e
      BY <1>5, <3>1
    <3>2. CASE ~(q = p /\ i = e) /\ r = p /\ j = e
      BY <1>5, <2>2, <3>2
    <3>3. CASE ~(q = p /\ i = e) /\ ~(r = p /\ j = e)
      BY <1>0, <1>5, <3>3 DEF Layout
    <3> QED BY <3>1, <3>2, <3>3
  <2> QED BY <2>1, <2>3 DEF Layout, Apart
<1>7. PromptStdin => DataIntact'
  <2> SUFFICES ASSUME PromptStdin, NEW q \in Proc, NEW k \in DOMAIN table'[q], <<q, table'[q][k].id>> \in written',
                      NEW i \in 0 .. (table'[q][k].size - 1)
               PROVE  mem'[table'[q][k].base + i] = Byte(q, table'[q][k].id, i)
    BY DEF DataIntact, Byte
  <2>1. CASE q = p /\ k = e
    BY <1>5, <2>1
  <2>2. CASE ~(q = p /\ k = e)
    <3> DEFINE t == table[q][k]
    <3>1. k \in DOMAIN table[q] /\ table'[q][k] = t
      BY <1>5, <2>2
    <3>2. t.base + i \in Bytes(t)
      <4>1. t.base \in Nat /\ t.size \in Nat /\ i \in 0 .. (t.size - 1)
        BY <1>0, <3>1, SegmentFacts
      <4> HIDE DEF t
      <4> QED BY <4>1 DEF Bytes
    <3>3. mem'[t.base + i] = mem[t.base + i]
      BY <3>1, <3>2
    <3>4. mem[t.base + i] = Byte(q, t.id, i)
      <4>1. DataIntact
        BY <1>0
      <4>2. <<q, t.id>> \in written /\ i \in 0 .. (t.size - 1)
        BY <3>1
      <4> QED BY <3>1, <4>1, <4>2 DEF DataIntact
    <3> QED BY <3>1, <3>3, <3>4
  <2> QED BY <2>1, <2>2
<1>8. \A q \in Proc : \A i \in DOMAIN table[q] : i \in DOMAIN table'[q] /\ table'[q][i] = table[q][i]
  BY <1>3, <1>4
<1> QED BY <1>4, <1>6, <1>7, <1>8

LEMMA InsertSegmentInd ==
    ASSUME IndInv, NEW p \in Proc, InsertSegment(p)
    PROVE  IndInv'
<1>0. Types /\ (\A q \in Proc : Owner(q)) /\ Layout /\ Allocation /\ Moving /\ BlocksApart /\ (PromptStdin => Data)
  BY DEF IndInv
<1> DEFINE s == [id |-> thr[p].id, base |-> thr[p].base, size |-> thr[p].size]
<1>1. /\ live' = live /\ mem' = mem /\ compact' = compact /\ swapped' = swapped
      /\ suspended' = suspended /\ swapFile' = swapFile /\ written' = written
      /\ thr[p].at = "insert" /\ thr' = [thr EXCEPT ![p] = Idle] /\ stdin' = stdin
      /\ table' = [table EXCEPT ![p] = Append(@, s)]
  BY DEF InsertSegment
<1>2. s.id = thr[p].id /\ s.base = thr[p].base /\ s.size = thr[p].size
  OBVIOUS
<1>3. /\ thr[p].id \in Ids /\ thr[p].size \in Sizes /\ p \in live /\ p \notin swapped
      /\ ~HasId(table[p], s.id) /\ suspended[p] = <<>> /\ Owner(p)
  BY <1>0, <1>1 DEF Owner
<1>4. /\ s.base + s.size <= Total
      /\ \A q \in Proc : \A j \in DOMAIN table[q] : Apart(s, table[q][j])
  BY <1>0, <1>1, <1>2 DEF Allocation, HoleKept, Apart
<1>5. s \in Segment
  <2>1. thr[p].base \in Nat /\ thr[p].size \in Nat /\ thr[p].size > 0
    BY <1>0, <1>3, SizeFacts DEF Types
  <2>2. thr[p].base \in Addresses
    BY <1>2, <1>4, <2>1, MemoryAssumption DEF Addresses
  <2> QED BY <1>3, <2>2 DEF Segment
<1> HIDE DEF s
<1>6. <<p, s.id>> \notin written
  <2>1. s.id \in Ids /\ ~HasId(suspended[p], s.id)
    BY <1>2, <1>3 DEF HasId
  <2> QED BY <1>3, <2>1 DEF Owner
<1>7. /\ table' \in [Proc -> Seq(Segment)] /\ Layout' /\ (PromptStdin => DataIntact')
      /\ \A q \in Proc : \A i \in DOMAIN table[q] : i \in DOMAIN table'[q] /\ table'[q][i] = table[q][i]
  BY <1>1, <1>4, <1>5, <1>6, Added
<1>8. BlocksApart'
  BY <1>0, <1>1 DEF BlocksApart
<1>10. Idle \in [at : Points, id : Nat, size : Nat, base : Nat] /\ Idle.at = "idle"
  BY DEF Idle, Points
<1>11. /\ thr' \in [Proc -> [at : Points, id : Nat, size : Nat, base : Nat]]
       /\ thr'[p] = Idle /\ \A q \in Proc : q # p => thr'[q] = thr[q]
  BY <1>0, <1>1, <1>10 DEF Types
<1>12. Types'
  BY <1>0, <1>1, <1>7, <1>11 DEF Types
<1>13. \A q \in Proc : thr'[q].at \in {"idle", "start"}
  <2>1. thr[p].at \in Allocating
    BY <1>1 DEF Allocating
  <2>2. \A q \in Proc : q # p => thr[q].at \in {"idle", "start"}
    BY <1>0, <2>1, OthersWait
  <2> QED BY <1>10, <1>11, <2>2
<1>9. ASSUME PromptStdin PROVE Data'
  <2>0. Data
    BY <1>0, <1>9
  <2>1. SuspendedDataIntact'
    BY <1>1, <2>0, SwapUntouched DEF Data
  <2>2. CopyKept'
    BY <1>13, NothingCopied
  <2>3. StdinKnown'
    <3> SUFFICES ASSUME NEW e \in stdin
                 PROVE  e[1] \notin swapped /\ \E l \in DOMAIN table'[e[1]] : table'[e[1]][l] = e[2]
      BY <1>1 DEF StdinKnown
    <3>1. e[1] \in Proc
      BY <1>0 DEF Types
    <3>2. e[1] \notin swapped /\ \E l \in DOMAIN table[e[1]] : table[e[1]][l] = e[2]
      BY <2>0 DEF Data, StdinKnown
    <3> QED BY <1>7, <3>1, <3>2
  <2> QED BY <1>7, <1>9, <2>1, <2>2, <2>3 DEF Data
<1>14. ASSUME NEW q \in Proc PROVE Owner(q)'
  <2>1. CASE q # p
    <3>1. table'[q] = table[q]
      BY <1>0, <1>1, <2>1 DEF Types
    <3> QED BY <1>0, <1>1, <1>11, <2>1, <3>1, OwnerKept
  <2>2. CASE q = p
    <3>1. PICK e : e = Len(table[p]) + 1
      OBVIOUS
    <3>2. table[p] \in Seq(Segment) /\ table'[p] = Append(table[p], s)
      BY <1>0, <1>1 DEF Types
    <3>3. /\ DOMAIN table'[p] = DOMAIN table[p] \cup {e}
          /\ e \notin DOMAIN table[p] /\ table'[p][e] = s
          /\ \A i \in DOMAIN table[p] : table'[p][i] = table[p][i]
      BY <1>5, <3>1, <3>2, AppendIs
    <3>4. \A i, j \in DOMAIN table'[p] : table'[p][i].id = table'[p][j].id => i = j
      BY <1>3, <3>3 DEF Owner, HasId
    <3>5. \A d \in Ids : HasId(table[p], d) => HasId(table'[p], d)
      BY <3>3 DEF HasId
    <3>6. \A d \in Ids : <<p, d>> \in written => HasId(table'[p], d) \/ HasId(suspended[p], d)
      BY <1>3, <3>5 DEF Owner
    <3>7. Len(suspended[p]) <= 1
      BY <1>3 DEF Owner
    <3>8. \A d \in Ids : <<p, d>> \in written' => HasId(table'[p], d) \/ HasId(suspended'[p], d)
      BY <1>1, <3>6
    <3>9. p \in live' /\ p \notin swapped' /\ suspended'[p] = <<>> /\ Len(suspended'[p]) <= 1 /\ thr'[p].at = "idle"
      BY <1>1, <1>3, <1>10, <1>11, <3>7
    <3>10. ASSUME NEW w \in stdin', w[1] = p PROVE HasId(table'[p], w[2].id)
      <4>1. w \in Proc \X Segment /\ w[2].id \in Ids
        BY <1>0, <1>1 DEF Types, Segment
      <4>2. HasId(table[p], w[2].id) \/ HasId(suspended[p], w[2].id)
        BY <1>1, <1>3, <3>10 DEF Owner
      <4>3. ~HasId(suspended[p], w[2].id)
        BY <1>3 DEF HasId
      <4> QED BY <3>5, <4>1, <4>2, <4>3
    <3> QED BY <2>2, <3>4, <3>8, <3>9, <3>10 DEF Owner, HasId
  <2> QED BY <2>1, <2>2
<1> QED BY <1>7, <1>8, <1>9, <1>12, <1>13, <1>14, NoneAllocates DEF IndInv

-----------------------------------------------------------------------------
(* Suspension to SWAP and back.                                            *)

\* Byte i of a segment is at i % B of its block i \div B, which is one of the blocks it needs.
LEMMA DivMod ==
    ASSUME NEW i \in Nat, NEW B \in Nat \ {0}
    PROVE  /\ i \div B \in Nat /\ (i % B) \in 0 .. (B - 1)
           /\ i = (i \div B) * B + (i % B)
<1>1. (i % B) \in 0 .. (B - 1)
  OBVIOUS
<1>2. i \div B \in Nat
  OBVIOUS
<1>3. i = (i \div B) * B + (i % B)
  OBVIOUS
<1> QED BY <1>1, <1>2, <1>3

LEMMA TimesGrows ==
    ASSUME NEW x \in Nat, NEW y \in Nat, NEW B \in Nat, x <= y
    PROVE  x * B <= y * B
OBVIOUS

LEMMA BlockOfByte ==
    ASSUME NEW size \in Nat, NEW i \in 0 .. (size - 1), NEW B \in Nat \ {0}
    PROVE  (i \div B) + 1 \in 1 .. ((size + B - 1) \div B)
<1>0. i \in Nat /\ i < size /\ size + B - 1 \in Nat
  OBVIOUS
<1>1. PICK d \in Nat, m \in 0 .. (B - 1) : d = i \div B /\ i = d * B + m
  BY <1>0, DivMod
<1>2. PICK q \in Nat, r \in 0 .. (B - 1) : q = (size + B - 1) \div B /\ size + B - 1 = q * B + r
  BY <1>0, DivMod
<1>3. ~(q <= d)
  <2> SUFFICES ASSUME q <= d PROVE FALSE
    OBVIOUS
  <2>1. q * B <= d * B
    BY TimesGrows
  <2>2. PICK qb \in Nat : qb = q * B
    OBVIOUS
  <2>3. PICK db \in Nat : db = d * B
    OBVIOUS
  <2>4. qb <= db /\ i = db + m /\ size + B - 1 = qb + r
    BY <1>1, <1>2, <2>1, <2>2, <2>3
  <2> QED BY <1>0, <2>4
<1> QED BY <1>1, <1>2, <1>3

Need(s) == (s.size + BlockSize - 1) \div BlockSize

\* The k-th block of segment s.
Chunk(s, k) ==
    [j \in 0 .. (BlockSize - 1) |->
        LET at == (k - 1) * BlockSize + j
        IN  IF at < s.size THEN mem[s.base + at] ELSE Blank]

\* SWAP with segment s in these blocks.
Saved(s, blocks) ==
    [b \in Blocks |-> IF b \in Range(blocks) THEN Chunk(s, CHOOSE k \in DOMAIN blocks : blocks[k] = b)
                      ELSE swapFile[b]]

\* The outcomes of process_suspend for a process with at most one segment.
NothingToSave(p) ==
    /\ Len(table[p]) = 0 /\ swapped' = swapped \cup {p} /\ suspended' = [suspended EXCEPT ![p] = <<>>]
    /\ table' = [table EXCEPT ![p] = <<>>] /\ swapFile' = KeepBlocks(swapFile, suspended')
SwapRefused ==
    /\ swapped' = swapped /\ suspended' = suspended /\ table' = table
    /\ swapFile' = KeepBlocks(swapFile, suspended')
OneSaved(p, s, blocks) ==
    /\ Len(table[p]) = 1 /\ s = table[p][1] /\ blocks = get_free_swap_blocks(Need(s)) /\ blocks # <<>>
    /\ swapped' = swapped \cup {p} /\ table' = [table EXCEPT ![p] = <<>>]
    /\ suspended' = [suspended EXCEPT ![p] = <<[id |-> s.id, size |-> s.size, blocks |-> blocks]>>]
    /\ swapFile' = KeepBlocks(Saved(s, blocks), suspended')

LEMMA SuspendIs ==
    ASSUME OneSegmentSwaps, Types, NEW p \in Proc, process_suspend(p)
    PROVE  \/ NothingToSave(p)
           \/ SwapRefused
           \/ OneSaved(p, table[p][1], get_free_swap_blocks(Need(table[p][1])))
<1> DEFINE segs == table[p]
           needed(i) == (segs[i].size + BlockSize - 1) \div BlockSize
           out == [i \in DOMAIN segs |->
                     [id |-> segs[i].id, size |-> segs[i].size, blocks |-> get_free_swap_blocks(needed(i))]]
           done == {i \in DOMAIN segs : \A j \in 1 .. i : out[j].blocks # <<>>}
           n == Cardinality(done)
           chunk(i, k) == [j \in 0 .. (BlockSize - 1) |->
                             LET at == (k - 1) * BlockSize + j
                             IN  IF at < segs[i].size THEN mem[segs[i].base + at] ELSE Blank]
           last(b) == CHOOSE i \in 1 .. n : b \in Range(out[i].blocks)
                                            /\ \A j \in (i + 1) .. n : ~(b \in Range(out[j].blocks))
           file == [b \in Blocks |->
                      IF \E i \in done : b \in Range(out[i].blocks)
                      THEN chunk(last(b), CHOOSE k \in DOMAIN out[last(b)].blocks : out[last(b)].blocks[k] = b)
                      ELSE swapFile[b]]
<1>1. /\ Len(segs) <= 1
      /\ IF n = Len(segs)
         THEN /\ swapped' = swapped \cup {p}
              /\ suspended' = [suspended EXCEPT ![p] = out]
              /\ table' = [table EXCEPT ![p] = <<>>]
         ELSE UNCHANGED <<swapped, suspended, table>>
      /\ swapFile' = KeepBlocks(file, suspended')
  BY DEF process_suspend, LastWith
<1>2. segs \in Seq(Segment) /\ Len(segs) \in Nat /\ DOMAIN segs = 1 .. Len(segs)
  BY DEF Types
<1>3. swapFile = [b \in Blocks |-> swapFile[b]]
  BY DEF Types
<1>4. done = {} => n = 0 /\ file = swapFile
  <2> SUFFICES ASSUME done = {} PROVE n = 0 /\ file = swapFile
    OBVIOUS
  <2>1. n = 0
    BY FS_EmptySet
  <2>2. file = [b \in Blocks |-> swapFile[b]]
    <3> HIDE DEF done, out, chunk, last
    <3> QED OBVIOUS
  <2> QED BY <1>3, <2>1, <2>2
<1>5. CASE Len(segs) = 0
  <2>1. DOMAIN segs = {} /\ done = {}
    BY <1>2, <1>5
  <2>2. out = <<>>
    BY <2>1
  <2> HIDE DEF out, file, done, n
  <2> QED BY <1>1, <1>4, <1>5, <2>1, <2>2 DEF NothingToSave
<1>6. CASE Len(segs) = 1
  <2> DEFINE s == segs[1]
             blocks == get_free_swap_blocks(Need(s))
  <2>1. DOMAIN segs = {1}
    BY <1>2, <1>6
  <2>2. out = [i \in {1} |-> [id |-> s.id, size |-> s.size, blocks |-> blocks]]
    BY <2>1 DEF Need
  <2>3. out[1].blocks = blocks
    BY <2>2
  <2>4. out = <<[id |-> s.id, size |-> s.size, blocks |-> blocks]>>
    <3> HIDE DEF out, blocks, s
    <3> QED BY <2>2
  <2> HIDE DEF out
  <2>5. CASE blocks = <<>>
    <3>1. done = {}
      BY <2>1, <2>3, <2>5
    <3> HIDE DEF done, n, file
    <3> QED BY <1>1, <1>4, <1>6, <3>1 DEF SwapRefused
  <2>6. CASE blocks # <<>>
    <3>1. done = {1}
      BY <2>1, <2>3, <2>6
    <3>2. n = 1
      BY <3>1, FS_Singleton
    <3>3. file = Saved(s, blocks)
      <4>1. ASSUME NEW b \in Blocks, b \in Range(blocks)
            PROVE  last(b) = 1
        <5> HIDE DEF n
        <5>1. 1 .. n = {1} /\ (1 + 1) .. n = {}
          BY <3>2
        <5> QED BY <2>3, <4>1, <5>1
      <4>2. \A k : chunk(1, k) = Chunk(s, k)
        BY DEF Chunk
      <4>3. ASSUME NEW b \in Blocks
            PROVE  file[b] = IF b \in Range(blocks) THEN Chunk(s, CHOOSE k \in DOMAIN blocks : blocks[k] = b)
                             ELSE swapFile[b]
        <5>1. CASE b \in Range(blocks)
          <6>1. \E i \in done : b \in Range(out[i].blocks)
            BY <2>3, <3>1, <5>1
          <6>2. last(b) = 1
            <7> HIDE DEF last, done, n, blocks, chunk
            <7> QED BY <4>1, <5>1
          <6> HIDE DEF done, last, chunk
          <6>3. file[b] = chunk(1, CHOOSE k \in DOMAIN out[1].blocks : out[1].blocks[k] = b)
            BY <6>1, <6>2
          <6> QED BY <2>3, <4>2, <5>1, <6>3
        <5>2. CASE b \notin Range(blocks)
          <6>1. ~ \E i \in done : b \in Range(out[i].blocks)
            BY <2>3, <3>1, <5>2
          <6> HIDE DEF done, last, chunk
          <6> QED BY <5>2, <6>1
        <5> QED BY <5>1, <5>2
      <4>4. file = [b \in Blocks |-> file[b]]
        OBVIOUS
      <4> HIDE DEF file
      <4> QED BY <4>3, <4>4 DEF Saved
    <3> HIDE DEF n, file, blocks
    <3>4. OneSaved(p, s, blocks)
      BY <1>1, <1>6, <2>4, <2>6, <3>2, <3>3 DEF OneSaved, blocks
    <3> QED BY <3>4 DEF blocks
  <2> QED BY <2>5, <2>6
<1>7. Len(segs) <= 1
  BY <1>1
<1>8. Len(segs) = 0 \/ Len(segs) = 1
  <2>1. \A m \in Nat : m <= 1 => m = 0 \/ m = 1
    OBVIOUS
  <2>2. Len(segs) \in Nat
    BY <1>2
  <2> QED BY <1>7, <2>1, <2>2
<1> QED BY <1>5, <1>6, <1>8

\* A byte of a suspended segment is in a block of the segment.
LEMMA ByteInBlock ==
    ASSUME NEW segs \in Seq(Swapped), OwnBlocks(segs), NEW k \in DOMAIN segs, NEW i \in 0 .. (segs[k].size - 1)
    PROVE  /\ (i \div BlockSize) + 1 \in DOMAIN segs[k].blocks
           /\ segs[k].blocks[(i \div BlockSize) + 1] \in Blocks
           /\ segs[k].blocks[(i \div BlockSize) + 1] \in BlocksOf(segs)
<1> DEFINE s == segs[k]
<1>1. s \in Swapped
  OBVIOUS
<1> HIDE DEF s
<1>2. s.size \in Sizes /\ s.blocks \in Seq(Blocks)
  BY <1>1 DEF Swapped
<1>3. s.size \in Nat
  BY <1>2, SizeFacts
<1>4. Len(s.blocks) = (s.size + BlockSize - 1) \div BlockSize
  BY DEF OwnBlocks, Enough, s
<1>5. (i \div BlockSize) + 1 \in 1 .. ((s.size + BlockSize - 1) \div BlockSize)
  BY <1>3, MemoryAssumption, BlockOfByte DEF s
<1>6. (i \div BlockSize) + 1 \in DOMAIN s.blocks
  BY <1>2, <1>4, <1>5
<1>7. s.blocks[(i \div BlockSize) + 1] \in Blocks /\ s.blocks[(i \div BlockSize) + 1] \in Range(s.blocks)
  BY <1>2, <1>6 DEF Range
<1> QED BY <1>6, <1>7 DEF BlocksOf, s

\* The data in SWAP are kept when the blocks in use are.
LEMMA SwapKept ==
    ASSUME IndInv, suspended' = suspended, written' = written,
           \A q \in Proc : \A b \in Blocks : b \in BlocksOf(suspended[q]) => swapFile'[b] = swapFile[b]
    PROVE  BlocksApart' /\ (PromptStdin => SuspendedDataIntact')
<1>0. Types /\ BlocksApart /\ (PromptStdin => SuspendedDataIntact)
  BY DEF IndInv, Data
<1>1. BlocksApart'
  BY <1>0 DEF BlocksApart
<1>2. PromptStdin => SuspendedDataIntact'
  <2> SUFFICES ASSUME PromptStdin, NEW q \in Proc, NEW k \in DOMAIN suspended[q], <<q, suspended[q][k].id>> \in written,
                      NEW i \in 0 .. (suspended[q][k].size - 1)
               PROVE  swapFile'[suspended[q][k].blocks[i \div BlockSize + 1]][i % BlockSize]
                         = Byte(q, suspended[q][k].id, i)
    BY DEF SuspendedDataIntact, Byte
  <2>1. suspended[q] \in Seq(Swapped) /\ OwnBlocks(suspended[q])
    BY <1>0 DEF Types, BlocksApart
  <2>2. PICK b \in Blocks : b = suspended[q][k].blocks[(i \div BlockSize) + 1] /\ b \in BlocksOf(suspended[q])
    BY <2>1, ByteInBlock
  <2>3. swapFile'[b] = swapFile[b]
    BY <2>2
  <2>4. swapFile[b][i % BlockSize] = Byte(q, suspended[q][k].id, i)
    BY <1>0, <2>2 DEF SuspendedDataIntact
  <2> QED BY <2>2, <2>3, <2>4
<1> QED BY <1>1, <1>2

LEMMA KeptBlock ==
    ASSUME NEW file, NEW susp, NEW q \in Proc, NEW b \in Blocks, b \in BlocksOf(susp[q])
    PROVE  KeepBlocks(file, susp)[b] = file[b]
BY DEF KeepBlocks

\* The blocks a segment gets in SWAP are enough, different, and used by nobody.
LEMMA FreeBlocks ==
    ASSUME Types, NEW s \in Segment, NEW blocks, blocks = get_free_swap_blocks(Need(s)), blocks # <<>>
    PROVE  /\ blocks \in Seq(Blocks) /\ Len(blocks) = Need(s)
           /\ \A k, l \in DOMAIN blocks : blocks[k] = blocks[l] => k = l
           /\ \A k \in DOMAIN blocks : \A q \in Proc : blocks[k] \notin BlocksOf(suspended[q])
<1> DEFINE free == Blocks \ UNION {BlocksOf(suspended[q]) : q \in Proc}
<1>1. Blocks \subseteq Nat /\ IsFiniteSet(Blocks)
  BY FS_Interval, MemoryAssumption DEF Blocks
<1>2. free \in SUBSET Nat /\ IsFiniteSet(free)
  BY <1>1, FS_Subset
<1>3. Need(s) \in Nat
  <2>1. s.size \in Nat /\ s.size > 0
    BY SizeFacts DEF Segment
  <2>2. s.size + BlockSize - 1 \in Nat
    BY <2>1, MemoryAssumption
  <2> QED BY <2>2, MemoryAssumption, DivMod DEF Need
<1>4. blocks = FirstBlocks(free, Need(s))
  BY DEF get_free_swap_blocks
<1>5. \A k \in free : k \in Blocks /\ \A q \in Proc : k \notin BlocksOf(suspended[q])
  OBVIOUS
<1> HIDE DEF free
<1>6. /\ blocks \in Seq(free) /\ Len(blocks) = Need(s)
      /\ \A k, l \in 1 .. Need(s) : blocks[k] = blocks[l] => k = l
  BY <1>2, <1>3, <1>4, FirstBlocksAre
<1>7. DOMAIN blocks = 1 .. Need(s) /\ \A k \in DOMAIN blocks : blocks[k] \in free
  BY <1>6
<1>8. blocks \in Seq(Blocks)
  BY <1>5, <1>6, <1>7
<1> QED BY <1>5, <1>6, <1>7, <1>8

\* A request for SWAP that changes no table clears only what nobody has.
LEMMA SwapSame ==
    ASSUME IndInv, live' = live, thr' = thr, compact' = compact, stdin' = stdin, written' = written, ~Compacting,
           table' = table, suspended' = suspended, swapped' \subseteq Proc, \A q \in Proc : Owner(q)',
           PromptStdin => \A e \in stdin : e[1] \notin swapped',
           mem' = [a \in Addresses |-> mem'[a]], \A a \in Occupied(table) : mem'[a] = mem[a],
           swapFile' = KeepBlocks(swapFile, suspended')
    PROVE  IndInv'
<1>0. Types /\ Layout /\ Allocation /\ Moving /\ BlocksApart /\ (PromptStdin => Data)
  BY DEF IndInv
<1>1. BlocksApart' /\ (PromptStdin => SuspendedDataIntact')
  <2>1. \A q \in Proc : \A b \in Blocks : b \in BlocksOf(suspended[q]) => swapFile'[b] = swapFile[b]
    BY KeptBlock
  <2> QED BY <2>1, SwapKept
<1>2. Layout' /\ Allocation' /\ Moving'
  BY <1>0, SegmentsKept, AllocationKept, MovingKept
<1>3. Types'
  <2>1. swapFile' = [b \in Blocks |-> swapFile'[b]]
    BY DEF KeepBlocks
  <2> QED BY <1>0, <2>1 DEF Types
<1>4. ASSUME PromptStdin PROVE Data'
  <2>0. Data
    BY <1>0, <1>4
  <2>1. DataIntact'
    <3> SUFFICES ASSUME NEW q \in Proc, NEW k \in DOMAIN table[q], <<q, table[q][k].id>> \in written,
                        NEW i \in 0 .. (table[q][k].size - 1)
                 PROVE  mem'[table[q][k].base + i] = Byte(q, table[q][k].id, i)
      BY DEF DataIntact, Byte
    <3> DEFINE s == table[q][k]
    <3>1. s.base \in Nat /\ s.size \in Nat /\ s.base + i \in Bytes(s)
      BY <1>0, SegmentFacts DEF Bytes
    <3>2. s.base + i \in Addresses
      BY <1>0, <3>1, BytesOf
    <3>3. mem'[s.base + i] = mem[s.base + i]
      BY <3>1, <3>2 DEF Occupied
    <3> QED BY <2>0, <3>3 DEF Data, DataIntact
  <2>2. StdinKnown'
    BY <1>4, <2>0 DEF Data, StdinKnown
  <2>3. CopyKept'
    BY NothingCopied DEF Compacting
  <2> QED BY <1>1, <1>4, <2>1, <2>2, <2>3 DEF Data
<1> QED BY <1>1, <1>2, <1>3, <1>4 DEF IndInv

\* Clearing what belongs to no segment leaves the segments alone.
LEMMA KeptSame ==
    ASSUME mem' = Keep(mem, table)
    PROVE  mem' = [a \in Addresses |-> mem'[a]] /\ \A a \in Occupied(table) : mem'[a] = mem[a]
BY DEF Keep, Occupied

LEMMA SuspendSame ==
    ASSUME QuietCompaction, IndInv, NEW p \in Proc, process_suspend(p), NothingToSave(p) \/ SwapRefused
    PROVE  IndInv'
<1>0. Types /\ (\A q \in Proc : Owner(q))
  BY DEF IndInv
<1>1. /\ live' = live /\ thr' = thr /\ compact' = compact /\ written' = written /\ mem' = Keep(mem, table')
      /\ p \in live /\ p \notin swapped /\ thr[p].at = "idle" /\ ~Compacting /\ stdin' = stdin
      /\ Undisturbed(p)
  BY DEF process_suspend, Quiet
<1>2. table \in [Proc -> Seq(Segment)] /\ suspended \in [Proc -> Seq(Swapped)] /\ suspended[p] = <<>>
  BY <1>0, <1>1 DEF Types, Owner
<1>3. NothingToSave(p) => table[p] = <<>>
  BY <1>2 DEF NothingToSave
<1>4. /\ table' = table /\ suspended' = suspended /\ swapFile' = KeepBlocks(swapFile, suspended')
      /\ swapped' = swapped \/ (swapped' = swapped \cup {p} /\ table[p] = <<>>)
  <2>1. CASE NothingToSave(p)
    <3>1. [table EXCEPT ![p] = <<>>] = table /\ [suspended EXCEPT ![p] = <<>>] = suspended
      BY <1>2, <1>3, <2>1
    <3> QED BY <1>3, <2>1, <3>1 DEF NothingToSave
  <2>2. CASE SwapRefused
    BY <2>2 DEF SwapRefused
  <2> QED BY <2>1, <2>2
<1>5. swapped' \subseteq Proc
  BY <1>0, <1>1, <1>4 DEF Types
<1>6. ASSUME NEW q \in Proc PROVE Owner(q)'
  <2>0. Owner(q)
    BY <1>0
  <2>1. CASE q \in swapped' <=> q \in swapped
    BY <1>1, <1>4, <2>0, <2>1, OwnerKept
  <2>2. CASE ~(q \in swapped' <=> q \in swapped)
    <3>1. q = p /\ table[p] = <<>>
      BY <1>4, <2>2
    <3> QED BY <1>1, <1>4, <2>0, <3>1 DEF Owner, HasId
  <2> QED BY <2>1, <2>2
<1>7. PromptStdin => \A e \in stdin : e[1] \notin swapped'
  BY <1>1, <1>4 DEF IndInv, Data, StdinKnown, Undisturbed, Waits
<1>8. mem' = [a \in Addresses |-> mem'[a]] /\ \A a \in Occupied(table) : mem'[a] = mem[a]
  BY <1>1, <1>4, KeptSame
<1> QED BY <1>1, <1>4, <1>5, <1>6, <1>7, <1>8, SwapSame

LEMMA ProcessSuspendInd ==
    ASSUME OneSegmentSwaps, QuietCompaction, IndInv, NEW p \in Proc, process_suspend(p)
    PROVE  IndInv'
<1>0. Types /\ (\A q \in Proc : Owner(q)) /\ Layout /\ Allocation /\ Moving /\ BlocksApart /\ (PromptStdin => Data)
  BY DEF IndInv
<1>1. CASE NothingToSave(p) \/ SwapRefused
  BY <1>1, SuspendSame
<1>2. CASE OneSaved(p, table[p][1], get_free_swap_blocks(Need(table[p][1])))
  <2>1. PICK s : s = table[p][1]
    OBVIOUS
  <2>2. PICK blocks : blocks = get_free_swap_blocks(Need(s))
    OBVIOUS
  <2> DEFINE entry == [id |-> s.id, size |-> s.size, blocks |-> blocks]
  <2>3. /\ Len(table[p]) = 1 /\ blocks # <<>>
        /\ swapped' = swapped \cup {p} /\ table' = [table EXCEPT ![p] = <<>>]
        /\ suspended' = [suspended EXCEPT ![p] = <<entry>>]
        /\ swapFile' = KeepBlocks(Saved(s, blocks), suspended')
    BY <1>2, <2>1, <2>2 DEF OneSaved
  <2>4. /\ live' = live /\ thr' = thr /\ compact' = compact /\ written' = written /\ mem' = Keep(mem, table')
        /\ p \in live /\ p \notin swapped /\ thr[p].at = "idle" /\ ~Compacting /\ stdin' = stdin
        /\ Undisturbed(p)
    BY DEF process_suspend, Quiet
  <2>5. 1 \in DOMAIN table[p] /\ DOMAIN table[p] = {1}
    BY <1>0, <2>3 DEF Types
  <2>6. s \in Segment /\ s.id \in Ids /\ s.size \in Sizes /\ s.size \in Nat
    BY <1>0, <2>1, <2>5, SegmentFacts
  <2>7. /\ blocks \in Seq(Blocks) /\ Len(blocks) = Need(s)
        /\ \A k, l \in DOMAIN blocks : blocks[k] = blocks[l] => k = l
        /\ \A k \in DOMAIN blocks : \A q \in Proc : blocks[k] \notin BlocksOf(suspended[q])
    BY <1>0, <2>2, <2>3, <2>6, FreeBlocks
  <2>8. entry \in Swapped /\ entry.id = s.id /\ entry.size = s.size /\ entry.blocks = blocks
    BY <2>6, <2>7 DEF Swapped
  <2> HIDE DEF entry
  <2>9. <<entry>> \in Seq(Swapped) /\ DOMAIN <<entry>> = {1} /\ <<entry>>[1] = entry /\ Len(<<entry>>) = 1
    BY <2>8
  <2>10. /\ suspended' \in [Proc -> Seq(Swapped)] /\ suspended'[p] = <<entry>>
         /\ \A q \in Proc : q # p => suspended'[q] = suspended[q]
    BY <1>0, <2>3, <2>9 DEF Types
  <2>11. /\ table' \in [Proc -> Seq(Segment)] /\ mem' = [a \in Addresses |-> mem'[a]]
         /\ Layout' /\ Allocation' /\ Moving' /\ (PromptStdin => DataIntact')
    <3>1. written' \subseteq written
      BY <2>4
    <3> QED BY <2>3, <2>4, <3>1, Emptied
  <2>12. Types'
    <3>1. swapFile' = [b \in Blocks |-> swapFile'[b]]
      BY <2>3 DEF KeepBlocks
    <3>2. swapped' \subseteq Proc
      BY <1>0, <2>3, <2>4 DEF Types
    <3> QED BY <1>0, <2>4, <2>10, <2>11, <3>1, <3>2 DEF Types
  <2>13. ASSUME NEW q \in Proc PROVE Owner(q)'
    <3>1. CASE q # p
      <4>1. table'[q] = table[q]
        BY <1>0, <2>3, <3>1 DEF Types
      <4>2. q \in swapped' <=> q \in swapped
        BY <2>3, <3>1
      <4> QED BY <1>0, <2>4, <2>10, <3>1, <4>1, <4>2, OwnerKept
    <3>2. CASE q = p
      <4>1. table'[p] = <<>> /\ p \in swapped'
        BY <1>0, <2>3 DEF Types
      <4>2. \A d \in Ids : <<p, d>> \in written => HasId(<<entry>>, d)
        <5>1. suspended[p] = <<>> /\ Owner(p)
          BY <1>0, <2>4 DEF Owner
        <5>2. \A d \in Ids : <<p, d>> \in written => table[p][1].id = d
          BY <2>5, <5>1 DEF Owner, HasId
        <5> QED BY <2>1, <2>8, <2>9, <5>2 DEF HasId
      <4>6. \A e \in stdin : e[1] = p => HasId(<<entry>>, e[2].id)
        <5>1. suspended[p] = <<>> /\ Owner(p)
          BY <1>0, <2>4 DEF Owner
        <5>2. \A e \in stdin : e[1] = p => table[p][1].id = e[2].id
          BY <2>5, <5>1 DEF Owner, HasId
        <5> QED BY <2>1, <2>8, <2>9, <5>2 DEF HasId
      <4>7. \A e \in stdin' : e[1] = p => HasId(table'[p], e[2].id) \/ HasId(suspended'[p], e[2].id)
        BY <2>4, <2>10, <4>6
      <4>3. \A i, j \in DOMAIN table'[p] : table'[p][i].id = table'[p][j].id => i = j
        BY <4>1
      <4>4. \A d \in Ids : <<p, d>> \in written' => HasId(table'[p], d) \/ HasId(suspended'[p], d)
        BY <2>4, <2>10, <4>2
      <4>5. Len(suspended'[p]) <= 1 /\ thr'[p].at = "idle"
        BY <2>4, <2>9, <2>10
      <4> QED BY <3>2, <4>1, <4>3, <4>4, <4>5, <4>7 DEF Owner, HasId
    <3> QED BY <3>1, <3>2
  <2>14. BlocksOf(<<entry>>) = Range(blocks)
    BY <2>8, <2>9 DEF BlocksOf
  <2>15. \A b \in Range(blocks) : \A q \in Proc : b \notin BlocksOf(suspended[q])
    BY <2>7 DEF Range
  <2>16. BlocksApart'
    <3>1. OwnBlocks(<<entry>>)
      BY <2>7, <2>8, <2>9 DEF OwnBlocks, Enough, Need
    <3>2. \A q \in Proc : OwnBlocks(suspended'[q])
      BY <1>0, <2>10, <3>1 DEF BlocksApart
    <3>3. NoneShared(suspended')
      <4> SUFFICES ASSUME NEW q \in Proc, NEW r \in Proc, q # r
                   PROVE  BlocksOf(suspended'[q]) \cap BlocksOf(suspended'[r]) = {}
        BY DEF NoneShared
      <4>1. CASE q = p
        BY <2>10, <2>14, <2>15, <4>1
      <4>2. CASE r = p
        BY <2>10, <2>14, <2>15, <4>2
      <4>3. CASE q # p /\ r # p
        BY <1>0, <2>10, <4>3 DEF BlocksApart, NoneShared
      <4> QED BY <4>1, <4>2, <4>3
    <3> QED BY <3>2, <3>3 DEF BlocksApart
  <2>17. PromptStdin => SuspendedDataIntact'
    <3> SUFFICES ASSUME PromptStdin, NEW q \in Proc, NEW k \in DOMAIN suspended'[q], <<q, suspended'[q][k].id>> \in written,
                        NEW i \in 0 .. (suspended'[q][k].size - 1)
                 PROVE  swapFile'[suspended'[q][k].blocks[i \div BlockSize + 1]][i % BlockSize]
                           = Byte(q, suspended'[q][k].id, i)
      BY <2>4 DEF SuspendedDataIntact, Byte
    <3>1. suspended'[q] \in Seq(Swapped) /\ OwnBlocks(suspended'[q])
      BY <2>10, <2>16 DEF BlocksApart
    <3>2. PICK b \in Blocks : b = suspended'[q][k].blocks[(i \div BlockSize) + 1] /\ b \in BlocksOf(suspended'[q])
                              /\ (i \div BlockSize) + 1 \in DOMAIN suspended'[q][k].blocks
      BY <3>1, ByteInBlock
    <3>3. swapFile'[b] = Saved(s, blocks)[b]
      <4>1. b \in BlocksOf(suspended'[q])
        BY <3>2
      <4>2. swapFile' = KeepBlocks(Saved(s, blocks), suspended')
        BY <2>3
      <4> QED BY <4>1, <4>2 DEF KeepBlocks
    <3>4. CASE q # p
      <4>1. suspended'[q] = suspended[q] /\ b \notin Range(blocks)
        BY <2>10, <2>15, <3>2, <3>4
      <4>2. swapFile'[b] = swapFile[b]
        BY <3>3, <4>1 DEF Saved
      <4>3. swapFile[b][i % BlockSize] = Byte(q, suspended'[q][k].id, i)
        <5>1. k \in DOMAIN suspended[q] /\ <<q, suspended[q][k].id>> \in written /\ i \in 0 .. (suspended[q][k].size - 1)
          BY <4>1
        <5>2. swapFile[suspended[q][k].blocks[i \div BlockSize + 1]][i % BlockSize] = Byte(q, suspended[q][k].id, i)
          BY <1>0, <5>1 DEF Data, SuspendedDataIntact
        <5> QED BY <3>2, <4>1, <5>2
      <4> QED BY <3>2, <4>2, <4>3
    <3>5. CASE q = p
      <4>1. k = 1 /\ suspended'[q][k] = entry
        BY <2>9, <2>10, <3>5
      <4>2. PICK j \in DOMAIN blocks : j = (i \div BlockSize) + 1 /\ b = blocks[j] /\ i \in 0 .. (s.size - 1)
        BY <2>8, <3>2, <4>1
      <4>3. (CHOOSE l \in DOMAIN blocks : blocks[l] = b) = j /\ b \in Range(blocks)
        BY <2>7, <4>2 DEF Range
      <4>4. swapFile'[b] = Chunk(s, j)
        BY <3>3, <4>3 DEF Saved
      <4>5. i \in Nat /\ i < s.size /\ s.base \in Nat
        BY <1>0, <2>1, <2>5, <2>6, <4>2, SegmentFacts
      <4>6. PICK d \in Nat, m \in 0 .. (BlockSize - 1) : d = i \div BlockSize /\ m = i % BlockSize /\ i = d * BlockSize + m
        BY <4>5, DivMod, MemoryAssumption
      <4>7. j - 1 = d
        BY <4>2, <4>6
      <4>8. (j - 1) * BlockSize + m = i
        BY <4>6, <4>7
      <4>9. Chunk(s, j)[m] = mem[s.base + i]
        BY <4>5, <4>8 DEF Chunk
      <4>10. mem[s.base + i] = Byte(p, s.id, i)
        BY <1>0, <2>1, <2>5, <2>8, <3>5, <4>1, <4>2 DEF Data, DataIntact
      <4> QED BY <2>8, <3>2, <3>5, <4>1, <4>4, <4>6, <4>9, <4>10
    <3> QED BY <3>4, <3>5
  <2>18. ASSUME PromptStdin PROVE StdinKnown'
    <3> SUFFICES ASSUME NEW e \in stdin
                 PROVE  e[1] \notin swapped' /\ \E l \in DOMAIN table'[e[1]] : table'[e[1]][l] = e[2]
      BY <2>4 DEF StdinKnown
    <3>1. e[1] \in Proc /\ e[1] # p
      BY <1>0, <2>4, <2>18 DEF Types, Undisturbed, Waits
    <3>2. table'[e[1]] = table[e[1]] /\ (e[1] \in swapped' <=> e[1] \in swapped)
      BY <1>0, <2>3, <3>1 DEF Types
    <3> QED BY <1>0, <2>18, <3>2 DEF Data, StdinKnown
  <2>19. CopyKept'
    BY <2>4, NothingCopied DEF Compacting
  <2>20. PromptStdin => Data'
    BY <2>11, <2>17, <2>18, <2>19 DEF Data
  <2> QED BY <2>11, <2>12, <2>13, <2>16, <2>20 DEF IndInv
<1> QED BY <1>0, <1>1, <1>2, SuspendIs

\* Memory with the suspended segment s read back to where t is.
Restored(s, t) ==
    [a \in Addresses |-> IF a \in Bytes(t)
                         THEN swapFile[s.blocks[(a - t.base) \div BlockSize + 1]][(a - t.base) % BlockSize]
                         ELSE mem[a]]

\* The outcomes of process_desuspend for a process with at most one segment.
NothingToRead(p) ==
    /\ p \in live /\ Len(suspended[p]) = 0 /\ swapped' = swapped \ {p} /\ suspended' = [suspended EXCEPT ![p] = <<>>]
    /\ table' = [table EXCEPT ![p] = <<>>] /\ mem' = Keep(mem, table')
NoHoleForIt ==
    /\ swapped' = swapped /\ suspended' = suspended /\ table' = table /\ mem' = Keep(mem, table')
ReadInto(p, s, t) ==
    /\ Len(suspended[p]) = 1 /\ s = suspended[p][1]
    /\ t = [id |-> s.id, size |-> s.size, base |-> select_hole(get_free_holes, s.size).base]
    /\ t.base # Total
Ended(p, s, t) ==
    /\ ReadInto(p, s, t) /\ p \notin live
    /\ swapped' = swapped /\ suspended' = suspended /\ table' = table
    /\ mem' = Keep(Restored(s, t), table')
OneRead(p, s, t) ==
    /\ ReadInto(p, s, t) /\ p \in live
    /\ swapped' = swapped \ {p} /\ suspended' = [suspended EXCEPT ![p] = <<>>]
    /\ table' = [table EXCEPT ![p] = <<t>>]
    /\ mem' = Keep(Restored(s, t), table')

LEMMA DesuspendIs ==
    ASSUME Types, NEW p \in Proc, Len(suspended[p]) <= 1, process_desuspend(p)
    PROVE  NothingToRead(p) \/ NoHoleForIt \/ \E s, t : OneRead(p, s, t) \/ Ended(p, s, t)
<1> DEFINE segs == suspended[p]
           place == [i \in DOMAIN segs |->
                       [id |-> segs[i].id, size |-> segs[i].size,
                        base |-> select_hole(get_free_holes, segs[i].size).base]]
           done == {i \in DOMAIN segs : \A j \in 1 .. i : place[j].base # NoHole.base}
           n == Cardinality(done)
           last(a) == CHOOSE i \in 1 .. n : a \in Bytes(place[i])
                                            /\ \A j \in (i + 1) .. n : ~(a \in Bytes(place[j]))
           file == [a \in Addresses |->
                      IF \E i \in done : a \in Bytes(place[i])
                      THEN swapFile[segs[last(a)].blocks[(a - place[last(a)].base) \div BlockSize + 1]]
                                   [(a - place[last(a)].base) % BlockSize]
                      ELSE mem[a]]
<1>1. /\ IF n = Len(segs) /\ p \in live
         THEN /\ swapped' = swapped \ {p}
              /\ suspended' = [suspended EXCEPT ![p] = <<>>]
              /\ table' = [table EXCEPT ![p] = place]
         ELSE UNCHANGED <<swapped, suspended, table>>
      /\ mem' = Keep(file, table')
  BY DEF process_desuspend, LastWith
<1>2. segs \in Seq(Swapped) /\ Len(segs) \in Nat /\ DOMAIN segs = 1 .. Len(segs)
  BY DEF Types
<1>3. mem = [a \in Addresses |-> mem[a]]
  BY DEF Types
<1>4. done = {} => n = 0 /\ file = mem
  <2> SUFFICES ASSUME done = {} PROVE n = 0 /\ file = mem
    OBVIOUS
  <2>1. n = 0
    BY FS_EmptySet
  <2>2. file = [a \in Addresses |-> mem[a]]
    <3> HIDE DEF done, place, last
    <3> QED OBVIOUS
  <2> QED BY <1>3, <2>1, <2>2
<1>5. CASE Len(segs) = 0
  <2>1. DOMAIN segs = {} /\ done = {}
    BY <1>2, <1>5
  <2>2. place = <<>>
    BY <2>1
  <2> HIDE DEF place, file, done, n
  <2>3. CASE p \in live
    BY <1>1, <1>4, <1>5, <2>1, <2>2, <2>3 DEF NothingToRead
  <2>4. CASE p \notin live
    BY <1>1, <1>4, <2>1, <2>4 DEF NoHoleForIt
  <2> QED BY <2>3, <2>4
<1>6. CASE Len(segs) = 1
  <2> DEFINE s == segs[1]
             t == [id |-> s.id, size |-> s.size, base |-> select_hole(get_free_holes, s.size).base]
  <2>1. DOMAIN segs = {1}
    BY <1>2, <1>6
  <2>2. place = [i \in {1} |-> t]
    BY <2>1
  <2>3. place[1] = t
    BY <2>2
  <2>4. place = <<t>>
    <3> HIDE DEF place, t
    <3> QED BY <2>2
  <2> HIDE DEF place
  <2>5. NoHole.base = Total
    BY DEF NoHole
  <2>6. CASE t.base = Total
    <3>1. done = {}
      <4> HIDE DEF t
      <4> QED BY <2>1, <2>3, <2>5, <2>6
    <3> HIDE DEF done, n, file
    <3> QED BY <1>1, <1>4, <1>6, <3>1 DEF NoHoleForIt
  <2>7. CASE t.base # Total
    <3>1. done = {1}
      <4> HIDE DEF t
      <4> QED BY <2>1, <2>3, <2>5, <2>7
    <3>2. n = 1
      BY <3>1, FS_Singleton
    <3>3. file = Restored(s, t)
      <4> HIDE DEF t
      <4>1. ASSUME NEW a \in Addresses, a \in Bytes(t)
            PROVE  last(a) = 1
        <5> HIDE DEF n
        <5>1. 1 .. n = {1} /\ (1 + 1) .. n = {}
          BY <3>2
        <5> QED BY <2>3, <4>1, <5>1
      <4>2. ASSUME NEW a \in Addresses
            PROVE  file[a] = IF a \in Bytes(t)
                             THEN swapFile[s.blocks[(a - t.base) \div BlockSize + 1]][(a - t.base) % BlockSize]
                             ELSE mem[a]
        <5>1. CASE a \in Bytes(t)
          <6>1. \E i \in done : a \in Bytes(place[i])
            BY <2>3, <3>1, <5>1
          <6>2. last(a) = 1
            <7> HIDE DEF last, done, n
            <7> QED BY <4>1, <5>1
          <6> HIDE DEF done, last
          <6>3. file[a] = swapFile[segs[1].blocks[(a - place[1].base) \div BlockSize + 1]]
                                  [(a - place[1].base) % BlockSize]
            BY <6>1, <6>2
          <6> QED BY <2>3, <5>1, <6>3
        <5>2. CASE a \notin Bytes(t)
          <6>1. ~ \E i \in done : a \in Bytes(place[i])
            BY <2>3, <3>1, <5>2
          <6> HIDE DEF done, last
          <6> QED BY <5>2, <6>1
        <5> QED BY <5>1, <5>2
      <4>3. file = [a \in Addresses |-> file[a]]
        <5> HIDE DEF done, last, n
        <5> QED OBVIOUS
      <4> HIDE DEF file
      <4> QED BY <4>2, <4>3 DEF Restored
    <3> HIDE DEF n, file
    <3>4. ReadInto(p, s, t)
      BY <1>6, <2>7 DEF ReadInto
    <3>5. CASE p \in live
      <4>1. OneRead(p, s, t)
        BY <1>1, <1>6, <2>4, <3>2, <3>3, <3>4, <3>5 DEF OneRead
      <4> QED BY <4>1
    <3>6. CASE p \notin live
      <4>1. Ended(p, s, t)
        BY <1>1, <3>3, <3>4, <3>6 DEF Ended
      <4> QED BY <4>1
    <3> QED BY <3>5, <3>6
  <2> QED BY <2>6, <2>7
<1>7. Len(segs) = 0 \/ Len(segs) = 1
  <2>1. \A m \in Nat : m <= 1 => m = 0 \/ m = 1
    OBVIOUS
  <2>2. Len(segs) \in Nat
    BY <1>2
  <2> QED BY <2>1, <2>2
<1> QED BY <1>5, <1>6, <1>7

\* A segment is read back to bytes that are free.
LEMMA ReadsIntoHole ==
    ASSUME Types, Layout, NEW p \in Proc, NEW s, NEW t, ReadInto(p, s, t)
    PROVE  /\ s \in Swapped /\ DOMAIN suspended[p] = {1} /\ t.id = s.id /\ t.size = s.size
           /\ t \in Segment /\ t.base \in Nat /\ t.size \in Nat /\ t.size > 0 /\ t.base + t.size <= Total
           /\ \A q \in Proc : \A j \in DOMAIN table[q] : Apart(t, table[q][j])
           /\ \A q \in Proc : \A j \in DOMAIN table[q] : \A a \in Bytes(table[q][j]) :
                 a \in Addresses /\ Restored(s, t)[a] = mem[a]
<1> DEFINE h == select_hole(get_free_holes, s.size)
<1>1. /\ Len(suspended[p]) = 1 /\ s = suspended[p][1] /\ t.base # Total
      /\ t = [id |-> s.id, size |-> s.size, base |-> h.base]
  BY DEF ReadInto
<1> HIDE DEF h
<1>2. t.id = s.id /\ t.size = s.size /\ t.base = h.base
  BY <1>1
<1>3. suspended[p] \in Seq(Swapped) /\ DOMAIN suspended[p] = {1} /\ s \in Swapped
  <2>1. suspended[p] \in Seq(Swapped)
    BY DEF Types
  <2>2. DOMAIN suspended[p] = {1}
    BY <1>1, <2>1
  <2> QED BY <1>1, <2>1, <2>2
<1>4. s.id \in Ids /\ s.size \in Sizes /\ s.size \in Nat /\ s.size > 0
  BY <1>3, SizeFacts DEF Swapped
<1>5. h \in get_free_holes /\ h.size >= s.size
  <2>1. h = NoHole => h.base = Total
    BY DEF NoHole
  <2> QED BY <1>1, <1>2, <1>4, <2>1, SelectedFits DEF h
<1>6. /\ h.base \in Nat /\ h.size \in Nat /\ h.base + h.size <= Total
      /\ \A g \in Segments : Apart(h, g)
  BY <1>5, HoleIsFree
<1>7. t.base \in Nat /\ t.size \in Nat /\ t.size > 0 /\ t.base + t.size <= Total
  <2>1. h.base + s.size <= h.base + h.size
    BY <1>4, <1>5, <1>6
  <2>2. h.base + s.size <= Total
    BY <1>4, <1>6, <2>1, MemoryAssumption
  <2> QED BY <1>2, <1>4, <1>6, <2>2
<1>8. t \in Segment
  <2>1. h.base \in Addresses
    BY <1>2, <1>7, MemoryAssumption DEF Addresses
  <2> QED BY <1>1, <1>4, <2>1 DEF Segment
<1>9. ASSUME NEW q \in Proc, NEW j \in DOMAIN table[q] PROVE Apart(t, table[q][j])
  <2>1. table[q][j] \in Segments /\ table[q][j].base \in Nat /\ table[q][j].size \in Nat
    BY SegmentFacts
  <2>2. Apart(h, table[q][j])
    BY <1>6, <2>1
  <2> QED BY <1>2, <1>4, <1>5, <1>6, <2>1, <2>2 DEF Apart
<1>10. ASSUME NEW q \in Proc, NEW j \in DOMAIN table[q], NEW a \in Bytes(table[q][j])
       PROVE  a \in Addresses /\ Restored(s, t)[a] = mem[a]
  <2>1. /\ a \in Addresses /\ a \in Nat
        /\ table[q][j].base <= a /\ a < table[q][j].base + table[q][j].size
    BY BytesOf
  <2>2. table[q][j].base \in Nat /\ table[q][j].size \in Nat
    BY SegmentFacts
  <2>3. Apart(t, table[q][j])
    BY <1>9
  <2>4. a \notin Bytes(t)
    BY <1>7, <2>1, <2>2, <2>3 DEF Apart, Bytes
  <2> QED BY <2>1, <2>4 DEF Restored
<1> QED BY <1>2, <1>3, <1>7, <1>8, <1>9, <1>10

LEMMA DesuspendSame ==
    ASSUME SerialAllocation, IndInv, NEW p \in Proc, process_desuspend(p),
           NothingToRead(p) \/ NoHoleForIt \/ \E s, t : Ended(p, s, t)
    PROVE  IndInv'
<1>0. Types /\ Layout /\ Allocation /\ (\A q \in Proc : Owner(q))
  BY DEF IndInv
<1>1. /\ live' = live /\ thr' = thr /\ compact' = compact /\ written' = written
      /\ swapFile' = KeepBlocks(swapFile, suspended') /\ p \in swapped /\ stdin' = stdin /\ ~Waits(p)
      /\ ~Compacting
  BY <1>0, FreeMeansWait DEF process_desuspend, Compacting
<1>2. table \in [Proc -> Seq(Segment)] /\ suspended \in [Proc -> Seq(Swapped)] /\ table[p] = <<>>
  BY <1>0, <1>1 DEF Types, Owner
<1>3. NothingToRead(p) => suspended[p] = <<>>
  BY <1>2 DEF NothingToRead
<1>4. /\ table' = table /\ suspended' = suspended
      /\ swapped' = swapped \/ (swapped' = swapped \ {p} /\ suspended[p] = <<>> /\ p \in live)
  <2>1. CASE NothingToRead(p)
    <3>1. [table EXCEPT ![p] = <<>>] = table /\ [suspended EXCEPT ![p] = <<>>] = suspended
      BY <1>2, <1>3, <2>1
    <3> QED BY <1>3, <2>1, <3>1 DEF NothingToRead
  <2>2. CASE NoHoleForIt
    BY <2>2 DEF NoHoleForIt
  <2>3. CASE \E s, t : Ended(p, s, t)
    BY <2>3 DEF Ended
  <2> QED BY <2>1, <2>2, <2>3
<1>7. mem' = [a \in Addresses |-> mem'[a]] /\ \A a \in Occupied(table) : mem'[a] = mem[a]
  <2>1. CASE NothingToRead(p) \/ NoHoleForIt
    BY <1>4, <2>1, KeptSame DEF NothingToRead, NoHoleForIt
  <2>2. CASE \E s, t : Ended(p, s, t)
    <3>1. PICK s, t : Ended(p, s, t)
      BY <2>2
    <3>2. ReadInto(p, s, t) /\ mem' = Keep(Restored(s, t), table)
      BY <3>1 DEF Ended
    <3>3. \A q \in Proc : \A j \in DOMAIN table[q] : \A a \in Bytes(table[q][j]) : Restored(s, t)[a] = mem[a]
      BY <1>0, <3>2, ReadsIntoHole
    <3>4. ASSUME NEW a \in Occupied(table) PROVE mem'[a] = mem[a]
      <4>1. a \in Addresses /\ \E q \in Proc : \E j \in DOMAIN table[q] : a \in Bytes(table[q][j])
        BY DEF Occupied
      <4>2. mem'[a] = Restored(s, t)[a]
        BY <3>2, <4>1 DEF Keep
      <4> QED BY <3>3, <4>1, <4>2
    <3> QED BY <3>2, <3>4 DEF Keep
  <2> QED BY <2>1, <2>2
<1>8. PromptStdin => \A e \in stdin : e[1] \notin swapped'
  BY <1>4 DEF IndInv, Data, StdinKnown
<1>5. swapped' \subseteq Proc
  BY <1>0, <1>4 DEF Types
<1>6. ASSUME NEW q \in Proc PROVE Owner(q)'
  <2>0. Owner(q)
    BY <1>0
  <2>1. CASE q \in swapped' <=> q \in swapped
    BY <1>1, <1>4, <2>0, <2>1, OwnerKept
  <2>2. CASE ~(q \in swapped' <=> q \in swapped)
    <3>1. q = p /\ suspended[p] = <<>> /\ table[p] = <<>> /\ thr[p].at = "idle"
      BY <1>0, <1>1, <1>2, <1>4, <2>2 DEF Owner
    <3> QED BY <1>1, <1>4, <2>0, <3>1 DEF Owner, HasId
  <2> QED BY <2>1, <2>2
<1> QED BY <1>1, <1>4, <1>5, <1>6, <1>7, <1>8, SwapSame

LEMMA ProcessDesuspendInd ==
    ASSUME SerialAllocation, IndInv, NEW p \in Proc, process_desuspend(p)
    PROVE  IndInv'
<1>0. Types /\ (\A q \in Proc : Owner(q)) /\ Layout /\ Allocation /\ Moving /\ BlocksApart /\ (PromptStdin => Data)
  BY DEF IndInv
<1>1. Len(suspended[p]) <= 1
  BY <1>0 DEF Owner
<1>2. CASE NothingToRead(p) \/ NoHoleForIt \/ \E s, t : Ended(p, s, t)
  BY <1>2, DesuspendSame
<1>3. CASE \E s, t : OneRead(p, s, t)
  <2>1. PICK s, t : OneRead(p, s, t)
    BY <1>3
  <2>2. /\ live' = live /\ thr' = thr /\ compact' = compact /\ written' = written /\ stdin' = stdin /\ ~Waits(p)
        /\ swapFile' = KeepBlocks(swapFile, suspended') /\ p \in swapped /\ AllocatorFree
    BY DEF process_desuspend
  <2>3. /\ ReadInto(p, s, t) /\ Len(suspended[p]) = 1 /\ s = suspended[p][1] /\ p \in live
        /\ swapped' = swapped \ {p} /\ suspended' = [suspended EXCEPT ![p] = <<>>]
        /\ table' = [table EXCEPT ![p] = <<t>>] /\ mem' = Keep(Restored(s, t), table')
    BY <2>1 DEF OneRead, ReadInto
  <2>6. table[p] = <<>> /\ thr[p].at = "idle" /\ Owner(p)
    BY <1>0, <2>2 DEF Owner, Types
  <2>7. suspended[p] \in Seq(Swapped) /\ DOMAIN suspended[p] = {1} /\ s \in Swapped
    BY <1>0, <2>3, ReadsIntoHole DEF Types
  <2>8. s.id \in Ids /\ s.size \in Sizes /\ s.size \in Nat /\ s.size > 0
    BY <2>7, SizeFacts DEF Swapped
  <2>5. t.id = s.id /\ t.size = s.size
    BY <1>0, <2>3, ReadsIntoHole
  <2>11. t.base \in Nat /\ t.size \in Nat /\ t.size > 0 /\ t.base + t.size <= Total
    BY <1>0, <2>3, ReadsIntoHole
  <2>12. t \in Segment
    BY <1>0, <2>3, ReadsIntoHole
  <2>13. \A q \in Proc : \A j \in DOMAIN table[q] : Apart(t, table[q][j])
    BY <1>0, <2>3, ReadsIntoHole
  <2>14. Append(table[p], t) = <<t>> /\ table' = [table EXCEPT ![p] = Append(@, t)]
    <3>1. Append(<<>>, t) = <<t>>
      OBVIOUS
    <3> QED BY <2>3, <2>6, <3>1
  <2>15. /\ table'[p] = <<t>> /\ \A q \in Proc : q # p => table'[q] = table[q]
    BY <1>0, <2>3 DEF Types
  <2>16. DOMAIN <<t>> = {1} /\ <<t>>[1] = t /\ <<t>> # <<>>
    OBVIOUS
  <2>17. \A a \in Addresses : a \in Bytes(t) =>
            mem'[a] = swapFile[s.blocks[(a - t.base) \div BlockSize + 1]][(a - t.base) % BlockSize]
    <3> SUFFICES ASSUME NEW a \in Addresses, a \in Bytes(t)
                 PROVE  mem'[a] = swapFile[s.blocks[(a - t.base) \div BlockSize + 1]][(a - t.base) % BlockSize]
      OBVIOUS
    <3>1. \E q \in Proc : \E i \in DOMAIN table'[q] : a \in Bytes(table'[q][i])
      BY <2>15, <2>16
    <3>2. mem'[a] = Restored(s, t)[a]
      BY <2>3, <3>1 DEF Keep
    <3> QED BY <3>2 DEF Restored
  <2>18. \A q \in Proc : \A j \in DOMAIN table[q] : \A a \in Bytes(table[q][j]) : mem'[a] = mem[a]
    <3> SUFFICES ASSUME NEW q \in Proc, NEW j \in DOMAIN table[q], NEW a \in Bytes(table[q][j])
                 PROVE  mem'[a] = mem[a]
      OBVIOUS
    <3>1. a \in Addresses /\ Restored(s, t)[a] = mem[a]
      BY <1>0, <2>3, ReadsIntoHole
    <3>2. q # p
      BY <2>6
    <3>3. mem'[a] = Restored(s, t)[a]
      BY <2>3, <2>15, <3>1, <3>2 DEF Keep
    <3> QED BY <3>1, <3>3
  <2>19. PromptStdin /\ <<p, t.id>> \in written => \A i \in 0 .. (t.size - 1) : mem'[t.base + i] = Byte(p, t.id, i)
    <3> SUFFICES ASSUME PromptStdin, <<p, s.id>> \in written, NEW i \in 0 .. (s.size - 1)
                 PROVE  mem'[t.base + i] = Byte(p, s.id, i)
      BY <2>5
    <3>1. PICK a \in Addresses : a = t.base + i
      BY <2>5, <2>8, <2>11, MemoryAssumption DEF Addresses
    <3>2. a \in Bytes(t) /\ a - t.base = i
      BY <2>5, <2>8, <2>11, <3>1 DEF Bytes
    <3>3. mem'[a] = swapFile[s.blocks[i \div BlockSize + 1]][i % BlockSize]
      BY <2>17, <3>2
    <3>4. swapFile[s.blocks[i \div BlockSize + 1]][i % BlockSize] = Byte(p, s.id, i)
      BY <1>0, <2>3, <2>7 DEF Data, SuspendedDataIntact
    <3> QED BY <3>1, <3>3, <3>4
  <2>20. /\ table' \in [Proc -> Seq(Segment)] /\ Layout' /\ (PromptStdin => DataIntact')
         /\ \A q \in Proc : \A i \in DOMAIN table[q] : i \in DOMAIN table'[q] /\ table'[q][i] = table[q][i]
    BY <2>2, <2>11, <2>12, <2>13, <2>14, <2>18, <2>19, Added
  <2>21. /\ suspended' \in [Proc -> Seq(Swapped)] /\ suspended'[p] = <<>>
         /\ \A q \in Proc : q # p => suspended'[q] = suspended[q]
    BY <1>0, <2>3 DEF Types
  <2>22. Types'
    <3>1. mem' = [a \in Addresses |-> mem'[a]]
      BY <2>3 DEF Keep
    <3>2. swapFile' = [b \in Blocks |-> swapFile'[b]]
      BY <2>2 DEF KeepBlocks
    <3>3. swapped' \subseteq Proc
      BY <1>0, <2>3 DEF Types
    <3> QED BY <1>0, <2>2, <2>20, <2>21, <3>1, <3>2, <3>3 DEF Types
  <2>23. ASSUME NEW q \in Proc PROVE Owner(q)'
    <3>1. CASE q # p
      <4>1. q \in swapped' <=> q \in swapped
        BY <2>3, <3>1
      <4> QED BY <1>0, <2>2, <2>15, <2>21, <3>1, <4>1, OwnerKept
    <3>2. CASE q = p
      <4>1. p \notin swapped' /\ p \in live' /\ thr'[p].at = "idle"
        BY <2>2, <2>3, <2>6
      <4>2. \A d \in Ids : <<p, d>> \in written' => HasId(table'[p], d)
        <5>1. \A d \in Ids : <<p, d>> \in written => s.id = d
          BY <2>3, <2>6, <2>7 DEF Owner, HasId
        <5> QED BY <2>2, <2>5, <2>15, <2>16, <5>1 DEF HasId
      <4>3. \A i, j \in DOMAIN table'[p] : table'[p][i].id = table'[p][j].id => i = j
        BY <2>15, <2>16
      <4>4. Len(suspended'[p]) <= 1
        BY <2>21
      <4>5. \A e \in stdin' : e[1] # p
        BY <2>2 DEF Waits
      <4> QED BY <2>21, <3>2, <4>1, <4>2, <4>3, <4>4, <4>5 DEF Owner, HasId
    <3> QED BY <3>1, <3>2
  <2>24. BlocksApart'
    <3>1. OwnBlocks(<<>>) /\ BlocksOf(<<>>) = {}
      BY DEF OwnBlocks, BlocksOf
    <3>2. \A q \in Proc : OwnBlocks(suspended'[q])
      BY <1>0, <2>21, <3>1 DEF BlocksApart
    <3>3. NoneShared(suspended')
      BY <1>0, <2>21, <3>1 DEF BlocksApart, NoneShared
    <3> QED BY <3>2, <3>3 DEF BlocksApart
  <2>25. PromptStdin => SuspendedDataIntact'
    <3> SUFFICES ASSUME PromptStdin, NEW q \in Proc, NEW k \in DOMAIN suspended'[q], <<q, suspended'[q][k].id>> \in written,
                        NEW i \in 0 .. (suspended'[q][k].size - 1)
                 PROVE  swapFile'[suspended'[q][k].blocks[i \div BlockSize + 1]][i % BlockSize]
                           = Byte(q, suspended'[q][k].id, i)
      BY <2>2 DEF SuspendedDataIntact, Byte
    <3>1. q # p /\ suspended'[q] = suspended[q]
      BY <2>21
    <3>2. suspended[q] \in Seq(Swapped) /\ OwnBlocks(suspended[q])
      BY <1>0 DEF Types, BlocksApart
    <3>3. PICK b \in Blocks : b = suspended[q][k].blocks[(i \div BlockSize) + 1] /\ b \in BlocksOf(suspended[q])
      BY <3>1, <3>2, ByteInBlock
    <3>4. swapFile'[b] = swapFile[b]
      BY <2>2, <3>1, <3>3 DEF KeepBlocks
    <3>5. swapFile[b][i % BlockSize] = Byte(q, suspended[q][k].id, i)
      BY <1>0, <3>1, <3>3 DEF Data, SuspendedDataIntact
    <3> QED BY <3>1, <3>3, <3>4, <3>5
  <2>26. \A q \in Proc : thr'[q].at \in {"idle", "start"}
    BY <1>0, <2>2, FreeMeansWait
  <2>27. PromptStdin => Data'
    <3>1. CopyKept'
      BY <2>26, NothingCopied
    <3>2. ASSUME PromptStdin PROVE StdinKnown'
      <4> SUFFICES ASSUME NEW e \in stdin
                   PROVE  e[1] \notin swapped' /\ \E l \in DOMAIN table'[e[1]] : table'[e[1]][l] = e[2]
        BY <2>2 DEF StdinKnown
      <4>1. e[1] \in Proc
        BY <1>0 DEF Types
      <4>2. e[1] \notin swapped /\ \E l \in DOMAIN table[e[1]] : table[e[1]][l] = e[2]
        BY <1>0, <3>2 DEF Data, StdinKnown
      <4> QED BY <2>3, <2>20, <4>1, <4>2
    <3> QED BY <2>20, <2>25, <3>1, <3>2 DEF Data
  <2> QED BY <2>20, <2>22, <2>23, <2>24, <2>26, <2>27, NoneAllocates DEF IndInv
<1> QED BY <1>0, <1>1, <1>2, <1>3, DesuspendIs

-----------------------------------------------------------------------------
(* The theorems.                                                           *)

LEMMA StutterInd ==
    ASSUME IndInv, UNCHANGED vars
    PROVE  IndInv'
<1>0. Types /\ (\A q \in Proc : Owner(q)) /\ Layout /\ Allocation /\ Moving /\ BlocksApart /\ (PromptStdin => Data)
  BY DEF IndInv
<1>1. /\ live' = live /\ table' = table /\ mem' = mem /\ thr' = thr /\ compact' = compact /\ swapped' = swapped
      /\ suspended' = suspended /\ swapFile' = swapFile /\ written' = written /\ stdin' = stdin
  BY DEF vars
<1>2. Types'
  BY <1>0, <1>1 DEF Types
<1>3. \A q \in Proc : Owner(q)'
  BY <1>0, <1>1, OwnerKept
<1>4. Layout' /\ BlocksApart' /\ Allocation' /\ Moving'
  BY <1>0, <1>1, SegmentsKept, AllocationKept, MovingKept
<1>5. PromptStdin => Data'
  BY <1>0, <1>1, CopySame, DataSame DEF Data
<1> QED BY <1>2, <1>3, <1>4, <1>5 DEF IndInv

LEMMA NextInd ==
    ASSUME Regime, IndInv, [Next]_vars
    PROVE  IndInv'
<1>0. SerialAllocation /\ OneSegmentSwaps /\ QuietCompaction
  BY DEF Regime
<1>1. CASE UNCHANGED vars
  BY <1>1, StutterInd
<1>2. CASE Next
  <2>1. PICK p \in Proc :
           \/ PROCESS_CREATE(p) \/ PROCESS_END(p)
           \/ \E id \in Ids : \/ \E size \in Sizes : SEGMENT_CREATE(p, id, size)
                              \/ segment_delete(p, id)
                              \/ MemoryWrite(p, id) \/ STDIN(p, id)
           \/ IO_MEMORY_WRITE(p)
           \/ ChooseHole(p) \/ CompactionReady(p) \/ ReadSegment(p) \/ MoveSegment(p)
           \/ CompactionFinished(p) \/ InsertSegment(p)
           \/ process_suspend(p) \/ process_desuspend(p)
    BY <1>2 DEF Next
  <2>2. CASE PROCESS_CREATE(p)
    BY <2>2, ProcessCreateInd
  <2>3. CASE PROCESS_END(p)
    BY <1>0, <2>3, ProcessEndInd
  <2>4. ASSUME NEW id \in Ids, NEW size \in Sizes, SEGMENT_CREATE(p, id, size) PROVE IndInv'
    BY <2>4, SegmentCreateInd
  <2>5. ASSUME NEW id \in Ids, segment_delete(p, id) PROVE IndInv'
    BY <1>0, <2>5, SegmentDeleteInd
  <2>6. ASSUME NEW id \in Ids, MemoryWrite(p, id) PROVE IndInv'
    BY <1>0, <2>6, MemoryWriteInd
  <2>14. ASSUME NEW id \in Ids, STDIN(p, id) PROVE IndInv'
    BY <1>0, <2>14, StdinInd
  <2>15. CASE IO_MEMORY_WRITE(p)
    BY <2>15, IoMemoryWriteInd
  <2>16. CASE ReadSegment(p)
    BY <2>16, ReadSegmentInd
  <2>7. CASE ChooseHole(p)
    BY <1>0, <2>7, ChooseHoleInd
  <2>8. CASE CompactionReady(p)
    BY <2>8, CompactionReadyInd
  <2>9. CASE MoveSegment(p)
    BY <2>9, MoveSegmentInd
  <2>10. CASE CompactionFinished(p)
    BY <2>10, CompactionFinishedInd
  <2>11. CASE InsertSegment(p)
    BY <2>11, InsertSegmentInd
  <2>12. CASE process_suspend(p)
    BY <1>0, <2>12, ProcessSuspendInd
  <2>13. CASE process_desuspend(p)
    BY <1>0, <2>13, ProcessDesuspendInd
  <2> QED BY <2>1, <2>2, <2>3, <2>4, <2>5, <2>6, <2>7, <2>8, <2>9, <2>10, <2>11, <2>12, <2>13, <2>14, <2>15, <2>16
<1> QED BY <1>1, <1>2

\* The invariant the other theorems follow from: allocations that are served one by one
\* keep segments apart, compaction within what it was promised and, when STDINs do not meet
\* moves and suspensions of their process, data in their place.
THEOREM Invariance ==
    ASSUME Regime
    PROVE  Spec => []IndInv
<1>1. Init => IndInv
  BY InitInd
<1>2. IndInv /\ [Next]_vars => IndInv'
  BY NextInd
<1> QED BY <1>1, <1>2, PTL DEF Spec

\* Segment tables, threads, the cursor of compact_memory and the lists of swap blocks keep
\* their types.
THEOREM TypeCorrect ==
    ASSUME Regime
    PROVE  Spec => []TypeOK
<1>1. IndInv => TypeOK
  <2> SUFFICES ASSUME IndInv PROVE TypeOK
    OBVIOUS
  <2>0. Types
    BY DEF IndInv
  <2>1. live \subseteq Proc /\ swapped \subseteq Proc /\ written \subseteq Proc \X Ids
    BY <2>0 DEF Types
  <2>2. \A p \in Proc : \A i \in DOMAIN table[p] : table[p][i] \in [id : Ids, base : Addresses, size : Sizes]
    BY <2>0, SegmentFacts DEF Segment
  <2>3. \A p \in Proc : thr[p].at \in {"idle", "start", "compaction", "moving", "copying", "insert", "failed"}
    BY <2>0 DEF Types, Points
  <2>4. compact.cursor \in 0 .. Total /\ stdin \subseteq Proc \X [id : Ids, base : Addresses, size : Sizes]
    BY <2>0 DEF Types, Segment
  <2>5. ASSUME NEW p \in Proc, NEW i \in DOMAIN suspended[p] PROVE Range(suspended[p][i].blocks) \subseteq Blocks
    <3>1. suspended[p][i] \in Swapped
      BY <2>0 DEF Types
    <3>2. suspended[p][i].blocks \in Seq(Blocks)
      BY <3>1 DEF Swapped
    <3> QED BY <3>2 DEF Range
  <2> QED BY <2>1, <2>2, <2>3, <2>4, <2>5 DEF TypeOK
<1> QED BY <1>1, Invariance, PTL

\* No byte belongs to two segments and no segment leaves memory, whatever was created,
\* deleted, moved, suspended and read back, in whatever order and with either strategy.
THEOREM SegmentsApart ==
    ASSUME Regime
    PROVE  Spec => []NoOverlap
<1>1. IndInv => NoOverlap
  <2> SUFFICES ASSUME IndInv PROVE NoOverlap
    OBVIOUS
  <2>0. Types /\ Layout
    BY DEF IndInv
  <2>1. \A s \in Segments : Bytes(s) \subseteq Addresses
    BY <2>0, SegmentsAre, BytesOf
  <2>2. ASSUME NEW p \in Proc, NEW q \in Proc, NEW i \in DOMAIN table[p], NEW j \in DOMAIN table[q],
               Bytes(table[p][i]) \cap Bytes(table[q][j]) # {}
        PROVE  p = q /\ i = j
    <3>1. PICK a : a \in Bytes(table[p][i]) /\ a \in Bytes(table[q][j])
      BY <2>2
    <3>2. /\ table[p][i].base \in Nat /\ table[p][i].size \in Nat
          /\ table[q][j].base \in Nat /\ table[q][j].size \in Nat
      BY <2>0, SegmentFacts
    <3>3. ~Apart(table[p][i], table[q][j])
      BY <3>1, <3>2 DEF Apart, Bytes
    <3> QED BY <2>0, <3>3 DEF Layout
  <2> QED BY <2>1, <2>2 DEF NoOverlap
<1> QED BY <1>1, Invariance, PTL

\* compact_memory copies segments over each other's old bytes, and deletions, allocations
\* and the other swaps go on around them, and so do the answers of the devices to STDINs of
\* the processes whose segments stay: what a process wrote in a segment is there.
THEOREM DataKept ==
    ASSUME Regime, PromptStdin
    PROVE  Spec => []DataIntact
<1>1. IndInv => DataIntact
  BY DEF IndInv, Data
<1> QED BY <1>1, Invariance, PTL

\* process_suspend writes the segment to blocks nobody else has, and no other suspension
\* writes to them until process_desuspend has read them.
THEOREM SuspendedDataKept ==
    ASSUME Regime, PromptStdin
    PROVE  Spec => []SuspendedDataIntact
<1>1. IndInv => SuspendedDataIntact
  BY DEF IndInv, Data
<1> QED BY <1>1, Invariance, PTL

\* segment_create asks for a compaction only when the free bytes are enough in all, and then
\* finds its hole: the error path after a compaction is not taken.
THEOREM CompactionIsEnough ==
    ASSUME Regime
    PROVE  Spec => []CompactionSuffices
<1>1. IndInv => CompactionSuffices
  BY DEF IndInv, Allocation
<1> QED BY <1>1, Invariance, PTL
=============================================================================
