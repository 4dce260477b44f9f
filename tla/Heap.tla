-------------------------------- MODULE Heap --------------------------------
(***************************************************************************)
(* The kernel heap, kernel/src/heap.c, grown with page runs by             *)
(* kernel/src/heap_kernel.c.                                               *)
(*                                                                         *)
(* The linked list is the sequence blocks, each block at the address of    *)
(* its header.  headers is the memory as kfree sees it: the magic number   *)
(* found at an address, which outlives its block when blocks are joined.   *)
(* The canary is the flag intact, cleared by a client that writes beyond   *)
(* its payload.  The counters of calls that heap_stats reports are left    *)
(* out.                                                                    *)
(***************************************************************************)
EXTENDS Integers, Sequences, FiniteSets

CONSTANTS Align, Header, Canary, MinSplit,  \* HEAP_ALIGNMENT, sizeof(heap_block_t), ...
          SizeMax,                          \* SIZE_MAX and UINT64_MAX
          PageSize, MinGrowPages,           \* PMM_PAGE_SIZE, KHEAP_MIN_GROW_PAGES
          Pages,                            \* bound: pages that the frame allocator has
          Sizes,                            \* the sizes that clients ask for
          MaxOverruns                       \* bound: blocks with a broken canary

HeapAssumption ==
  /\ Align \in Nat \ {0} /\ Header \in Nat \ {0} /\ Canary \in Nat \ {0}
  /\ PageSize \in Nat \ {0} /\ Header % Align = 0 /\ PageSize % Align = 0
  /\ SizeMax \in Nat /\ (SizeMax + 1) % PageSize = 0
  /\ MinGrowPages \in Nat \ {0} /\ Pages \in Nat /\ MinSplit \in Nat
  /\ MinGrowPages * PageSize > Header + MinSplit
  /\ Sizes \subseteq 0..SizeMax /\ MaxOverruns \in Nat

VARIABLES blocks, headers,
          total_region_bytes, allocated_payload_bytes, active_allocations,
          region_count,
          taken             \* the pages that the grow callback has handed out

vars == <<blocks, headers, total_region_bytes, allocated_payload_bytes,
          active_allocations, region_count, taken>>

Addresses == {a \in 0..(Pages * PageSize - 1) : a % Align = 0}

-----------------------------------------------------------------------------

\* align_up_size fails above SizeMax.
AlignUp(n) == ((n + Align - 1) \div Align) * Align

\* The payload that kmalloc looks for.
CapacityNeeded(n) == AlignUp(n + Canary)

Payload(b) == b.at + Header
End(b) == Payload(b) + b.capacity

FreeBlock(at, capacity) ==
  [at |-> at, capacity |-> capacity, requested |-> 0, is_free |-> TRUE, intact |-> TRUE]

Joinable(list, i) ==
  /\ i >= 1 /\ i + 1 <= Len(list)
  /\ list[i].is_free /\ list[i + 1].is_free
  /\ End(list[i]) = list[i + 1].at

\* merge_with_next.  The header of the second block stays in memory.
MergeWithNext(list, i) ==
  IF ~Joinable(list, i) THEN list
  ELSE [j \in 1..(Len(list) - 1) |->
          CASE j < i -> list[j]
            [] j = i -> FreeBlock(list[i].at, list[i].capacity + Header + list[i + 1].capacity)
            [] j > i -> list[j + 1]]

\* Block i is joined with the one before it, and the result with the one after
\* it (the ends of insert_region and of kfree).
MergeAround(list, i) ==
  IF Joinable(list, i - 1)
  THEN MergeWithNext(MergeWithNext(list, i - 1), i - 1)
  ELSE MergeWithNext(list, i)

\* The list with b linked in as block i.
Linked(list, i, b) ==
  [j \in 1..(Len(list) + 1) |->
     CASE j < i -> list[j] [] j = i -> b [] j > i -> list[j - 1]]

First(is) == CHOOSE i \in is : \A j \in is : i <= j

\* insert_region: in front of the first block that is not before b.
InsertRegion(list, b) ==
  LET pos == First({i \in 1..(Len(list) + 1) : i <= Len(list) => list[i].at >= b.at})
  IN  MergeAround(Linked(list, pos, b), pos)

\* find_block: the first free block that is large enough, or 0.
FindBlock(list, needed) ==
  LET fits == {i \in DOMAIN list : list[i].is_free /\ list[i].capacity >= needed}
  IN  IF fits = {} THEN 0 ELSE First(fits)

\* Faulty variant: forgets that the tail needs a header of its own.
SplitTooSmall(list, i, used) ==
  LET b == list[i]
  IN  IF b.capacity - used = 0 THEN list
      ELSE Linked([list EXCEPT ![i] = [@ EXCEPT !.capacity = used]], i + 1,
                  FreeBlock(Payload(b) + used, b.capacity - used))

\* split_block
SplitBlock(list, i, used) ==
  LET b == list[i]
  IN  IF b.capacity - used < Header + MinSplit THEN list
      ELSE Linked([list EXCEPT ![i] = [@ EXCEPT !.capacity = used]], i + 1,
                  FreeBlock(Payload(b) + used, b.capacity - used - Header))

\* fill_bytes over a payload leaves no header in it.
Poisoned(hs, b) ==
  [a \in Addresses |-> IF a >= Payload(b) /\ a < End(b) THEN "none" ELSE hs[a]]

-----------------------------------------------------------------------------

Init ==
  /\ blocks = <<>>
  /\ headers = [a \in Addresses |-> "none"]
  /\ total_region_bytes = 0 /\ allocated_payload_bytes = 0
  /\ active_allocations = 0 /\ region_count = 0
  /\ taken = {}

\* The early returns of kmalloc for a size that is 0 or too close to SizeMax.
TooLarge(n) == n = 0 \/ SizeMax - n < Canary \/ CapacityNeeded(n) > SizeMax

\* The end of kmalloc, in the list as it is after any growth.
Place(list, hs, n) ==
  LET i     == FindBlock(list, CapacityNeeded(n))
      split == SplitBlock(list, i, CapacityNeeded(n))
      tail  == IF Len(split) > Len(list)
               THEN [hs EXCEPT ![split[i + 1].at] = "free"] ELSE hs
  IN  /\ blocks' = [split EXCEPT ![i] = [@ EXCEPT !.requested = n, !.is_free = FALSE]]
      /\ headers' = [Poisoned(tail, split[i]) EXCEPT ![split[i].at] = "alloc"]
      /\ allocated_payload_bytes' = allocated_payload_bytes + n
      /\ active_allocations' = active_allocations + 1

KmallocFound(n) ==
  /\ ~TooLarge(n)
  /\ FindBlock(blocks, CapacityNeeded(n)) # 0
  /\ Place(blocks, headers, n)
  /\ UNCHANGED <<total_region_bytes, region_count, taken>>

\* The pages that grow_heap and kernel_heap_grow ask for.  The rounding wraps.
GrowPages(n) ==
  LET needed == Header + CapacityNeeded(n) + Canary
      pages  == ((needed + PageSize - 1) % (SizeMax + 1)) \div PageSize
  IN  IF pages < MinGrowPages THEN MinGrowPages ELSE pages

\* No block is large enough and the callback returns pages: add_region puts them
\* into the list, which is searched again.
KmallocGrows(n) ==
  /\ ~TooLarge(n)
  /\ FindBlock(blocks, CapacityNeeded(n)) = 0
  /\ SizeMax - CapacityNeeded(n) >= Header + Canary
  /\ \E p \in 0..(Pages - 1) :
       LET new   == p..(p + GrowPages(n) - 1)
           bytes == GrowPages(n) * PageSize
           list  == InsertRegion(blocks, FreeBlock(p * PageSize, bytes - Header))
           hs    == [headers EXCEPT ![p * PageSize] = "free"]
       IN  /\ new \subseteq (0..(Pages - 1)) \ taken
           /\ taken' = taken \cup new
           /\ total_region_bytes' = total_region_bytes + bytes
           /\ region_count' = region_count + 1
           /\ IF FindBlock(list, CapacityNeeded(n)) # 0
              THEN Place(list, hs, n)
              ELSE /\ blocks' = list
                   /\ headers' = hs
                   /\ UNCHANGED <<allocated_payload_bytes, active_allocations>>

\* kmalloc returns null: the size is refused or the callback has no pages.
KmallocFails(n) ==
  /\ TooLarge(n) \/ FindBlock(blocks, CapacityNeeded(n)) = 0
  /\ UNCHANGED vars

\* The client writes one byte too many.
Overrun(i) ==
  /\ Cardinality({j \in DOMAIN blocks : ~blocks[j].intact}) < MaxOverruns
  /\ ~blocks[i].is_free
  /\ blocks' = [blocks EXCEPT ![i] = [@ EXCEPT !.intact = FALSE]]
  /\ UNCHANGED <<headers, total_region_bytes, allocated_payload_bytes,
                 active_allocations, region_count, taken>>

\* Faulty variant: leaves the magic number in the header.
KfreeKeepsMagic(i) ==
  /\ headers[blocks[i].at] = "alloc" /\ blocks[i].intact
  /\ blocks' = MergeAround([blocks EXCEPT ![i] = [@ EXCEPT !.requested = 0, !.is_free = TRUE]], i)
  /\ headers' = Poisoned(headers, blocks[i])
  /\ allocated_payload_bytes' = allocated_payload_bytes - blocks[i].requested
  /\ active_allocations' = active_allocations - 1
  /\ UNCHANGED <<total_region_bytes, region_count, taken>>

\* kfree of the payload of block i.
Kfree(i) ==
  /\ headers[blocks[i].at] = "alloc"
  /\ blocks[i].requested # 0 /\ blocks[i].requested + Canary <= blocks[i].capacity
  /\ blocks[i].intact
  /\ blocks' = MergeAround([blocks EXCEPT ![i] = [@ EXCEPT !.requested = 0, !.is_free = TRUE]], i)
  /\ headers' = [Poisoned(headers, blocks[i]) EXCEPT ![blocks[i].at] = "free"]
  /\ allocated_payload_bytes' = allocated_payload_bytes - blocks[i].requested
  /\ active_allocations' = active_allocations - 1
  /\ UNCHANGED <<total_region_bytes, region_count, taken>>

\* kfree reports a double free, an invalid pointer or a broken canary.
KfreeRefused(a) ==
  /\ \/ headers[a] # "alloc"
     \/ \E i \in DOMAIN blocks : blocks[i].at = a /\ ~blocks[i].intact
  /\ UNCHANGED vars

Next ==
  \/ \E n \in Sizes : KmallocFound(n) \/ KmallocGrows(n) \/ KmallocFails(n)
  \/ \E i \in DOMAIN blocks : Overrun(i) \/ Kfree(i)
  \/ \E a \in Addresses : KfreeRefused(a)

Spec == Init /\ [][Next]_vars

-----------------------------------------------------------------------------

Live == {i \in DOMAIN blocks : ~blocks[i].is_free}

Extent(b) == b.at..(End(b) - 1)

\* The blocks tile the regions: in address order, none overlapping the next, all
\* aligned, and together with their headers exactly the bytes of the regions, so
\* that no byte is lost or given to two clients by splitting and joining.  An
\* allocated block has room for its payload and its canary, and free blocks that
\* touch have been joined, across regions too.
Tiling ==
  /\ \A i \in DOMAIN blocks :
       /\ blocks[i].capacity % Align = 0
       /\ i > 1 => End(blocks[i - 1]) <= blocks[i].at
       /\ i \in Live => blocks[i].requested + Canary <= blocks[i].capacity
       /\ ~Joinable(blocks, i)
  /\ UNION {Extent(blocks[i]) : i \in DOMAIN blocks} =
       {a \in 0..(Pages * PageSize - 1) : a \div PageSize \in taken}
  /\ total_region_bytes = PageSize * Cardinality(taken)

\* The magic of an allocated block is found in front of allocated payloads and
\* nowhere else: kfree never accepts a pointer that is not allocated, though
\* headers stay in memory when blocks are joined.
NoStaleHeader ==
  \A a \in Addresses :
    headers[a] = "alloc" <=> \E i \in Live : blocks[i].at = a

=============================================================================
