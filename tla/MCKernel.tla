------------------------------ MODULE MCKernel ------------------------------
(***************************************************************************)
(* Threads and memory for TLC: the scheduler, the physical memory manager  *)
(* (once with callers, once with every boot context), the page tables and  *)
(* the heap.  They share no state and each property is about one of them,  *)
(* so that interleaving their steps would show nothing: `part` names the   *)
(* one that a behaviour runs, and the others stay as they began.           *)
(***************************************************************************)
EXTENDS Scheduler, Integers, Sequences

VARIABLES
  part,
  free_ranges, managed_ranges, total_frames, free_frames, initialised, boot, status,
  phase, active_boot, space, mmio_next, temp_mapped, handed, reading,
  blocks, headers, total_region_bytes, allocated_payload_bytes, active_allocations,
  region_count, taken

pmmVars == <<free_ranges, managed_ranges, total_frames, free_frames, initialised,
             boot, status>>
pagingVars == <<phase, active_boot, space, mmio_next, temp_mapped, handed, reading>>
heapVars == <<blocks, headers, total_region_bytes, allocated_payload_bytes,
              active_allocations, region_count, taken>>
memoryVars == <<pmmVars, pagingVars, heapVars>>
all == <<part, vars, memoryVars>>

-----------------------------------------------------------------------------
\* Boot contexts.  A page has two addresses.
Region(b, l, t) == [base |-> b, length |-> l, type |-> t]
Nothing == [start |-> 0, end |-> 0]

\* Nine pages in two ranges around the kernel image, from three regions.
OneMemory ==
  {[map |-> <<Region(10, 6, "usable"), Region(2, 9, "usable"), Region(16, 6, "usable")>>,
    physical_memory_limit |-> 22, kernel |-> [start |-> 7, end |-> 8],
    framebuffer |-> Nothing]}

\* Every memory map of two regions, one of them usable, with an image.
AnyMap ==
  {[map |-> <<r, s>>, physical_memory_limit |-> limit,
    kernel |-> k, framebuffer |-> f] :
     r \in {Region(b, l, "usable") : b \in {0, 1, 4, 5}, l \in {0, 3, 6, 9}},
     s \in {Region(b, l, t) : b \in {0, 3, 6, 9}, l \in {0, 1, 4, 6},
                              t \in {"usable", "reserved"}},
     limit \in {2, 7, 11},
     k \in {Nothing, [start |-> 5, end |-> 6], [start |-> 7, end |-> 11]},
     f \in {Nothing, [start |-> 8, end |-> 9]}}

\* Memory in use: runs of up to three frames, room for three ranges.
Pmm == INSTANCE Pmm WITH
  PageSize <- 2, Top <- 23, MinPhysical <- 2, MaxRanges <- 3,
  Boots <- OneMemory, MaxCount <- 3

\* Memory at boot: regions that reach the last address, room for two ranges.
PmmAtBoot == INSTANCE Pmm WITH
  PageSize <- 2, Top <- 11, MinPhysical <- 2, MaxRanges <- 2,
  Boots <- AnyMap, MaxCount <- 1

\* Pages of two units and tables of four entries.  The four windows of the
\* kernel lie under different root entries, as in the code.
SmallSections ==
  [text |-> <<2, 5>>, rodata |-> <<6, 7>>, data |-> <<8, 9>>,
   guard_low |-> 10, stack |-> <<12, 14>>, guard_high |-> 14, kernel_end |-> 16]

\* The kernel begins inside a large page or shares one with the framebuffer;
\* the last two are refused for their offset and for their size.
BootContext(offset, phys, usable_end, fb) ==
  [offset |-> offset, kernel_phys |-> phys, kernel_virt |-> 384,
   usable_end |-> usable_end, framebuffer |-> fb]
BootContexts ==
  {BootContext(0, 4, 32, <<33, 34>>), BootContext(16, 8, 22, <<24, 27>>),
   BootContext(3, 8, 32, <<33, 34>>), BootContext(0, 8, 400, <<33, 34>>)}

\* Devices that start inside a page or cross a table, one asked for twice; an
\* ACPI table inside one page and one that crosses pages.
Paging == INSTANCE Paging WITH
  boot <- active_boot, PAGE_SIZE <- 2, Fan <- 4,
  Boots <- BootContexts, Sections <- SmallSections,
  DIRECT_MAP_MAX <- 128, MMIO_BASE <- 132, MMIO_LIMIT <- 142, TEMP_MAP_BASE <- 256,
  BootFrames <- 0..13, FreeFrames <- {0, 1, 3},
  MmioRequests <- {<<100, 2>>, <<101, 6>>, <<120, 5>>},
  AcpiRequests <- {<<41, 1>>, <<45, 3>>}

\* Three pages; sizes that split a block, fill it, need two pages, wrap, and
\* are refused; one overrun block.
Heap == INSTANCE Heap WITH
  Align <- 2, Header <- 2, Canary <- 1, MinSplit <- 2, SizeMax <- 31,
  PageSize <- 8, MinGrowPages <- 1, Pages <- 3, Sizes <- {0, 1, 4, 7, 22, 31},
  MaxOverruns <- 1

ASSUME MemoryAssumption ==
  /\ Pmm!PmmAssumption /\ PmmAtBoot!PmmAssumption
  /\ Paging!PagingAssumption /\ Heap!HeapAssumption

-----------------------------------------------------------------------------
KernelInit ==
  /\ Init /\ Paging!Init /\ Heap!Init
  /\ \/ part \in {"scheduler", "pmm", "paging", "heap"} /\ Pmm!Init
     \/ part = "pmm_init" /\ PmmAtBoot!Init
  /\ part # "paging" => active_boot.usable_end = 22 /\ space.frames = 0

KernelNext ==
  \/ part = "scheduler" /\ Next /\ UNCHANGED <<part, memoryVars>>
  \/ part = "pmm" /\ Pmm!Next /\ UNCHANGED <<part, vars, pagingVars, heapVars>>
  \/ part = "pmm_init" /\ PmmAtBoot!Next /\ UNCHANGED <<part, vars, pagingVars, heapVars>>
  \/ part = "paging" /\ Paging!Next /\ UNCHANGED <<part, vars, pmmVars, heapVars>>
  \/ part = "heap" /\ Heap!Next /\ UNCHANGED <<part, vars, pmmVars, pagingVars>>

KernelSpec ==
  KernelInit /\ [][KernelNext]_all /\ WF_vars(part = "scheduler" /\ Yield)

-----------------------------------------------------------------------------
\* pmm_init manages exactly the usable pages, whatever the order and the
\* overlap of the regions of the boot map.
ManagesUsablePages == part = "pmm_init" => PmmAtBoot!ManagesUsablePages

\* pmm_alloc_frames and pmm_free_frames refuse only for want of a run or of
\* room in the array of ranges.
RefusalsAreJustified == part = "pmm" => Pmm!RefusalsAreJustified

\* The list of ranges implements the set of free frames of FrameAllocator.
ImplementsFrameAllocator == Pmm!ImplementsFrameAllocator

\* kmalloc and kfree keep the regions tiled by blocks, free neighbours joined.
Tiling == Heap!Tiling

\* kfree takes no address but that of an allocated block: joined blocks leave
\* no header behind.
NoStaleHeader == Heap!NoStaleHeader

\* No page is writable and executable, and nothing can write to the kernel's
\* text and read-only data, once paging_init has built the tables.
KernelImageProtected == Paging!KernelImageProtected

\* What paging_map_mmio has returned keeps reaching its device, and only an
\* entry that a refused call left behind at mmio_next refuses another device.
DevicePointersStay == Paging!DevicePointersStay

\* kernel_acpi_read sees the page that it has mapped, not an earlier one.
AcpiReadsItsTable == Paging!AcpiReadsItsTable
=============================================================================
