-------------------------------- MODULE Pmm --------------------------------
(***************************************************************************)
(* The physical memory manager, kernel/src/pmm.c: the sorted list of free  *)
(* ranges, its construction from the boot memory map, allocation by first  *)
(* fit and the release of frames.                                          *)
(*                                                                         *)
(* Addresses are 0..Top, Top standing for UINT64_MAX, and a page has       *)
(* PageSize addresses, so that alignment and the overflow tests keep their *)
(* meaning.  The arrays of ranges are sequences; the loops that shift      *)
(* their elements are insertion and deletion.                              *)
(***************************************************************************)
EXTENDS Naturals, Sequences, FiniteSets, SequencesExt

CONSTANTS PageSize,     \* PMM_PAGE_SIZE
          Top,          \* UINT64_MAX
          MinPhysical,  \* PMM_MIN_PHYSICAL
          MaxRanges,    \* PMM_MAX_RANGES
          Boots,        \* the boot contexts explored
          MaxCount      \* bound on the frame counts that clients ask for

PmmAssumption ==
  /\ PageSize \in Nat \ {0}
  /\ Top \in Nat /\ Top % PageSize = PageSize - 1
  /\ MinPhysical \in Nat /\ MaxRanges \in Nat \ {0} /\ MaxCount \in Nat \ {0}

VARIABLES free_ranges, managed_ranges, total_frames, free_frames, initialised,
          boot,         \* the boot context that pmm_init was given
          status        \* what pmm_init returned, "none" before it ran

vars == <<free_ranges, managed_ranges, total_frames, free_frames, initialised,
          boot, status>>

-----------------------------------------------------------------------------

AlignDown(a) == a - (a % PageSize)
AlignUp(a) == AlignDown(a + PageSize - 1)       \* fails above Top

\* Elements i..j of a list become one range, the others stay.
Join(list, i, j) ==
  SubSeq(list, 1, i - 1)
    \o <<[start |-> list[i].start, end |-> Max({list[m].end : m \in i..j})]>>
    \o SubSeq(list, j + 1, Len(list))

\* The loop at the end of insert_free_range takes in the following ranges as
\* long as the grown range reaches them.
LastAbsorbed(list, i) ==
  Max({j \in i..Len(list) :
         \A m \in (i + 1)..j :
           Max({list[k].end : k \in i..(m - 1)}) >= list[m].start})

Outcome(st, list) == [status |-> st, ranges |-> list]

\* The new range in its place, joined with the neighbours that it reaches.
Placed(list, start, end) ==
  LET pos    == Cardinality({i \in DOMAIN list : list[i].start < start})
      placed == InsertAt(list, pos + 1, [start |-> start, end |-> end])
      left   == pos > 0 /\ placed[pos].end >= start
      joined == IF left THEN Join(placed, pos, pos + 1) ELSE placed
      at     == IF left THEN pos ELSE pos + 1
  IN  Join(joined, at, LastAbsorbed(joined, at))

\* insert_free_range.  A full list is refused before any joining is tried.
InsertFreeRange(list, start, end) ==
  IF start >= end THEN Outcome("OK", list)
  ELSE IF Len(list) >= MaxRanges THEN Outcome("RANGE_CAPACITY", list)
  ELSE Outcome("OK", Placed(list, start, end))

\* What is left of range r without the interval.
Pieces(r, start, end) ==
  IF end <= r.start \/ start >= r.end THEN <<r>>
  ELSE (IF r.start < start THEN <<[start |-> r.start, end |-> start]>> ELSE <<>>)
         \o (IF end < r.end THEN <<[start |-> end, end |-> r.end]>> ELSE <<>>)

\* Faulty variant: the part behind the interval is lost when a range is split.
RemoveLosesTail(list, start, end) ==
  IF start >= end THEN Outcome("OK", list)
  ELSE Outcome("OK", FlattenSeq([i \in DOMAIN list |->
         LET p == Pieces(list[i], start, end) IN IF p = <<>> THEN p ELSE <<p[1]>>]))

\* remove_interval.  Splitting a range needs a free slot in the array; the ranges
\* are disjoint, so that a split is the only change of its call.
RemoveInterval(list, start, end) ==
  IF start >= end THEN Outcome("OK", list)
  ELSE LET pieces == [i \in DOMAIN list |-> Pieces(list[i], start, end)]
       IN  IF Len(list) >= MaxRanges /\ \E i \in DOMAIN list : Len(pieces[i]) = 2
           THEN Outcome("RANGE_CAPACITY", list)
           ELSE Outcome("OK", FlattenSeq(pieces))

-----------------------------------------------------------------------------

\* pmm_init, one operator for each of its passes over the boot context.  A pass
\* leaves the outcome alone once an earlier step has failed.
AddUsable(out, region) ==
  IF out.status # "OK" \/ region.type # "usable" \/ region.length = 0 THEN out
  ELSE IF Top - region.base < region.length THEN Outcome("BAD_ARGUMENT", out.ranges)
  ELSE LET first == AlignUp(Max({region.base, MinPhysical}))
           last  == AlignDown(Min({region.base + region.length,
                                   boot.physical_memory_limit}))
       IN  IF first > Top THEN out ELSE InsertFreeRange(out.ranges, first, last)

RemoveReserved(out, region) ==
  IF out.status # "OK" \/ region.type = "usable" \/ region.length = 0 THEN out
  ELSE IF Top - region.base < region.length THEN Outcome("BAD_ARGUMENT", out.ranges)
  ELSE LET last == AlignUp(region.base + region.length)
       IN  RemoveInterval(out.ranges, AlignDown(region.base),
                          IF last > Top THEN AlignDown(Top) ELSE last)

RemoveImage(out, image) ==
  IF out.status # "OK" \/ image.start >= image.end THEN out
  ELSE IF AlignUp(image.end) > Top THEN Outcome("BAD_ARGUMENT", out.ranges)
  ELSE RemoveInterval(out.ranges, AlignDown(image.start), AlignUp(image.end))

NeedMemory(out) ==
  IF out.status = "OK" /\ out.ranges = <<>> THEN Outcome("NO_MEMORY", <<>>) ELSE out

BuildRanges ==
  LET usable   == NeedMemory(FoldLeft(AddUsable, Outcome("OK", <<>>), boot.map))
      unmapped == FoldLeft(RemoveReserved, usable, boot.map)
      noKernel == RemoveImage(unmapped, boot.kernel)
  IN  IF boot.map = <<>> \/ boot.physical_memory_limit <= MinPhysical
      THEN Outcome("BAD_ARGUMENT", <<>>)
      ELSE NeedMemory(RemoveImage(noKernel, boot.framebuffer))

\* The first addresses of the pages inside the ranges.
Pages(list) ==
  UNION {{a \in list[i].start..(list[i].end - 1) : a % PageSize = 0} :
           i \in DOMAIN list}

FramesIn(list) ==
  FoldLeft(LAMBDA n, r : n + (r.end - r.start) \div PageSize, 0, list)

Init ==
  /\ free_ranges = <<>> /\ managed_ranges = <<>>
  /\ total_frames = 0 /\ free_frames = 0
  /\ initialised = FALSE
  /\ boot \in Boots
  /\ status = "none"

PmmInit ==
  /\ status = "none"
  /\ status' = BuildRanges.status
  /\ free_ranges' = BuildRanges.ranges
  /\ IF BuildRanges.status = "OK"
     THEN /\ managed_ranges' = BuildRanges.ranges
          /\ total_frames' = FramesIn(BuildRanges.ranges)
          /\ free_frames' = FramesIn(BuildRanges.ranges)
          /\ initialised' = TRUE
     ELSE UNCHANGED <<managed_ranges, total_frames, free_frames, initialised>>
  /\ UNCHANGED boot

-----------------------------------------------------------------------------

\* Faulty variant: an exact fit does not fit.
FitsLoosely(r, n) == r.end - r.start > n * PageSize

Fits(r, n) == r.end - r.start >= n * PageSize

\* The first range that n frames fit in, or 0.
FirstFit(n) == SelectInSeq(free_ranges, LAMBDA r : Fits(r, n))

\* pmm_alloc_frames returns PMM_INVALID_FRAME.
AllocFails(n) ==
  \/ ~initialised
  \/ n = 0
  \/ n > free_frames
  \/ FirstFit(n) = 0

AllocFrames(n) ==
  /\ ~AllocFails(n)
  /\ LET i    == FirstFit(n)
         rest == [free_ranges[i] EXCEPT !.start = @ + n * PageSize]
     IN  free_ranges' = IF rest.start = rest.end THEN RemoveAt(free_ranges, i)
                        ELSE ReplaceAt(free_ranges, i, rest)
  /\ free_frames' = free_frames - n
  /\ UNCHANGED <<managed_ranges, total_frames, initialised, boot, status>>

\* contains_frame, for some range of the list.
ContainsFrame(list, a) ==
  \E i \in DOMAIN list :
    /\ a >= list[i].start
    /\ Top - a >= PageSize
    /\ a + PageSize <= list[i].end

\* The pages that pmm_free_frames looks at.
Asked(a, n) == {a + k * PageSize : k \in 0..(n - 1)}

\* Faulty variant: trusts the caller about the last frames of the run.
FreeStatusFirstOnly(a, n) ==
  IF ~initialised \/ n = 0 \/ a % PageSize # 0 \/ Top - a < n * PageSize
  THEN "INVALID_FREE"
  ELSE IF ~ContainsFrame(managed_ranges, a) THEN "INVALID_FREE"
  ELSE IF ContainsFrame(free_ranges, a) THEN "DOUBLE_FREE"
  ELSE InsertFreeRange(free_ranges, a, a + n * PageSize).status

\* What pmm_free_frames returns.  The scan stops at the first page that is not
\* managed or is already free.
FreeStatus(a, n) ==
  IF ~initialised \/ n = 0 \/ a % PageSize # 0 \/ Top - a < n * PageSize
  THEN "INVALID_FREE"
  ELSE LET bad == {p \in Asked(a, n) : ~ContainsFrame(managed_ranges, p)
                                         \/ ContainsFrame(free_ranges, p)}
       IN  IF bad # {}
           THEN IF ContainsFrame(managed_ranges, Min(bad)) THEN "DOUBLE_FREE"
                ELSE "INVALID_FREE"
           ELSE InsertFreeRange(free_ranges, a, a + n * PageSize).status

FreeFrames(a, n) ==
  /\ FreeStatus(a, n) = "OK"
  /\ free_ranges' = InsertFreeRange(free_ranges, a, a + n * PageSize).ranges
  /\ free_frames' = free_frames + n
  /\ UNCHANGED <<managed_ranges, total_frames, initialised, boot, status>>

\* A refused call changes nothing.
Refused ==
  /\ status # "none"
  /\ \/ \E n \in 0..MaxCount : AllocFails(n)
     \/ \E a \in 0..Top, n \in 0..MaxCount : FreeStatus(a, n) # "OK"
  /\ UNCHANGED vars

Next ==
  \/ PmmInit
  \/ \E n \in 1..MaxCount : AllocFrames(n)
  \/ \E a \in 0..Top, n \in 1..MaxCount : FreeFrames(a, n)
  \/ Refused

Spec == Init /\ [][Next]_vars

-----------------------------------------------------------------------------

FreePages == Pages(free_ranges)
ManagedPages == Pages(managed_ranges)

\* The page at a is usable memory in the boot context: inside one usable region
\* and the physical limit, above the bootstrap area, and touched by no other
\* region, nor by the kernel image or the framebuffer.
Touches(a, start, end) == start < end /\ start < a + PageSize /\ a < end

UsablePage(a) ==
  /\ a % PageSize = 0
  /\ a >= MinPhysical
  /\ a + PageSize <= boot.physical_memory_limit
  /\ \E i \in DOMAIN boot.map :
       LET r == boot.map[i]
       IN  r.type = "usable" /\ r.base <= a /\ a + PageSize <= r.base + r.length
  /\ \A i \in DOMAIN boot.map :
       LET r == boot.map[i]
       IN  r.type # "usable" => ~Touches(a, r.base, r.base + r.length)
  /\ ~Touches(a, boot.kernel.start, boot.kernel.end)
  /\ ~Touches(a, boot.framebuffer.start, boot.framebuffer.end)

\* pmm_init manages exactly the usable pages, whatever the order and the overlap
\* of the regions: "Reserved/ACPI/framebuffer entries win over overlapping usable
\* entries."
ManagesUsablePages ==
  initialised => ManagedPages = {a \in 0..Top : UsablePage(a)}

\* The list implements the frame allocator: allocation takes the lowest run of
\* free frames and is refused only when no run is long enough, and releases
\* give back exactly the frames of the call.
Abstract == INSTANCE FrameAllocator WITH
  Frames <- 0..(Top \div PageSize),
  managed <- {a \div PageSize : a \in ManagedPages},
  free <- {a \div PageSize : a \in IF initialised THEN FreePages ELSE {}}

ImplementsFrameAllocator == Abstract!Spec

\* pmm_alloc_frames refuses only when no run of free frames is long enough,
\* which takes every release to join its neighbours; and frames that are not
\* free can be given back whatever else is free, unless the array of ranges is
\* full.
RefusalsAreJustified ==
  initialised => \A n \in 1..MaxCount :
    /\ AllocFails(n) => ~\E a \in FreePages : Asked(a, n) \subseteq FreePages
    /\ \A a \in ManagedPages :
         Asked(a, n) \subseteq ManagedPages \ FreePages =>
           FreeStatus(a, n) = "OK" \/ Len(free_ranges) = MaxRanges
=============================================================================
