------------------------------- MODULE Paging -------------------------------
(***************************************************************************)
(* Page tables of the kernel: paging.c, and its only user of temporary     *)
(* mappings, kernel_acpi_read.                                             *)
(*                                                                         *)
(* Addresses are numbers in units smaller than a page, so that sections,   *)
(* devices and tables may start or end inside a page.  A table of the tree *)
(* has Fan entries (512 in the code) and the tree four levels; a table is  *)
(* never shared or moved, so it is named by its level and the part of the  *)
(* address that leads to it, and only the number of free frames is kept.   *)
(* The processor may cache the translation of a mapped page at any moment  *)
(* (the TLB, external) and drops it at invlpg or when CR3 is loaded.  The  *)
(* TLB here has one entry: a stale translation needs no second one.        *)
(***************************************************************************)
EXTENDS Integers, FiniteSets, SequencesExt

CONSTANTS PAGE_SIZE, Fan,            \* units in a page, entries in a table
          Boots,                     \* boot contexts explored
          Sections,                  \* offsets of the linker's symbols
          DIRECT_MAP_MAX, MMIO_BASE, MMIO_LIMIT, TEMP_MAP_BASE,
          BootFrames, FreeFrames,    \* numbers of free frames, at boot and later
          MmioRequests,              \* <<physical address, size>> of devices
          AcpiRequests               \* <<physical address, length>> of tables

HUGE_PAGE_SIZE == Fan * PAGE_SIZE

PagingAssumption ==
  /\ PAGE_SIZE \in Nat \ {0} /\ Fan \in Nat \ {0, 1}
  /\ BootFrames \subseteq Nat /\ FreeFrames \subseteq Nat
  /\ MMIO_BASE % PAGE_SIZE = 0 /\ MMIO_LIMIT % PAGE_SIZE = 0
  /\ TEMP_MAP_BASE % PAGE_SIZE = 0

VARIABLES
  phase,       \* "boot", "tables", "running" or "halted"
  boot,        \* active_boot
  space,       \* tables, entries, free frames, TLB and status of the last call
  mmio_next, temp_mapped,
  handed,      \* device mappings returned: virtual, physical and size
  reading      \* what kernel_acpi_read still has to read, <<>> outside it

vars == <<phase, boot, space, mmio_next, temp_mapped, handed, reading>>

align_down(a, n) == a - (a % n)
align_up(a, n) == align_down(a + n - 1, n)

\* The page-aligned addresses that cover start to end, in order.
Pages(start, end) ==
  LET lo == align_down(start, PAGE_SIZE)
      n == (align_up(end, PAGE_SIZE) - lo) \div PAGE_SIZE
  IN [i \in 1..n |-> lo + (i - 1) * PAGE_SIZE]

\* The addresses one table entry spans at each level, the root's first.
Span(level) == PAGE_SIZE * Fan^(4 - level)

-----------------------------------------------------------------------------
\* alloc_table: a zeroed frame becomes the table that t names.
AllocTable(s, t) ==
  IF s.frames = 0 THEN [s EXCEPT !.status = "NO_MEMORY"]
  ELSE [s EXCEPT !.frames = @ - 1, !.tables = @ \cup {t}]

\* ensure_table below the entry of the given level on the way to v.
EnsureTable(s, level, v) ==
  LET t == <<level, align_down(v, Span(level))>>
  IN IF level = 3 /\ t[2] \in DOMAIN s.huge
     THEN [s EXCEPT !.status = "MAPPING_CONFLICT"]
     ELSE IF t \in s.tables THEN s ELSE AllocTable(s, t)

\* The tables on the way to v, down to the given level, stopping at a failure.
EnsurePath(s, v, level) ==
  FoldLeft(LAMBDA a, l : IF a.status = "OK" THEN EnsureTable(a, l, v) ELSE a,
           s, [l \in 1..level |-> l])

\* Writing again what is there is allowed, any other change needs replace.
SetEntry(f, v, wanted) == [x \in DOMAIN f \cup {v} |->
                             IF x = v THEN wanted ELSE f[x]]

Differs(f, v, wanted) == v \in DOMAIN f /\ f[v] # wanted

map_2m_flags(s0, v, phys, flags) ==
  LET s == EnsurePath(s0, v, 2)
      wanted == [phys |-> phys, flags |-> flags]
  IN IF v % HUGE_PAGE_SIZE # 0 \/ phys % HUGE_PAGE_SIZE # 0
     THEN [s0 EXCEPT !.status = "UNSUPPORTED_LAYOUT"]
     ELSE IF s.status # "OK" THEN s
     ELSE IF <<3, v>> \in s.tables \/ Differs(s.huge, v, wanted)
     THEN [s EXCEPT !.status = "MAPPING_CONFLICT"]
     ELSE [s EXCEPT !.huge = SetEntry(@, v, wanted)]

map_4k_flags(s0, v, phys, flags, replace) ==
  LET s == EnsurePath(s0, v, 3)
      wanted == [phys |-> phys, flags |-> flags]
  IN IF v % PAGE_SIZE # 0 \/ phys % PAGE_SIZE # 0
     THEN [s0 EXCEPT !.status = "UNSUPPORTED_LAYOUT"]
     ELSE IF s.status # "OK" THEN s
     ELSE IF Differs(s.pte, v, wanted) /\ ~replace
     THEN [s EXCEPT !.status = "MAPPING_CONFLICT"]
     ELSE [s EXCEPT !.pte = SetEntry(@, v, wanted)]

-----------------------------------------------------------------------------
ranges_overlap(a, b) == a[1] < b[2] /\ b[1] < a[2]

kernel_phys_end(b) == b.kernel_phys + Sections.kernel_end
KernelPhys(b) == <<b.kernel_phys, kernel_phys_end(b)>>

\* kernel_phys_for_virtual, for an address of the kernel's own range.
kernel_phys_for_virtual(b, v) == b.kernel_phys + (v - b.kernel_virt)
InKernel(b, v) == b.kernel_virt <= v /\ v < b.kernel_virt + Sections.kernel_end

\* phys is a page of the section; both ends are rounded to pages.
InSection(b, phys, section) ==
  /\ phys >= align_down(b.kernel_phys + section[1], PAGE_SIZE)
  /\ phys < align_down(b.kernel_phys + section[2] + PAGE_SIZE - 1, PAGE_SIZE)

\* The faulty variant forgets the part of a section in its last page.
direct_flags_rounding_down(b, phys) ==
  IF ranges_overlap(<<phys, phys + PAGE_SIZE>>, b.framebuffer)
  THEN {"RW", "NX", "PCD", "PWT"}
  ELSE IF \E s \in {Sections.text, Sections.rodata} :
            /\ phys >= b.kernel_phys + s[1]
            /\ phys < align_down(b.kernel_phys + s[2], PAGE_SIZE)
  THEN {"NX"} ELSE {"RW", "NX"}

direct_flags_for_page(b, phys) ==
  IF ranges_overlap(<<phys, phys + PAGE_SIZE>>, b.framebuffer)
  THEN {"RW", "NX", "PCD", "PWT"}
  ELSE IF InSection(b, phys, Sections.text) \/ InSection(b, phys, Sections.rodata)
  THEN {"NX"} ELSE {"RW", "NX"}

chunk_needs_4k_mapping(b, phys) ==
  \E r \in {KernelPhys(b), b.framebuffer} :
    ranges_overlap(<<phys, phys + HUGE_PAGE_SIZE>>, r)

\* The whole of physical memory at its fixed offset, in large pages where
\* neither the kernel nor the framebuffer is.
map_direct_range(s, b, limit) ==
  LET Page(a, phys) ==
        IF a.status # "OK" \/ phys >= limit THEN a
        ELSE map_4k_flags(a, b.offset + phys, phys,
                          direct_flags_for_page(b, phys), FALSE)
      Chunk(a, phys) ==
        IF a.status # "OK" THEN a
        ELSE IF chunk_needs_4k_mapping(b, phys)
        THEN FoldLeft(Page, a, Pages(phys, phys + HUGE_PAGE_SIZE))
        ELSE map_2m_flags(a, b.offset + phys, phys, {"RW", "NX"})
  IN FoldLeft(Chunk, s, [i \in 1..(limit \div HUGE_PAGE_SIZE) |->
                           (i - 1) * HUGE_PAGE_SIZE])

map_kernel_virtual_range(s, b, section, flags) ==
  LET Page(a, v) ==
        IF a.status # "OK" THEN a
        ELSE IF ~InKernel(b, v) THEN [a EXCEPT !.status = "UNSUPPORTED_LAYOUT"]
        ELSE map_4k_flags(a, v, align_down(kernel_phys_for_virtual(b, v), PAGE_SIZE),
                          flags, FALSE)
  IN IF section[1] >= section[2] THEN s
     ELSE FoldLeft(Page, s, Pages(b.kernel_virt + section[1],
                                  b.kernel_virt + section[2]))

\* The end of what the direct map covers: memory, framebuffer and kernel.
physical_map_limit(b) ==
  CHOOSE m \in {b.usable_end, b.framebuffer[2], kernel_phys_end(b)} :
    \A n \in {b.usable_end, b.framebuffer[2], kernel_phys_end(b)} : n <= m

\* The tables paging_init builds, or the state in which it gave up.
PagingTables(s0, b) ==
  LET limit == physical_map_limit(b)
      Map(a, r) == IF a.status = "OK"
                   THEN map_kernel_virtual_range(a, b, r[1], r[2]) ELSE a
      root == AllocTable(s0, <<0, 0>>)
      direct == map_direct_range(root, b, align_up(limit, HUGE_PAGE_SIZE))
  IN IF b.offset % HUGE_PAGE_SIZE # 0 \/ limit > DIRECT_MAP_MAX
     THEN [s0 EXCEPT !.status = "UNSUPPORTED_LAYOUT"]
     ELSE IF root.status # "OK" THEN root
     ELSE FoldLeft(Map, direct,
            << <<(<<0, Sections.text[1]>>), {"NX"}>>, <<Sections.text, {}>>,
               <<Sections.rodata, {"NX"}>>, <<Sections.data, {"RW", "NX"}>>,
               <<Sections.stack, {"RW", "NX"}>> >>)

-----------------------------------------------------------------------------
\* What the tables show at an address (query_root); "unmapped" if nothing.
Query(s, v) ==
  LET h == align_down(v, HUGE_PAGE_SIZE)
      p == align_down(v, PAGE_SIZE)
  IN IF h \in DOMAIN s.huge
     THEN [present |-> TRUE, phys |-> s.huge[h].phys + (v - h), flags |-> s.huge[h].flags]
     ELSE IF p \in DOMAIN s.pte
     THEN [present |-> TRUE, phys |-> s.pte[p].phys + (v - p), flags |-> s.pte[p].flags]
     ELSE [present |-> FALSE, phys |-> 0, flags |-> {}]

\* The address the processor reaches: a cached translation wins.
Reaches(s, v) ==
  LET p == align_down(v, PAGE_SIZE)
  IN IF p \in DOMAIN s.tlb THEN s.tlb[p].phys + (v - p) ELSE Query(s, v).phys

Shows(s, b, symbol, flags) ==
  LET m == Query(s, b.kernel_virt + symbol[1])
  IN m.present /\ m.flags \cap {"RW", "NX"} = flags

paging_verify_kernel_layout(s, b) ==
  LET fb == Query(s, b.offset + b.framebuffer[1])
  IN /\ Shows(s, b, Sections.text, {})
     /\ Shows(s, b, Sections.rodata, {"NX"})
     /\ Shows(s, b, Sections.data, {"RW", "NX"})
     /\ Shows(s, b, Sections.stack, {"RW", "NX"})
     /\ ~Query(s, b.kernel_virt + Sections.guard_low).present
     /\ ~Query(s, b.kernel_virt + Sections.guard_high).present
     /\ fb.present /\ {"RW", "NX"} \subseteq fb.flags

-----------------------------------------------------------------------------
Init ==
  /\ phase = "boot"
  /\ boot \in Boots
  /\ \E n \in BootFrames :
       space = [tables |-> {}, huge |-> <<>>, pte |-> <<>>, tlb |-> <<>>,
                frames |-> n, status |-> "OK"]
  /\ mmio_next = MMIO_BASE /\ temp_mapped = FALSE
  /\ handed = {} /\ reading = <<>>

\* paging_init; the kernel halts when it fails.
PagingInit ==
  /\ phase = "boot"
  /\ \E s \in {PagingTables(space, boot)} :
       /\ space' = s
       /\ phase' = IF s.status = "OK" THEN "tables" ELSE "halted"
  /\ UNCHANGED <<boot, mmio_next, temp_mapped, handed, reading>>

\* paging_activate loads CR3, then the kernel checks its own layout.
Activate ==
  /\ phase = "tables"
  /\ phase' = IF paging_verify_kernel_layout(space, boot) THEN "running" ELSE "halted"
  /\ space' = [space EXCEPT !.tlb = <<>>]
  /\ UNCHANGED <<boot, mmio_next, temp_mapped, handed, reading>>

\* The processor drops the cached translation of a page; the faulty variant
\* leaves the instruction out.
InvlpgMissing(s, v) == s
Invlpg(s, v) == [s EXCEPT !.tlb = [x \in DOMAIN @ \ {v} |-> @[x]]]

\* The pages of a device, mapped at mmio_next until one fails.
MmioPages(s, phys, span) ==
  LET Page(a, done) ==
        IF a.status # "OK" THEN a
        ELSE LET m == map_4k_flags(a, mmio_next + done, phys + done,
                                   {"RW", "NX", "PCD", "PWT"}, FALSE)
             IN IF m.status = "OK" THEN Invlpg(m, mmio_next + done) ELSE m
  IN FoldLeft(Page, s, Pages(0, span))

\* Bytes to map for a device that starts inside a page.  The faulty variant
\* does not count the part of the first page before the device.
MmioSpanOfSize(offset, size) == align_up(size, PAGE_SIZE)
MmioSpan(offset, size) == align_up(offset + size, PAGE_SIZE)

\* paging_map_mmio.
MapMmio(address, size) ==
  LET phys == align_down(address, PAGE_SIZE)
      offset == address - phys
      span == MmioSpan(offset, size)
  IN /\ phase = "running" /\ reading = <<>>
     /\ size > 0 /\ mmio_next + span <= MMIO_LIMIT
     /\ \E s \in {MmioPages(space, phys, span)} :
          /\ space' = [s EXCEPT !.status = "OK"]
          /\ IF s.status = "OK"
             THEN /\ mmio_next' = mmio_next + span
                  /\ handed' = handed \cup {[virt |-> mmio_next + offset,
                                             phys |-> address, size |-> size]}
             ELSE UNCHANGED <<mmio_next, handed>>
     /\ UNCHANGED <<phase, boot, temp_mapped, reading>>

\* The window is used up: paging_map_mmio returns 0 and changes nothing.
MapMmioExhausted(address, size) ==
  /\ phase = "running" /\ reading = <<>>
  /\ mmio_next + MmioSpan(address % PAGE_SIZE, size) > MMIO_LIMIT
  /\ UNCHANGED vars

-----------------------------------------------------------------------------
\* kernel_acpi_read is called.
AcpiRead(address, length) ==
  /\ phase = "running" /\ reading = <<>>
  /\ reading' = <<address, length>>
  /\ UNCHANGED <<phase, boot, space, mmio_next, temp_mapped, handed>>

\* paging_temp_map of the page where the rest starts; a failure ends the read.
TempMap ==
  /\ reading # <<>> /\ ~temp_mapped
  /\ \E s \in {map_4k_flags(space, TEMP_MAP_BASE, align_down(reading[1], PAGE_SIZE),
                            {"RW", "NX", "PCD"}, TRUE)} :
       IF s.status = "OK"
       THEN /\ space' = Invlpg(s, TEMP_MAP_BASE)
            /\ temp_mapped' = TRUE
            /\ UNCHANGED reading
       ELSE /\ space' = [s EXCEPT !.status = "OK"]
            /\ reading' = <<>>
            /\ UNCHANGED temp_mapped
  /\ UNCHANGED <<phase, boot, mmio_next, handed>>

\* The chunk is copied and paging_temp_unmap takes the entry away.
TempUnmap ==
  /\ reading # <<>> /\ temp_mapped
  /\ LET room == PAGE_SIZE - (reading[1] % PAGE_SIZE)
     IN reading' = IF reading[2] <= room THEN <<>>
                   ELSE <<reading[1] + room, reading[2] - room>>
  /\ space' = Invlpg([space EXCEPT !.pte = [x \in DOMAIN @ \ {TEMP_MAP_BASE} |-> @[x]]],
                     TEMP_MAP_BASE)
  /\ temp_mapped' = FALSE
  /\ UNCHANGED <<phase, boot, mmio_next, handed>>

\* The processor caches what it reaches through a mapped page.
TlbFill(v) ==
  /\ phase = "running" /\ Query(space, v).present
  /\ v \notin DOMAIN space.tlb
  /\ space' = [space EXCEPT !.tlb = [x \in {v} |-> space.pte[v]]]
  /\ UNCHANGED <<phase, boot, mmio_next, temp_mapped, handed, reading>>

\* The other users of physical memory take and return frames.
OtherFrames ==
  /\ phase = "running"
  /\ \E n \in FreeFrames : space' = [space EXCEPT !.frames = n]
  /\ UNCHANGED <<phase, boot, mmio_next, temp_mapped, handed, reading>>

Next ==
  \/ PagingInit \/ Activate
  \/ \E r \in MmioRequests : MapMmio(r[1], r[2]) \/ MapMmioExhausted(r[1], r[2])
  \/ \E r \in AcpiRequests : AcpiRead(r[1], r[2])
  \/ TempMap \/ TempUnmap
  \/ \E v \in DOMAIN space.pte : v >= MMIO_BASE /\ TlbFill(v)
  \/ OtherFrames

Spec == Init /\ [][Next]_vars

-----------------------------------------------------------------------------
\* Every mapped page of the space, large pages cut into small ones.
MappedPages(s) ==
  DOMAIN s.pte \cup {h + i * PAGE_SIZE : h \in DOMAIN s.huge, i \in 0..(Fan - 1)}

\* Safety.  Once the tables are built no page is both writable and
\* executable, only text is executable, no mapping anywhere in the space (the
\* direct map included) can write to a page of text or read-only data, the
\* pages beside the stack are not mapped where the stack is used, and
\* paging_verify_kernel_layout accepts what paging_init built.
KernelImageProtected ==
  phase \in {"tables", "running"} =>
    /\ \A v \in MappedPages(space) :
         LET m == Query(space, v)
         IN /\ "RW" \in m.flags => "NX" \in m.flags
            /\ "NX" \notin m.flags => InSection(boot, m.phys, Sections.text)
            /\ InSection(boot, m.phys, Sections.text) \/ InSection(boot, m.phys, Sections.rodata)
                 => "RW" \notin m.flags
    /\ phase = "tables" => paging_verify_kernel_layout(space, boot)

\* Safety.  A pointer paging_map_mmio has returned reaches its device, byte
\* for byte, through the tables and through whatever the processor caches,
\* whatever is mapped, refused or asked for again later.  A call that runs
\* out of frames half way leaves entries behind at mmio_next, which are
\* never taken away; so with frames enough and room in the window a device
\* is refused exactly when such an entry stands at mmio_next for a page other
\* than the device's first.  The refused device itself fits over its entries,
\* unless another one that starts at the same page was mapped meanwhile.
DevicePointersStay ==
  /\ \A h \in handed : \A i \in 0..(h.size - 1) :
       /\ Query(space, h.virt + i).present
       /\ Query(space, h.virt + i).phys = h.phys + i
       /\ Reaches(space, h.virt + i) = h.phys + i
  /\ \A r \in MmioRequests :
       LET phys == align_down(r[1], PAGE_SIZE)
           span == MmioSpan(r[1] - phys, r[2])
           status == MmioPages([space EXCEPT !.frames = 3 * (span \div PAGE_SIZE)],
                               phys, span).status
           left == Query(space, mmio_next)
       IN phase = "running" /\ mmio_next + span <= MMIO_LIMIT =>
            status = IF left.present /\ left.phys # phys THEN "MAPPING_CONFLICT" ELSE "OK"

\* Safety.  While kernel_acpi_read copies a chunk, the temporary page reaches
\* the physical page that chunk is in, not the one of an earlier chunk.
AcpiReadsItsTable ==
  (reading # <<>> /\ temp_mapped) =>
    LET offset == reading[1] % PAGE_SIZE
    IN Reaches(space, TEMP_MAP_BASE + offset) = reading[1]
=============================================================================
