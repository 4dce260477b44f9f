------------------------------ MODULE Partition ------------------------------
(***************************************************************************)
(* partition_scan of partition.c on one block device: the protective entry *)
(* that selects GPT, the checks on the GPT header and on the extent of its *)
(* entry array, and the two loops that fill the caller's table one entry   *)
(* at a time and stop at the first bad one.                                *)
(*                                                                         *)
(* What is on the disk is chosen when the code looks at it and kept, so    *)
(* that the properties can compare the result with the disk. Checksums,   *)
(* signatures and a header's own address are one Boolean; identifiers are  *)
(* left out.                                                               *)
(***************************************************************************)
EXTENDS Integers, Sequences

CONSTANTS SectorCounts, SectorSize,   \* the device
          PARTITION_MAX, GPT_ENTRY_MAX_COUNT, GPT_ENTRY_MAX_SIZE,
          Lbas, EntryCounts, EntrySizes  \* values that may be on the disk

VARIABLES at,      \* "scan", the loop or check the code is in, or "done"
          sectors, \* device->sector_count
          slots,   \* types of the four MBR entries, when they are used
          header,  \* the GPT header once it has been read
          found,   \* the used entries of the disk looked at so far
          next,    \* loop counter
          table,   \* the caller's partition_table_t
          status
vars == <<at, sectors, slots, header, found, next, table, status>>

LimitsAssumption ==
    /\ SectorCounts \subseteq Nat /\ SectorSize \in Nat \ {0}
    /\ PARTITION_MAX \in Nat /\ PARTITION_MAX >= 4  \* the entries of an MBR
    /\ GPT_ENTRY_MAX_COUNT \in Nat \ {0}
    /\ Lbas \subseteq Nat /\ EntryCounts \subseteq Nat /\ EntrySizes \subseteq Nat

Types == {"empty", "data", "protective"}
GPT_TABLE_MAX_BYTES == GPT_ENTRY_MAX_SIZE * GPT_ENTRY_MAX_COUNT

Headers ==
    [valid : BOOLEAN, first_usable : Lbas, last_usable : Lbas,
     entries_lba : Lbas, entry_count : EntryCounts, entry_size : EntrySizes]

NoHeader == [valid |-> FALSE]
NoTable == [scheme |-> "none", entries |-> <<>>]

Return(s) ==
    /\ at' = "done" /\ status' = s
    /\ UNCHANGED <<sectors, slots, header, found, next>>

Add(first, count) ==
    table' = [table EXCEPT !.entries = Append(@, [first_lba |-> first, sector_count |-> count])]

-----------------------------------------------------------------------------
\* partition_scan up to the choice of scheme: the table is cleared, sector 0
\* read, its signature tested, and one protective entry is enough for GPT.
ReadMbr ==
    /\ at = "scan"
    /\ \/ /\ \/ sectors < 2 /\ Return("bad_argument")
             \/ sectors >= 2 /\ Return("io_error")
             \/ sectors >= 2 /\ Return("bad_signature")
          /\ UNCHANGED table
       \/ /\ sectors >= 2
          /\ \E t \in [1 .. 4 -> Types] :
                IF \E i \in 1 .. 4 : t[i] = "protective"
                THEN at' = "header" /\ UNCHANGED <<slots, table>>
                ELSE /\ at' = "mbr" /\ slots' = t
                     /\ table' = [table EXCEPT !.scheme = "mbr"]
          /\ UNCHANGED <<sectors, header, found, next, status>>

\* The extent test of the MBR loop, written so that nothing can overflow.
MbrBad(first, count) == first >= sectors \/ count > sectors - first

\* One turn of the MBR loop. Four entries always fit PARTITION_MAX.
MbrEntry ==
    /\ at = "mbr" /\ next <= 4
    /\ \/ /\ next' = next + 1         \* unused, or without sectors
          /\ UNCHANGED <<at, found, table, status>>
       \/ /\ slots[next] # "empty"
          /\ \E first \in Lbas, count \in Lbas \ {0} :
                /\ found' = Append(found, <<first, count>>)
                /\ IF MbrBad(first, count)
                   THEN at' = "done" /\ status' = "bad_signature" /\ UNCHANGED <<table, next>>
                   ELSE Add(first, count) /\ next' = next + 1 /\ UNCHANGED <<at, status>>
    /\ UNCHANGED <<sectors, slots, header>>

MbrEnd ==
    /\ at = "mbr" /\ next > 4
    /\ Return("ok")
    /\ UNCHANGED table

-----------------------------------------------------------------------------
\* validate_gpt_header on the values the header holds.
validate_gpt_header(h) ==
    /\ h.valid
    /\ h.first_usable <= h.last_usable
    /\ h.entry_count \in 1 .. GPT_ENTRY_MAX_COUNT
    /\ h.entry_size \in 128 .. GPT_ENTRY_MAX_SIZE
    /\ h.entry_size % 8 = 0

\* The sectors that the entry array takes, and whether they are on the device.
ArraySectors(h) == (h.entry_count * h.entry_size + SectorSize - 1) \div SectorSize
ArrayFits(h) ==
    /\ h.entry_count * h.entry_size <= GPT_TABLE_MAX_BYTES
    /\ h.entries_lba < sectors
    /\ ArraySectors(h) # 0
    /\ ArraySectors(h) <= sectors - h.entries_lba

\* parse_gpt: the header in sector 1, then load_gpt_entries: each read may
\* fail, and the array has a checksum.
ReadHeader ==
    /\ at = "header"
    /\ \/ Return("io_error") /\ UNCHANGED table
       \/ \E h \in Headers :
             /\ header' = h
             /\ next' = 1
             /\ \/ /\ ~(validate_gpt_header(h) /\ ArrayFits(h))
                   /\ at' = "done" /\ status' = "bad_gpt"
                   /\ UNCHANGED table
                \/ /\ validate_gpt_header(h) /\ ArrayFits(h)
                   /\ at' = "gpt"
                   /\ table' = [scheme |-> "gpt", entries |-> <<>>]
                   /\ UNCHANGED status
                \/ /\ validate_gpt_header(h) /\ ArrayFits(h)
                   /\ at' = "done"
                   /\ status' \in {"io_error", "bad_gpt"}
                   /\ UNCHANGED table
             /\ UNCHANGED <<sectors, slots, found>>

\* A faulty variant: the device's size is not tested.
GptBadUsableOnly(first, last) ==
    first > last \/ first < header.first_usable \/ last > header.last_usable

\* The tests of populate_gpt_table on one entry.
GptBad(first, last) ==
    \/ first > last
    \/ first < header.first_usable \/ last > header.last_usable
    \/ last >= sectors

\* One turn of populate_gpt_table.
GptEntry ==
    /\ at = "gpt" /\ next <= header.entry_count
    /\ \/ /\ next' = next + 1
          /\ UNCHANGED <<at, sectors, slots, header, found, table, status>>
       \/ \E first, last \in Lbas :
             /\ found' = Append(found, <<first, last>>)
             /\ CASE GptBad(first, last) ->
                        at' = "done" /\ status' = "bad_gpt" /\ UNCHANGED <<table, next>>
                  [] ~GptBad(first, last) /\ Len(table.entries) >= PARTITION_MAX ->
                        at' = "done" /\ status' = "too_many" /\ UNCHANGED <<table, next>>
                  [] OTHER ->
                        /\ Add(first, last - first + 1)
                        /\ next' = next + 1
                        /\ UNCHANGED <<at, status>>
             /\ UNCHANGED <<sectors, slots, header>>

GptEnd ==
    /\ at = "gpt" /\ next > header.entry_count
    /\ Return("ok")
    /\ UNCHANGED table

-----------------------------------------------------------------------------
Init ==
    /\ at = "scan"
    /\ sectors \in SectorCounts
    /\ slots = [i \in 1 .. 4 |-> "empty"]
    /\ header = NoHeader
    /\ found = <<>>
    /\ next = 1
    /\ table = NoTable
    /\ status = "running"

Next == ReadMbr \/ MbrEntry \/ MbrEnd \/ ReadHeader \/ GptEntry \/ GptEnd

Spec == Init /\ [][Next]_vars

-----------------------------------------------------------------------------
(* Properties. *)

\* The extent a used entry of the disk describes, by its scheme.
Extent(e) == IF table.scheme = "gpt" THEN e[1] .. e[2] ELSE e[1] .. e[1] + e[2] - 1

\* What has been put into the table is the disk's entry of the same number and
\* lies on the device.
ListedAsOnDisk ==
    /\ Len(table.entries) <= PARTITION_MAX
    /\ Len(table.entries) <= Len(found)
    /\ \A i \in DOMAIN table.entries :
          LET p == table.entries[i]
              extent == p.first_lba .. p.first_lba + p.sector_count - 1
          IN  extent = Extent(found[i]) /\ extent # {} /\ extent \subseteq 0 .. sectors - 1

\* When an entry loop gives up, the entry it looked at describes sectors that
\* are not on the device or, for GPT, not in the usable area, or it is one too
\* many.
RejectedForAReason ==
    at = "done" /\ found # <<>> /\ status # "ok" =>
        LET last == found[Len(found)]
        IN  \/ Extent(last) = {}
            \/ ~(Extent(last) \subseteq 0 .. sectors - 1)
            \/ table.scheme = "gpt"
               /\ ~(Extent(last) \subseteq header.first_usable .. header.last_usable)
            \/ status = "too_many" /\ Len(found) > PARTITION_MAX

\* The loop of the table's scheme has been through all its entries.
AllTurnsTaken == next > IF table.scheme = "gpt" THEN header.entry_count ELSE 4

\* A scan that returns PARTITION_OK has listed every used entry of the disk.
CompleteWhenOk ==
    status = "ok" => Len(table.entries) = Len(found) /\ AllTurnsTaken

\* Whatever partition_scan has put into the table, also when it then fails,
\* lies on the device and is the disk's entry of the same number: no sector
\* past the end, no entry reordered or resized.  When it returns PARTITION_OK
\* no entry is missing.  Once a loop has looked at a used entry, the scan fails
\* only because the entry is bad or one too many; the failures before that
\* (argument, I/O, signature, header, checksum) list nothing.
TableIsTheDisks == ListedAsOnDisk /\ RejectedForAReason /\ CompleteWhenOk
=============================================================================
