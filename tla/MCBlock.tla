------------------------------ MODULE MCBlock ------------------------------
(***************************************************************************)
(* Block storage for TLC: the sector cache over a disk of two sectors and  *)
(* a read-only one of one sector, and the scan of a partition table.  The  *)
(* two share no state and each property is about one of them: `part` names *)
(* the one that a behaviour runs, and the other stays as it began.         *)
(***************************************************************************)
EXTENDS BlockCache, Integers

CONSTANTS hd, rom

TwoDevices == {hd, rom}
OnlyDisk == {hd}
SectorCounts == [d \in TwoDevices |-> IF d = hd THEN 2 ELSE 1]

VARIABLES part, at, sectors, slots, header, found, next, table, status

scanVars == <<at, sectors, slots, header, found, next, table, status>>
all == <<part, vars, scanVars>>

\* Devices with room for a table and without; headers and entries at, across
\* and beyond the device's end; more entries than the table holds.
Partition == INSTANCE Partition WITH
  SectorCounts <- {1, 3}, SectorSize <- 512, PARTITION_MAX <- 4,
  GPT_ENTRY_MAX_COUNT <- 6, GPT_ENTRY_MAX_SIZE <- 512,
  Lbas <- 0..3, EntryCounts <- {0, 5, 7}, EntrySizes <- {64, 128, 132, 512, 640}

ASSUME TableAssumption == Partition!LimitsAssumption

-----------------------------------------------------------------------------
BlockInit ==
  /\ part \in {"cache", "partition"}
  /\ Init /\ Partition!Init
  /\ IF part = "cache" THEN sectors = 1
     ELSE disk = [d \in Devices |-> [l \in Lbas |-> Zero]]

BlockNext ==
  \/ part = "cache" /\ Next /\ UNCHANGED <<part, scanVars>>
  \/ part = "partition" /\ Partition!Next /\ UNCHANGED <<part, vars>>

BlockSpec == BlockInit /\ [][BlockNext]_all

-----------------------------------------------------------------------------
\* partition_scan lists what the disk says, on the device, gives up on an entry
\* only for a reason, and has left none out when it reports success.
TableIsTheDisks == Partition!TableIsTheDisks
=============================================================================
