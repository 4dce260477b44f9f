----------------------------- MODULE BlockCache -----------------------------
(***************************************************************************)
(* The write-through sector cache, kernel/src/block_cache.c, over the      *)
(* block requests of kernel/src/block.c.                                   *)
(*                                                                         *)
(* The device drivers are callbacks of the registering code.  A driver     *)
(* that reports an error has done any part of its work: a failed read may  *)
(* have changed the buffer it was given, a failed write may have changed   *)
(* the sector.  The ghost variable suspect names the entries whose copy    *)
(* such a failure has made differ from the device.                         *)
(***************************************************************************)
EXTENDS Naturals, FiniteSets

CONSTANTS Devices, NoDevice,    \* registered devices; the null pointer
          Writable,             \* the devices that can be written
          Sectors,              \* sector_count of each device
          Lbas,                 \* the sector numbers that clients ask for
          Data, Zero,           \* sector contents; those of fresh memory
          Entries,              \* BLOCK_CACHE_ENTRIES
          MaxClock              \* bound on the uses explored

ASSUME CacheAssumption ==
  /\ Writable \subseteq Devices
  /\ Sectors \in [Devices -> Nat \ {0}]
  /\ Lbas \subseteq Nat
  /\ Zero \in Data
  /\ Entries \in Nat \ {0}
  /\ MaxClock \in Nat

VARIABLES disk,                 \* what the devices hold
          entries, clock, hits, misses,
          suspect,
          recent, before        \* ghosts: the sectors that should be cached, and
                                \* which of them was used before which

ghostVars == <<recent, before>>
vars == <<disk, entries, clock, hits, misses, suspect, ghostVars>>

Slots == 1..Entries

Entry == [valid : BOOLEAN, device : Devices \cup {NoDevice}, lba : Nat, age : Nat, data : Data]

-----------------------------------------------------------------------------

\* request_in_range
RequestInRange(d, l, n) == n # 0 /\ l < Sectors[d] /\ n <= Sectors[d] - l

Holds(i, d, l) == entries[i].valid /\ entries[i].device = d /\ entries[i].lba = l

Cached(d, l) == \E i \in Slots : Holds(i, d, l)

\* find_entry
FindEntry(d, l) ==
  CHOOSE i \in Slots : Holds(i, d, l) /\ \A j \in Slots : Holds(j, d, l) => i <= j

\* victim_entry: the first unused entry, or else the first of the least age.
VictimEntry ==
  IF \E i \in Slots : ~entries[i].valid
  THEN CHOOSE i \in Slots :
         ~entries[i].valid /\ \A j \in Slots : ~entries[j].valid => i <= j
  ELSE CHOOSE i \in Slots :
         \A j \in Slots : \/ entries[i].age < entries[j].age
                          \/ entries[i].age = entries[j].age /\ i <= j

Filled(d, l, v) ==
  [valid |-> TRUE, device |-> d, lba |-> l, age |-> clock + 1, data |-> v]

-----------------------------------------------------------------------------

\* The sector becomes the most recently used one of at most Entries sectors.
Touch(d, l) ==
  LET others == recent \ {<<d, l>>}
      oldest == CHOOSE s \in others : \A t \in others \ {s} : <<s, t>> \in before
      kept   == IF Cardinality(others) = Entries THEN others \ {oldest} ELSE others
  IN  /\ recent' = kept \cup {<<d, l>>}
      /\ before' = (before \cap (kept \X kept)) \cup (kept \X {<<d, l>>})

\* block_cache_init over zeroed memory.
Init ==
  /\ disk \in [Devices -> [Lbas -> Data]]
  /\ entries = [i \in Slots |-> [valid |-> FALSE, device |-> NoDevice, lba |-> 0,
                                 age |-> 0, data |-> Zero]]
  /\ clock = 0 /\ hits = 0 /\ misses = 0
  /\ suspect = {}
  /\ recent = {} /\ before = {}

\* Faulty variant: a hit does not count as a use.
ReadHitKeepsAge(d, l) ==
  /\ clock < MaxClock
  /\ Cached(d, l)
  /\ clock' = clock + 1
  /\ hits' = hits + 1
  /\ Touch(d, l)
  /\ UNCHANGED <<disk, entries, misses, suspect>>

\* block_cache_read finds the sector.
ReadHit(d, l) ==
  /\ clock < MaxClock
  /\ Cached(d, l)
  /\ entries' = [entries EXCEPT ![FindEntry(d, l)].age = clock + 1]
  /\ clock' = clock + 1
  /\ hits' = hits + 1
  /\ Touch(d, l)
  /\ UNCHANGED <<disk, misses, suspect>>

\* It does not, and the device reads it straight into the victim's buffer.
ReadMiss(d, l) ==
  /\ clock < MaxClock
  /\ ~Cached(d, l)
  /\ RequestInRange(d, l, 1)
  /\ entries' = [entries EXCEPT ![VictimEntry] = Filled(d, l, disk[d][l])]
  /\ clock' = clock + 1
  /\ misses' = misses + 1
  /\ suspect' = suspect \ {VictimEntry}
  /\ Touch(d, l)
  /\ UNCHANGED <<disk, hits>>

\* The device reports an error: the victim keeps its sector number and its
\* valid flag, whatever the driver has put into its buffer.
ReadFails(d, l) ==
  /\ ~Cached(d, l)
  /\ RequestInRange(d, l, 1)
  /\ \E v \in Data :
       /\ entries' = [entries EXCEPT ![VictimEntry].data = v]
       /\ suspect' = IF v # entries[VictimEntry].data
                     THEN suspect \cup {VictimEntry} ELSE suspect
  /\ UNCHANGED <<disk, clock, hits, misses, ghostVars>>

\* Faulty variant: the cached copy is left as it was.
CacheWriteAround(d, l, v) ==
  /\ clock < MaxClock
  /\ d \in Writable /\ RequestInRange(d, l, 1)
  /\ disk' = [disk EXCEPT ![d][l] = v]
  /\ clock' = clock + 1
  /\ UNCHANGED <<entries, hits, misses, suspect, ghostVars>>

\* block_cache_write: first the device, then the copy.
CacheWrite(d, l, v) ==
  /\ clock < MaxClock
  /\ d \in Writable /\ RequestInRange(d, l, 1)
  /\ disk' = [disk EXCEPT ![d][l] = v]
  /\ LET slot == IF Cached(d, l) THEN FindEntry(d, l) ELSE VictimEntry
     IN  /\ entries' = [entries EXCEPT ![slot] = Filled(d, l, v)]
         /\ suspect' = suspect \ {slot}
  /\ clock' = clock + 1
  /\ Touch(d, l)
  /\ UNCHANGED <<hits, misses>>

\* The device reports an error: the copy stays, whatever the driver has written.
WriteFails(d, l) ==
  /\ d \in Writable /\ RequestInRange(d, l, 1)
  /\ \E v \in Data :
       /\ disk' = [disk EXCEPT ![d][l] = v]
       /\ suspect' = IF v # disk[d][l]
                     THEN suspect \cup {i \in Slots : Holds(i, d, l)} ELSE suspect
  /\ UNCHANGED <<entries, clock, hits, misses, ghostVars>>

\* A request beyond the device, or a write to a device that has none, changes
\* nothing.
Refused(d, l) ==
  /\ \/ ~Cached(d, l) /\ ~RequestInRange(d, l, 1)
     \/ d \notin Writable
  /\ UNCHANGED vars

\* block_cache_invalidate, for one device or, with the null pointer, for all.
Invalidate(d) ==
  /\ LET gone == {i \in Slots : d = NoDevice \/ entries[i].device = d}
     IN  /\ entries' = [i \in Slots |-> [entries[i] EXCEPT !.valid = @ /\ i \notin gone]]
         /\ suspect' = suspect \ gone
  /\ recent' = {s \in recent : d # NoDevice /\ s[1] # d}
  /\ before' = before \cap (recent' \X recent')
  /\ UNCHANGED <<disk, clock, hits, misses>>

Next ==
  \/ \E d \in Devices, l \in Lbas :
       \/ ReadHit(d, l) \/ ReadMiss(d, l) \/ ReadFails(d, l)
       \/ \E v \in Data : CacheWrite(d, l, v)
       \/ WriteFails(d, l) \/ Refused(d, l)
  \/ \E d \in Devices \cup {NoDevice} : Invalidate(d)

Spec == Init /\ [][Next]_vars

-----------------------------------------------------------------------------

\* Types; a valid entry is a sector of its device.
TypeOK ==
  /\ disk \in [Devices -> [Lbas -> Data]]
  /\ entries \in [Slots -> Entry]
  /\ clock \in 0..MaxClock /\ hits \in Nat /\ misses \in Nat
  /\ suspect \subseteq Slots
  /\ \A i \in Slots : entries[i].valid =>
       /\ entries[i].device \in Devices /\ entries[i].lba \in Lbas
       /\ entries[i].lba < Sectors[entries[i].device]

\* No sector has two copies: find_entry would return the first one for ever
\* while a write kept only one of them up to date.
OneCopy ==
  \A i, j \in Slots :
    entries[i].valid /\ entries[j].valid
      /\ entries[i].device = entries[j].device /\ entries[i].lba = entries[j].lba
    => i = j

\* A cached copy is what the device holds, after any mix of reads, writes,
\* evictions, errors and invalidations, except where a driver that reported an
\* error has changed the buffer or the sector behind the cache's back.
Coherent ==
  \A i \in Slots : entries[i].valid /\ i \notin suspect =>
    entries[i].data = disk[entries[i].device][entries[i].lba]

Valid == {i \in Slots : entries[i].valid}
Sector(i) == <<entries[i].device, entries[i].lba>>

\* The cache holds the most recently used sectors, and the ages order them as
\* they were used: reuse of an entry never evicts a sector that was used later.
KeepsMostRecent ==
  /\ {Sector(i) : i \in Valid} = recent
  /\ \A i, j \in Valid :
       <<Sector(i), Sector(j)>> \in before <=> entries[i].age < entries[j].age
=============================================================================
