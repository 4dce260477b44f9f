---------------------------- MODULE BlockProofs ----------------------------
(***************************************************************************)
(* For any number of entries, any devices and any sectors: the cache never *)
(* holds two copies of a sector, and its copies are what the devices hold. *)
(* The two are proved together, since a write that finds a sector brings   *)
(* one copy up to date and relies on there being no other.  And the cached *)
(* sectors are the most recently used ones.  For any device and any table  *)
(* on it: partition_scan lists what the disk says.                         *)
(***************************************************************************)
EXTENDS BlockCache, Integers, Sequences, WellFoundedInduction, TLAPS

\* Every nonempty set of naturals has a least element.  The scans of the code
\* (find_entry, victim_entry) stop at such an element.
LEMMA NatMinimum ==
  ASSUME NEW T \in SUBSET Nat, T # {}
  PROVE  \E x \in T : \A y \in T : x <= y
<1> DEFINE R == OpToRel(<, Nat)
<1>1. IsWellFoundedOn(R, Nat) BY NatLessThanWellFounded, Zenon
<1>2. \A x, y \in Nat : x < y => <<x, y>> \in R BY DEF OpToRel
<1> HIDE DEF R
<1>3. PICK x \in T : \A y \in T : ~(<<y, x>> \in R) BY <1>1, WFMin, Zenon
<1>4. ASSUME NEW y \in T PROVE ~(y < x)
  <2>1. x \in Nat /\ y \in Nat OBVIOUS
  <2>2. ~(<<y, x>> \in R) BY <1>3
  <2> QED BY <1>2, <2>1, <2>2, Zenon
<1>5. \A y \in T : x <= y BY <1>4, SMT
<1> QED BY <1>5

\* The inductive invariant of the cache.
CacheInv == TypeOK /\ OneCopy /\ Coherent

\* A sector that is cached is found in an entry that holds it (find_entry).
LEMMA FoundHolds ==
  ASSUME TypeOK, NEW d, NEW l, Cached(d, l)
  PROVE  FindEntry(d, l) \in Slots /\ Holds(FindEntry(d, l), d, l)
<1> DEFINE S == {i \in Slots : Holds(i, d, l)}
<1>1. S \subseteq Nat /\ S # {}
  BY CacheAssumption DEF Cached, Slots
<1> HIDE DEF S
<1>2. PICK m \in S : \A j \in S : m <= j
  BY <1>1, NatMinimum
<1> USE DEF S
<1>3. \E i \in Slots : Holds(i, d, l) /\ \A j \in Slots : Holds(j, d, l) => i <= j
  BY <1>2
<1> QED
  BY <1>3 DEF FindEntry

\* There is always an entry to reuse (victim_entry).
LEMMA VictimExists ==
  ASSUME TypeOK
  PROVE  /\ VictimEntry \in Slots
         /\ Valid # Slots => VictimEntry \notin Valid
         /\ Valid = Slots =>
              \A j \in Slots : entries[VictimEntry].age <= entries[j].age
<1>1. CASE \E i \in Slots : ~entries[i].valid
  <2> DEFINE S == {i \in Slots : ~entries[i].valid}
  <2>1. S \subseteq Nat /\ S # {}
    BY <1>1, CacheAssumption DEF Slots
  <2> HIDE DEF S
  <2>2. PICK m \in S : \A j \in S : m <= j
    BY <2>1, NatMinimum
  <2> USE DEF S
  <2>3. \E i \in Slots : ~entries[i].valid /\ \A j \in Slots : ~entries[j].valid => i <= j
    BY <2>2
  <2> QED
    BY <1>1, <2>3, Zenon DEF VictimEntry, Valid
<1>2. CASE ~\E i \in Slots : ~entries[i].valid
  <2> DEFINE Ages == {entries[i].age : i \in Slots}
  <2>1. 1 \in Slots
    BY CacheAssumption DEF Slots
  <2>2. Ages \subseteq Nat /\ Ages # {}
    BY <2>1 DEF TypeOK, Entry
  <2> HIDE DEF Ages
  <2>3. PICK a \in Ages : \A b \in Ages : a <= b
    BY <2>2, NatMinimum
  <2> USE DEF Ages
  <2> DEFINE S == {i \in Slots : entries[i].age = a}
  <2>4. S \subseteq Nat /\ S # {}
    BY <2>3, CacheAssumption DEF Slots
  <2> HIDE DEF S
  <2>5. PICK m \in S : \A j \in S : m <= j
    BY <2>4, NatMinimum
  <2> USE DEF S
  <2>6. \A j \in Slots : entries[j].age \in Nat /\ a <= entries[j].age
    BY <2>3 DEF TypeOK, Entry
  <2>7. m \in Slots /\ entries[m].age = a
    BY <2>5
  <2>8. \A j \in Slots : \/ entries[m].age < entries[j].age
                         \/ entries[m].age = entries[j].age /\ m <= j
    BY <2>5, <2>6, <2>7
  <2>9. \E i \in Slots : \A j \in Slots : \/ entries[i].age < entries[j].age
                                          \/ entries[i].age = entries[j].age /\ i <= j
    BY <2>7, <2>8
  <2>10. /\ VictimEntry \in Slots
         /\ \A j \in Slots : \/ entries[VictimEntry].age < entries[j].age
                             \/ /\ entries[VictimEntry].age = entries[j].age
                                /\ VictimEntry <= j
    BY <1>2, <2>9 DEF VictimEntry
  <2> QED
    BY <1>2, <2>6, <2>10 DEF Valid
<1> QED
  BY <1>1, <1>2

\* Filling an entry with what the device now holds keeps the invariant, if no
\* other entry holds that sector and the device has changed nowhere else.
LEMMA FillKeepsInv ==
  ASSUME CacheInv, clock < MaxClock, clock' = clock + 1,
         NEW d \in Devices, NEW l \in Lbas, NEW v \in Data, NEW s \in Slots,
         RequestInRange(d, l, 1),
         \A i \in Slots : Holds(i, d, l) => i = s,
         disk' = [disk EXCEPT ![d][l] = v],
         entries' = [entries EXCEPT ![s] = Filled(d, l, v)],
         suspect' = suspect \ {s},
         hits' \in Nat, misses' \in Nat
  PROVE  CacheInv'
<1>1. /\ Filled(d, l, v) \in Entry /\ Filled(d, l, v).valid
      /\ Filled(d, l, v).device = d /\ Filled(d, l, v).lba = l
      /\ Filled(d, l, v).data = v
  BY CacheAssumption DEF Filled, Entry, CacheInv, TypeOK
<1>2. entries'[s] = Filled(d, l, v) /\ \A i \in Slots \ {s} : entries'[i] = entries[i]
  BY DEF CacheInv, TypeOK
<1>3. l < Sectors[d]
  BY DEF RequestInRange
<1>4. /\ disk' \in [Devices -> [Lbas -> Data]] /\ disk'[d][l] = v
      /\ \A e \in Devices, k \in Lbas : <<e, k>> # <<d, l>> => disk'[e][k] = disk[e][k]
  BY DEF CacheInv, TypeOK
<1>5. entries' \in [Slots -> Entry]
  BY <1>1 DEF CacheInv, TypeOK
<1>6. clock' \in 0..MaxClock /\ suspect' \subseteq Slots
  BY CacheAssumption DEF CacheInv, TypeOK
<1>7. \A i \in Slots : entries'[i].valid =>
        /\ entries'[i].device \in Devices /\ entries'[i].lba \in Lbas
        /\ entries'[i].lba < Sectors[entries'[i].device]
  BY <1>1, <1>2, <1>3 DEF CacheInv, TypeOK
<1>8. TypeOK'
  BY <1>4, <1>5, <1>6, <1>7 DEF TypeOK, Slots, Entry
<1>9. \A i \in Slots \ {s} : ~(entries[i].valid /\ entries[i].device = d /\ entries[i].lba = l)
  BY DEF Holds
<1>10. OneCopy'
  BY <1>1, <1>2, <1>9 DEF CacheInv, OneCopy, Slots
<1>11. Coherent'
  <2> SUFFICES ASSUME NEW i \in Slots, entries'[i].valid, i \notin suspect'
               PROVE  entries'[i].data = disk'[entries'[i].device][entries'[i].lba]
    BY Zenon DEF Coherent, Slots
  <2>1. CASE i = s
    BY <1>1, <1>2, <1>4, <2>1
  <2>2. CASE i # s
    <3>1. entries'[i] = entries[i] /\ i \notin suspect
      BY <1>2, <2>2
    <3>2. entries[i].data = disk[entries[i].device][entries[i].lba]
      BY <3>1 DEF CacheInv, Coherent
    <3>3. <<entries[i].device, entries[i].lba>> # <<d, l>>
      BY <1>9, <2>2, <3>1
    <3>4. entries[i].device \in Devices /\ entries[i].lba \in Lbas
      BY <3>1 DEF CacheInv, TypeOK
    <3> QED
      BY <1>4, <3>1, <3>2, <3>3, <3>4
  <2> QED
    BY <2>1, <2>2, Zenon
<1> QED
  BY <1>8, <1>10, <1>11 DEF CacheInv

\* The cache starts empty (block_cache_init).
LEMMA CacheInit == Init => CacheInv
BY CacheAssumption DEF Init, CacheInv, TypeOK, OneCopy, Coherent, Entry

\* Every operation of the cache keeps the invariant.
LEMMA CacheStep == CacheInv /\ [Next]_vars => CacheInv'
<1> SUFFICES ASSUME CacheInv, [Next]_vars PROVE CacheInv'
  OBVIOUS
<1>0. TypeOK /\ OneCopy /\ Coherent
  BY DEF CacheInv
<1>1. ASSUME NEW d \in Devices, NEW l \in Lbas, ReadHit(d, l) PROVE CacheInv'
  <2> DEFINE s == FindEntry(d, l)
  <2>1. s \in Slots
    BY <1>0, <1>1, FoundHolds DEF ReadHit
  <2> HIDE DEF s
  <2>2. /\ entries' = [entries EXCEPT ![s].age = clock + 1]
        /\ clock' = clock + 1 /\ clock < MaxClock /\ hits' = hits + 1
        /\ UNCHANGED <<disk, misses, suspect>>
    BY <1>1 DEF ReadHit, s
  <2>3. /\ entries' \in [Slots -> Entry]
        /\ \A i \in Slots : /\ entries'[i].valid = entries[i].valid
                            /\ entries'[i].device = entries[i].device
                            /\ entries'[i].lba = entries[i].lba
                            /\ entries'[i].data = entries[i].data
    BY <1>0, <2>1, <2>2 DEF TypeOK, Entry
  <2>4. clock' \in 0..MaxClock /\ hits' \in Nat
    BY <1>0, <2>2, CacheAssumption DEF TypeOK
  <2>5. TypeOK'
    BY <1>0, <2>2, <2>3, <2>4, Zenon DEF TypeOK, Slots, Entry
  <2>6. OneCopy'
    BY <1>0, <2>3 DEF OneCopy, Slots
  <2>7. Coherent'
    BY <1>0, <2>2, <2>3 DEF Coherent, Slots
  <2> QED
    BY <2>5, <2>6, <2>7 DEF CacheInv
<1>2. ASSUME NEW d \in Devices, NEW l \in Lbas, ReadMiss(d, l) PROVE CacheInv'
  <2>1. VictimEntry \in Slots
    BY <1>0, VictimExists
  <2>2. disk[d][l] \in Data /\ disk' = [disk EXCEPT ![d][l] = disk[d][l]]
    BY <1>0, <1>2 DEF TypeOK, ReadMiss
  <2>3. \A i \in Slots : Holds(i, d, l) => i = VictimEntry
    BY <1>2 DEF ReadMiss, Cached
  <2>4. hits' \in Nat /\ misses' \in Nat
    BY <1>0, <1>2 DEF TypeOK, ReadMiss
  <2> QED
    BY <1>2, <2>1, <2>2, <2>3, <2>4, FillKeepsInv, Zenon DEF ReadMiss
<1>3. ASSUME NEW d \in Devices, NEW l \in Lbas, ReadFails(d, l) PROVE CacheInv'
  <2>1. VictimEntry \in Slots
    BY <1>0, VictimExists
  <2>2. PICK v \in Data :
          /\ entries' = [entries EXCEPT ![VictimEntry].data = v]
          /\ suspect' = IF v # entries[VictimEntry].data
                        THEN suspect \cup {VictimEntry} ELSE suspect
    BY <1>3, Zenon DEF ReadFails
  <2>3. /\ entries' \in [Slots -> Entry]
        /\ \A i \in Slots : /\ entries'[i].valid = entries[i].valid
                            /\ entries'[i].device = entries[i].device
                            /\ entries'[i].lba = entries[i].lba
        /\ \A i \in Slots : i \notin suspect' =>
             i \notin suspect /\ entries'[i].data = entries[i].data
    BY <1>0, <2>1, <2>2, Zenon DEF TypeOK, Entry
  <2>4. suspect' \subseteq Slots /\ UNCHANGED <<disk, clock, hits, misses>>
    BY <1>0, <1>3, <2>1, <2>2 DEF TypeOK, ReadFails
  <2>5. TypeOK'
    BY <1>0, <2>3, <2>4 DEF TypeOK, Slots, Entry
  <2>6. OneCopy'
    BY <1>0, <2>3 DEF OneCopy, Slots
  <2>7. Coherent'
    BY <1>0, <2>3, <2>4 DEF Coherent, Slots
  <2> QED
    BY <2>5, <2>6, <2>7 DEF CacheInv
<1>4. ASSUME NEW d \in Devices, NEW l \in Lbas, NEW v \in Data, CacheWrite(d, l, v)
      PROVE  CacheInv'
  <2> DEFINE s == IF Cached(d, l) THEN FindEntry(d, l) ELSE VictimEntry
  <2>1. s \in Slots
    BY <1>0, FoundHolds, VictimExists
  <2>2. \A i \in Slots : Holds(i, d, l) => i = s
    <3>1. CASE Cached(d, l)
      BY <1>0, <3>1, FoundHolds DEF OneCopy, Holds
    <3>2. CASE ~Cached(d, l)
      BY <3>2 DEF Cached
    <3> QED
      BY <3>1, <3>2
  <2>3. hits' \in Nat /\ misses' \in Nat
    BY <1>0, <1>4 DEF TypeOK, CacheWrite
  <2>4. /\ clock < MaxClock /\ clock' = clock + 1 /\ RequestInRange(d, l, 1)
        /\ disk' = [disk EXCEPT ![d][l] = v]
        /\ entries' = [entries EXCEPT ![s] = Filled(d, l, v)]
        /\ suspect' = suspect \ {s}
    BY <1>4 DEF CacheWrite
  <2> HIDE DEF s
  <2> QED
    BY <2>1, <2>2, <2>3, <2>4, FillKeepsInv, Zenon
<1>5. ASSUME NEW d \in Devices, NEW l \in Lbas, WriteFails(d, l) PROVE CacheInv'
  <2>1. PICK v \in Data :
          /\ disk' = [disk EXCEPT ![d][l] = v]
          /\ suspect' = IF v # disk[d][l]
                        THEN suspect \cup {i \in Slots : Holds(i, d, l)} ELSE suspect
    BY <1>5, Zenon DEF WriteFails
  <2>2. /\ disk' \in [Devices -> [Lbas -> Data]] /\ disk'[d][l] = v
        /\ \A e \in Devices, k \in Lbas : <<e, k>> # <<d, l>> => disk'[e][k] = disk[e][k]
    BY <1>0, <2>1 DEF TypeOK
  <2>3. suspect' \subseteq Slots /\ UNCHANGED <<entries, clock, hits, misses>>
    BY <1>0, <1>5, <2>1 DEF TypeOK, WriteFails
  <2>4. TypeOK'
    BY <1>0, <2>2, <2>3 DEF TypeOK, Slots, Entry
  <2>5. OneCopy'
    BY <1>0, <2>3 DEF OneCopy, Slots
  <2>6. Coherent'
    <3> SUFFICES ASSUME NEW i \in Slots, entries[i].valid, i \notin suspect'
                 PROVE  entries[i].data = disk'[entries[i].device][entries[i].lba]
      BY <2>3 DEF Coherent, Slots
    <3>1. i \notin suspect /\ (Holds(i, d, l) => v = disk[d][l])
      BY <2>1
    <3>2. entries[i].data = disk[entries[i].device][entries[i].lba]
      BY <1>0, <3>1 DEF Coherent
    <3>3. entries[i].device \in Devices /\ entries[i].lba \in Lbas
      BY <1>0 DEF TypeOK
    <3> QED
      BY <2>2, <3>1, <3>2, <3>3 DEF Holds
  <2> QED
    BY <2>4, <2>5, <2>6 DEF CacheInv
<1>6. ASSUME NEW d \in Devices \cup {NoDevice}, Invalidate(d) PROVE CacheInv'
  <2> DEFINE gone == {i \in Slots : d = NoDevice \/ entries[i].device = d}
  <2>1. /\ entries' = [i \in Slots |-> [entries[i] EXCEPT !.valid = @ /\ i \notin gone]]
        /\ suspect' = suspect \ gone
        /\ UNCHANGED <<disk, clock, hits, misses>>
    BY <1>6 DEF Invalidate
  <2> HIDE DEF gone
  <2>2. \A i \in Slots : /\ entries'[i] \in Entry
                         /\ entries'[i].valid => entries[i].valid /\ i \notin gone
                         /\ entries'[i].device = entries[i].device
                         /\ entries'[i].lba = entries[i].lba
                         /\ entries'[i].data = entries[i].data
    BY <1>0, <2>1, Zenon DEF TypeOK, Entry
  <2>3. entries' \in [Slots -> Entry] /\ suspect' \subseteq Slots
    BY <1>0, <2>1, <2>2, Zenon DEF TypeOK
  <2>4. TypeOK'
    BY <1>0, <2>1, <2>2, <2>3 DEF TypeOK, Slots, Entry
  <2>5. OneCopy'
    BY <1>0, <2>2 DEF OneCopy, Slots
  <2>6. Coherent'
    BY <1>0, <2>1, <2>2 DEF Coherent, Slots
  <2> QED
    BY <2>4, <2>5, <2>6 DEF CacheInv
<1>7. ASSUME UNCHANGED vars PROVE CacheInv'
  BY <1>0, <1>7, Zenon DEF vars, CacheInv, TypeOK, OneCopy, Coherent, Slots, Entry
<1> QED
  BY <1>1, <1>2, <1>3, <1>4, <1>5, <1>6, <1>7 DEF Next, Refused

\* The cache's invariant holds always.
THEOREM CacheInvariant == Spec => []CacheInv
BY CacheInit, CacheStep, PTL DEF Spec

\* The cache's state has its types and a valid entry is a sector of its device
\* (request_in_range).
THEOREM CacheTypeCorrect == Spec => []TypeOK
<1>1. CacheInv => TypeOK
  BY DEF CacheInv
<1> QED
  BY <1>1, CacheInvariant, PTL

\* No sector is cached twice (find_entry before victim_entry).
THEOREM SectorsCachedOnce == Spec => []OneCopy
<1>1. CacheInv => OneCopy
  BY DEF CacheInv
<1> QED
  BY <1>1, CacheInvariant, PTL

\* What the cache answers is what the device holds, for any number of entries,
\* devices and sectors (block_cache_read and block_cache_write).
THEOREM CacheIsCoherent == Spec => []Coherent
<1>1. CacheInv => Coherent
  BY DEF CacheInv
<1> QED
  BY <1>1, CacheInvariant, PTL

-----------------------------------------------------------------------------
\* The ages tell the cached sectors apart, and the clock is ahead of them.
RecentInv ==
  /\ KeepsMostRecent
  /\ \A i \in Valid : entries[i].age <= clock
  /\ \A i, j \in Valid : entries[i].age = entries[j].age => i = j

INSTANCE FiniteSetTheorems

\* There are as many sectors in recent as valid entries.
LEMMA HowManyRecent ==
  ASSUME CacheInv, KeepsMostRecent
  PROVE  /\ IsFiniteSet(recent) /\ Cardinality(recent) \in Nat
         /\ Cardinality(recent) <= Entries
         /\ Cardinality(recent) = Entries <=> Valid = Slots
<1> DEFINE f == [i \in Valid |-> Sector(i)]
<1>1. f \in Bijection(Valid, recent)
  <2>1. f \in [Valid -> recent]
    BY DEF KeepsMostRecent
  <2>2. \A i, j \in Valid : f[i] = f[j] => i = j
    BY DEF CacheInv, OneCopy, Valid, Sector
  <2>3. \A s \in recent : \E i \in Valid : f[i] = s
    BY DEF KeepsMostRecent
  <2> HIDE DEF f
  <2> QED
    BY <2>1, <2>2, <2>3 DEF Bijection, Injection, IsInjective, Surjection
<1>2. IsFiniteSet(Slots) /\ Cardinality(Slots) = Entries
  <2>1. 1 \in Int /\ Entries \in Int /\ ~(1 > Entries) /\ Entries - 1 + 1 = Entries
    BY CacheAssumption
  <2> QED
    BY <2>1, FS_Interval DEF Slots
<1>3. /\ IsFiniteSet(Valid) /\ Cardinality(Valid) <= Entries
      /\ Entries = Cardinality(Valid) => Slots = Valid
  <2>1. Valid \in SUBSET Slots
    BY DEF Valid
  <2> QED
    BY <1>2, <2>1, FS_Subset
<1>4. IsFiniteSet(recent) /\ Cardinality(recent) = Cardinality(Valid)
  <2>1. ExistsBijection(Valid, recent)
    BY <1>1 DEF ExistsBijection
  <2> QED
    BY <1>3, <2>1, FS_Bijection
<1>5. Cardinality(recent) \in Nat
  BY <1>4, FS_CardinalityType
<1> QED
  BY <1>2, <1>3, <1>4, <1>5

\* In a full cache the sector used longest ago is the one in the entry that
\* victim_entry picks.
LEMMA OldestIsVictim ==
  ASSUME CacheInv, RecentInv, Valid = Slots
  PROVE  (CHOOSE s \in recent : \A t \in recent \ {s} : <<s, t>> \in before)
           = Sector(VictimEntry)
<1> DEFINE v == VictimEntry
           Oldest(s) == \A t \in recent \ {s} : <<s, t>> \in before
<1>1. v \in Valid /\ \A j \in Valid : entries[v].age <= entries[j].age
  BY VictimExists DEF CacheInv
<1>2. \A i \in Valid : entries[i].age \in Nat
  BY DEF Valid, CacheInv, TypeOK, Entry
<1> HIDE DEF v
<1>3. Sector(v) \in recent
  BY <1>1 DEF RecentInv, KeepsMostRecent
<1>4. Oldest(Sector(v))
  <2> SUFFICES ASSUME NEW t \in recent \ {Sector(v)} PROVE <<Sector(v), t>> \in before
    OBVIOUS
  <2>1. PICK j \in Valid : t = Sector(j)
    BY DEF RecentInv, KeepsMostRecent
  <2>2. entries[v].age < entries[j].age
    BY <1>1, <1>2, <2>1 DEF RecentInv
  <2> QED
    BY <1>1, <2>1, <2>2 DEF RecentInv, KeepsMostRecent
<1>5. ASSUME NEW s \in recent, Oldest(s) PROVE s = Sector(v)
  <2> SUFFICES ASSUME s # Sector(v) PROVE FALSE
    OBVIOUS
  <2>1. PICK i \in Valid : s = Sector(i)
    BY DEF RecentInv, KeepsMostRecent
  <2>2. <<s, Sector(v)>> \in before
    BY <1>3, <1>5
  <2>3. entries[i].age < entries[v].age
    BY <1>1, <2>1, <2>2 DEF RecentInv, KeepsMostRecent
  <2> QED
    BY <1>1, <1>2, <2>1, <2>3
<1> HIDE DEF Oldest
<1>6. (CHOOSE s \in recent : Oldest(s)) = Sector(v)
  BY <1>3, <1>4, <1>5
<1> QED
  BY <1>6 DEF Oldest, v

\* Entry k is the one that a use of a sector finds, or else reuses.
Serves(k, d, l) == k = IF Cached(d, l) THEN FindEntry(d, l) ELSE VictimEntry

KeptBy(k) == {Sector(i) : i \in Valid \ {k}}

\* What a use leaves in recent is what the other entries hold.
LEMMA TouchKeepsOthers ==
  ASSUME CacheInv, RecentInv, NEW d, NEW l, NEW k, Serves(k, d, l), Touch(d, l)
  PROVE  /\ recent' = KeptBy(k) \cup {<<d, l>>}
         /\ before' = (before \cap (KeptBy(k) \X KeptBy(k))) \cup (KeptBy(k) \X {<<d, l>>})
<1> DEFINE others == recent \ {<<d, l>>}
           oldest == CHOOSE s \in others : \A t \in others \ {s} : <<s, t>> \in before
           kept   == IF Cardinality(others) = Entries THEN others \ {oldest} ELSE others
<1>0. /\ KeepsMostRecent
      /\ recent = {Sector(i) : i \in Valid}
      /\ \A i, j \in Valid : Sector(i) = Sector(j) => i = j
  BY DEF RecentInv, KeepsMostRecent, CacheInv, OneCopy, Valid, Sector
<1>1. /\ recent' = kept \cup {<<d, l>>}
      /\ before' = (before \cap (kept \X kept)) \cup (kept \X {<<d, l>>})
  BY DEF Touch
<1>2. CASE Cached(d, l)
  <2>1. k \in Valid /\ Sector(k) = <<d, l>>
    BY <1>2, FoundHolds DEF Serves, CacheInv, Holds, Valid, Sector
  <2>2. <<d, l>> \in recent
    BY <1>0, <2>1
  <2>3. Cardinality(others) # Entries
    <3>1. Cardinality(others) = Cardinality(recent) - 1
      BY <1>0, <2>2, HowManyRecent, FS_RemoveElement, Zenon
    <3> HIDE DEF others
    <3> QED
      BY <1>0, <3>1, HowManyRecent, CacheAssumption
  <2>4. kept = others
    BY <2>3
  <2>5. others = KeptBy(k)
    BY <1>0, <2>1 DEF KeptBy
  <2> HIDE DEF kept, others
  <2> QED
    BY <1>1, <2>4, <2>5
<1>3. CASE ~Cached(d, l)
  <2>1. k = VictimEntry
    BY <1>3 DEF Serves
  <2>2. <<d, l>> \notin recent
    BY <1>0, <1>3 DEF Cached, Holds, Valid, Sector
  <2>3. others = recent
    BY <2>2
  <2>4. CASE Valid # Slots
    <3>1. Cardinality(recent) # Entries
      BY <1>0, <2>4, HowManyRecent
    <3>2. kept = recent
      BY <2>3, <3>1
    <3>3. k \notin Valid
      BY <2>1, <2>4, VictimExists DEF CacheInv
    <3>4. recent = KeptBy(k)
      BY <1>0, <3>3 DEF KeptBy
    <3> HIDE DEF kept
    <3> QED
      BY <1>1, <3>2, <3>4
  <2>5. CASE Valid = Slots
    <3>1. Cardinality(recent) = Entries
      BY <1>0, <2>5, HowManyRecent
    <3>2. oldest = Sector(k)
      BY <2>1, <2>3, <2>5, OldestIsVictim
    <3>3. kept = recent \ {Sector(k)}
      <4> HIDE DEF oldest
      <4> QED
        BY <2>3, <3>1, <3>2
    <3>4. k \in Valid
      BY <2>1, <2>5, VictimExists DEF CacheInv
    <3>5. recent \ {Sector(k)} = KeptBy(k)
      BY <1>0, <3>4 DEF KeptBy
    <3> HIDE DEF kept
    <3> QED
      BY <1>1, <3>3, <3>5
  <2> QED
    BY <2>4, <2>5
<1> QED
  BY <1>2, <1>3

\* A use of a sector gives its entry the youngest age and leaves the others alone.
Used(k, d, l) ==
  /\ k \in Slots /\ Serves(k, d, l) /\ Touch(d, l)
  /\ clock' = clock + 1
  /\ \A i \in Slots \ {k} : entries'[i] = entries[i]
  /\ entries'[k].valid /\ entries'[k].device = d /\ entries'[k].lba = l
  /\ entries'[k].age = clock + 1

LEMMA UseKeepsRecent ==
  ASSUME CacheInv, RecentInv, NEW d, NEW l, NEW k, Used(k, d, l)
  PROVE  RecentInv'
<1> DEFINE s == <<d, l>>
           kept == KeptBy(k)
<1>1. /\ recent' = kept \cup {s}
      /\ before' = (before \cap (kept \X kept)) \cup (kept \X {s})
  BY TouchKeepsOthers DEF Used
<1>2. /\ Valid' = (Valid \ {k}) \cup {k}
      /\ Sector(k)' = s /\ entries'[k].age = clock + 1
      /\ \A i \in Valid \ {k} : Sector(i)' = Sector(i) /\ entries'[i].age = entries[i].age
  BY DEF Used, Valid, Slots, Sector
<1>3. s \notin kept
  <2> SUFFICES ASSUME NEW i \in Valid \ {k}, Sector(i) = s PROVE FALSE
    BY DEF KeptBy
  <2>1. Cached(d, l) /\ Holds(i, d, l)
    BY DEF Cached, Holds, Valid, Sector
  <2>2. k = FindEntry(d, l)
    BY <2>1 DEF Used, Serves
  <2>3. Holds(k, d, l) /\ k \in Slots
    BY <2>1, <2>2, FoundHolds DEF CacheInv
  <2> QED
    BY <2>1, <2>3 DEF CacheInv, OneCopy, Holds, Valid
<1>4. \A i \in Valid : entries[i].age \in Nat /\ entries[i].age <= clock /\ clock \in Nat
  BY DEF Valid, CacheInv, TypeOK, Entry, RecentInv
<1>5. clock' = clock + 1 /\ clock \in Nat
  BY DEF Used, CacheInv, TypeOK
<1>6. \A i \in Valid \ {k} : Sector(i) \in kept /\ Sector(i) # s
  BY <1>3 DEF KeptBy
<1> HIDE DEF s
<1>7. (recent = {Sector(i) : i \in Valid})'
  <2>1. \A i \in Valid' : Sector(i)' \in recent'
    BY <1>1, <1>2, <1>6
  <2>2. \A t \in recent' : \E i \in Valid' : t = Sector(i)'
    BY <1>1, <1>2 DEF KeptBy
  <2> QED
    BY <2>1, <2>2
<1> HIDE DEF kept
<1>8. ASSUME NEW i \in Valid', NEW j \in Valid'
      PROVE  <<Sector(i)', Sector(j)'>> \in before' <=> entries'[i].age < entries'[j].age
  <2>1. CASE i # k /\ j # k
    <3>1. i \in Valid \ {k} /\ j \in Valid \ {k}
      BY <1>2, <2>1
    <3>2. <<Sector(i), Sector(j)>> \in before' <=> <<Sector(i), Sector(j)>> \in before
      BY <1>1, <1>6, <3>1
    <3>3. <<Sector(i), Sector(j)>> \in before <=> entries[i].age < entries[j].age
      BY <3>1 DEF RecentInv, KeepsMostRecent
    <3> QED
      BY <1>2, <3>1, <3>2, <3>3
  <2>2. CASE i # k /\ j = k
    <3>1. i \in Valid \ {k}
      BY <1>2, <2>2
    <3>2. <<Sector(i), s>> \in before'
      BY <1>1, <1>6, <3>1
    <3>3. entries'[i].age < entries'[k].age
      BY <1>2, <1>4, <1>5, <3>1
    <3> QED
      BY <1>2, <2>2, <3>1, <3>2, <3>3
  <2>3. CASE i = k
    <3>1. \A t : <<s, t>> \notin before'
      BY <1>1, <1>3
    <3>2. ~(entries'[k].age < entries'[j].age)
      BY <1>2, <1>4, <1>5
    <3> QED
      BY <1>2, <2>3, <3>1, <3>2
  <2> QED
    BY <2>1, <2>2, <2>3
<1>9. KeepsMostRecent'
  BY <1>7, <1>8 DEF KeepsMostRecent
<1>10. (\A i \in Valid : entries[i].age <= clock)'
  BY <1>2, <1>4, <1>5
<1>11. (\A i, j \in Valid : entries[i].age = entries[j].age => i = j)'
  <2> SUFFICES ASSUME NEW i \in Valid', NEW j \in Valid', entries'[i].age = entries'[j].age
               PROVE  i = j
    OBVIOUS
  <2>1. CASE i # k /\ j # k
    BY <1>2, <2>1 DEF RecentInv
  <2>2. CASE i = k \/ j = k
    BY <1>2, <1>4, <1>5, <2>2
  <2> QED
    BY <2>1, <2>2
<1> QED
  BY <1>9, <1>10, <1>11 DEF RecentInv

LEMMA RecentInit == Init => RecentInv
BY DEF Init, RecentInv, KeepsMostRecent, Valid

\* Every operation of the cache keeps the order of the ages.
LEMMA RecentStep == CacheInv /\ RecentInv /\ [Next]_vars => RecentInv'
<1> SUFFICES ASSUME CacheInv, RecentInv, [Next]_vars PROVE RecentInv'
  OBVIOUS
<1>0. TypeOK
  BY DEF CacheInv
<1>1. ASSUME NEW d \in Devices, NEW l \in Lbas, ReadHit(d, l) PROVE RecentInv'
  <2> DEFINE k == FindEntry(d, l)
  <2>1. k \in Slots /\ Holds(k, d, l) /\ Serves(k, d, l)
    BY <1>0, <1>1, FoundHolds DEF ReadHit, Serves
  <2> HIDE DEF k
  <2>2. /\ entries' = [entries EXCEPT ![k].age = clock + 1] /\ clock' = clock + 1
        /\ Touch(d, l)
    BY <1>1 DEF ReadHit, k
  <2>3. Used(k, d, l)
    BY <1>0, <2>1, <2>2 DEF Used, TypeOK, Entry, Holds
  <2> QED
    BY <2>3, UseKeepsRecent
<1>2. ASSUME NEW d \in Devices, NEW l \in Lbas, NEW v, NEW k \in Slots, Serves(k, d, l),
             Touch(d, l), clock' = clock + 1,
             entries' = [entries EXCEPT ![k] = Filled(d, l, v)]
      PROVE  RecentInv'
  <2>1. Used(k, d, l)
    BY <1>0, <1>2 DEF Used, TypeOK, Filled
  <2> QED
    BY <2>1, UseKeepsRecent
<1>3. ASSUME NEW d \in Devices, NEW l \in Lbas, ReadMiss(d, l) PROVE RecentInv'
  <2>1. VictimEntry \in Slots /\ Serves(VictimEntry, d, l)
    BY <1>0, <1>3, VictimExists DEF Serves, ReadMiss
  <2> QED
    BY <1>2, <1>3, <2>1, Zenon DEF ReadMiss
<1>4. ASSUME NEW d \in Devices, NEW l \in Lbas, NEW v \in Data, CacheWrite(d, l, v)
      PROVE  RecentInv'
  <2> DEFINE k == IF Cached(d, l) THEN FindEntry(d, l) ELSE VictimEntry
  <2>1. k \in Slots /\ Serves(k, d, l)
    BY <1>0, FoundHolds, VictimExists DEF Serves
  <2>2. entries' = [entries EXCEPT ![k] = Filled(d, l, v)] /\ clock' = clock + 1 /\ Touch(d, l)
    BY <1>4 DEF CacheWrite
  <2> HIDE DEF k
  <2> QED
    BY <1>2, <2>1, <2>2, Zenon
<1>5. ASSUME /\ UNCHANGED <<clock, recent, before>>
             /\ \A i \in Slots : /\ entries'[i].valid = entries[i].valid
                                 /\ entries'[i].device = entries[i].device
                                 /\ entries'[i].lba = entries[i].lba
                                 /\ entries'[i].age = entries[i].age
      PROVE  RecentInv'
  <2>1. /\ Valid' = Valid
        /\ \A i \in Valid : Sector(i)' = Sector(i) /\ entries'[i].age = entries[i].age
    BY <1>5 DEF Valid, Slots, Sector
  <2>2. {Sector(i) : i \in Valid}' = {Sector(i) : i \in Valid}
    BY <2>1
  <2> QED
    BY <1>5, <2>1, <2>2 DEF RecentInv, KeepsMostRecent
<1>6. ASSUME NEW d \in Devices, NEW l \in Lbas, ReadFails(d, l) PROVE RecentInv'
  <2>1. VictimEntry \in Slots
    BY <1>0, VictimExists
  <2>2. PICK v \in Data : entries' = [entries EXCEPT ![VictimEntry].data = v]
    BY <1>6, Zenon DEF ReadFails
  <2>3. \A i \in Slots : /\ entries'[i].valid = entries[i].valid
                         /\ entries'[i].device = entries[i].device
                         /\ entries'[i].lba = entries[i].lba
                         /\ entries'[i].age = entries[i].age
    BY <1>0, <2>1, <2>2 DEF TypeOK, Entry
  <2> QED
    BY <1>5, <1>6, <2>3 DEF ReadFails, ghostVars
<1>7. ASSUME NEW d \in Devices, NEW l \in Lbas, WriteFails(d, l) PROVE RecentInv'
  BY <1>5, <1>7 DEF WriteFails, ghostVars
<1>8. ASSUME NEW d \in Devices \cup {NoDevice}, Invalidate(d) PROVE RecentInv'
  <2> DEFINE gone == {i \in Slots : d = NoDevice \/ entries[i].device = d}
             left == {s \in recent : d # NoDevice /\ s[1] # d}
  <2>1. /\ entries' = [i \in Slots |-> [entries[i] EXCEPT !.valid = @ /\ i \notin gone]]
        /\ recent' = left /\ before' = before \cap (left \X left) /\ clock' = clock
    BY <1>8 DEF Invalidate
  <2>2. /\ Valid' = Valid \ gone
        /\ \A i \in Slots : Sector(i)' = Sector(i) /\ entries'[i].age = entries[i].age
    <3> HIDE DEF gone
    <3> QED
      BY <1>0, <2>1, Zenon DEF Valid, Slots, Sector, TypeOK, Entry
  <2>3. \A i \in Valid : Sector(i) \in left <=> i \notin gone
    BY DEF RecentInv, KeepsMostRecent, Sector, Valid
  <2>4. left = {Sector(i) : i \in Valid \ gone}
    BY <2>3 DEF RecentInv, KeepsMostRecent
  <2> HIDE DEF gone, left
  <2>5. (recent = {Sector(i) : i \in Valid})'
    BY <2>1, <2>2, <2>4, Zenon DEF Valid
  <2>6. (\A i, j \in Valid :
           <<Sector(i), Sector(j)>> \in before <=> entries[i].age < entries[j].age)'
    <3> SUFFICES ASSUME NEW i \in Valid \ gone, NEW j \in Valid \ gone
                 PROVE  <<Sector(i), Sector(j)>> \in before' <=> entries[i].age < entries[j].age
      BY <2>2 DEF Valid
    <3>1. Sector(i) \in left /\ Sector(j) \in left
      BY <2>3
    <3> QED
      BY <2>1, <3>1 DEF RecentInv, KeepsMostRecent
  <2>7. KeepsMostRecent'
    BY <2>5, <2>6 DEF KeepsMostRecent
  <2>8. \A i \in Valid' : i \in Valid /\ entries'[i].age = entries[i].age
    BY <2>2 DEF Valid
  <2>9. /\ \A i \in Valid' : entries'[i].age <= clock'
        /\ \A i, j \in Valid' : entries'[i].age = entries'[j].age => i = j
    BY ONLY <2>1, <2>8, RecentInv DEF RecentInv
  <2> QED
    BY ONLY <2>7, <2>9 DEF RecentInv
<1>9. ASSUME UNCHANGED vars PROVE RecentInv'
  BY <1>5, <1>9 DEF vars, ghostVars
<1> QED
  BY <1>1, <1>3, <1>4, <1>6, <1>7, <1>8, <1>9 DEF Next, Refused

\* The cached sectors are the most recently used ones and the ages are in the
\* order of use, for any number of entries and devices, whatever was read,
\* written and invalidated and whatever failed (victim_entry).
THEOREM LeastRecentGoesFirst == Spec => []KeepsMostRecent
<1>1. RecentInv => KeepsMostRecent
  BY DEF RecentInv
<1> QED
  BY <1>1, CacheInvariant, RecentInit, RecentStep, PTL DEF Spec

-----------------------------------------------------------------------------
(* The scan of the partition table. *)
CONSTANTS SectorCounts, SectorSize, PARTITION_MAX, GPT_ENTRY_MAX_COUNT,
          GPT_ENTRY_MAX_SIZE, TableLbas, EntryCounts, EntrySizes

VARIABLES at, sectors, slots, header, found, next, table, status

Partition == INSTANCE Partition WITH Lbas <- TableLbas

Partitions == [first_lba : Nat, sector_count : Nat]
Tables == [scheme : {"none", "mbr", "gpt"}, entries : Seq(Partitions)]

\* The sectors that an entry of the disk describes, by its scheme.
Span(scheme, e) == IF scheme = "gpt" THEN e[1] .. e[2] ELSE e[1] .. e[1] + e[2] - 1

\* An entry of the table is what the disk's entry e describes, on a device of s
\* sectors.
Lists(p, scheme, e, s) ==
  /\ p.first_lba .. p.first_lba + p.sector_count - 1 = Span(scheme, e)
  /\ Span(scheme, e) # {} /\ Span(scheme, e) \subseteq 0 .. s - 1

AllListed(ps, scheme, es, s) ==
  \A i \in DOMAIN ps : Lists(ps[i], scheme, es[i], s)

\* What the loops rely on: until one of them gives up, there is one entry of
\* the table for each used entry of the disk, and in an MBR at most one for
\* each turn of the loop; and the status is not yet known.
ScanInv ==
  /\ sectors \in Nat /\ next \in Nat \ {0}
  /\ table \in Tables
  /\ found \in Seq(Nat \X Nat)
  /\ at # "done" => Len(found) = Len(table.entries) /\ status = "running"
  /\ at \in {"scan", "header"} => found = <<>>
  /\ at = "mbr" => table.scheme = "mbr" /\ Len(table.entries) < next
  /\ at = "gpt" => /\ table.scheme = "gpt"
                   /\ header.first_usable \in Nat /\ header.last_usable \in Nat
  /\ Partition!TableIsTheDisks

\* The property says just that.
LEMMA ListedMeans ==
  /\ Partition!ListedAsOnDisk <=>
       /\ Len(table.entries) <= PARTITION_MAX /\ Len(table.entries) <= Len(found)
       /\ AllListed(table.entries, table.scheme, found, sectors)
  /\ Partition!ListedAsOnDisk' <=>
       /\ Len(table'.entries) <= PARTITION_MAX /\ Len(table'.entries) <= Len(found')
       /\ AllListed(table'.entries, table'.scheme, found', sectors')
BY Zenon DEF Partition!ListedAsOnDisk, Partition!Extent, AllListed, Lists, Span

\* Extents that pass the tests of the MBR loop, and those that do not.
LEMMA MbrExtent ==
  ASSUME NEW f \in Nat, NEW n \in Nat \ {0}, NEW s \in Nat
  PROVE  /\ ~(f >= s \/ n > s - f) => /\ f .. f + n - 1 # {}
                                      /\ f .. f + n - 1 \subseteq 0 .. s - 1
         /\ (f >= s \/ n > s - f) => ~(f .. f + n - 1 \subseteq 0 .. s - 1)
<1>1. f \in f .. f + n - 1 /\ f + n - 1 \in f .. f + n - 1
  OBVIOUS
<1>2. (f >= s \/ n > s - f) => f + n - 1 \notin 0 .. s - 1
  OBVIOUS
<1>3. ~(f >= s \/ n > s - f) => f .. f + n - 1 \subseteq 0 .. s - 1
  OBVIOUS
<1> QED BY <1>1, <1>2, <1>3, Zenon

\* The same for the loop over the GPT entries; u and v bound the usable area.
LEMMA GptExtent ==
  ASSUME NEW f \in Nat, NEW l \in Nat, NEW s \in Nat, NEW u \in Nat, NEW v \in Nat
  PROVE  /\ ~(f > l \/ f < u \/ l > v \/ l >= s) =>
              /\ l - f + 1 \in Nat
              /\ f .. f + (l - f + 1) - 1 = f .. l
              /\ f .. l # {} /\ f .. l \subseteq 0 .. s - 1
         /\ (f > l \/ f < u \/ l > v \/ l >= s) =>
              \/ f .. l = {} \/ ~(f .. l \subseteq 0 .. s - 1) \/ ~(f .. l \subseteq u .. v)
<1>1. CASE f > l
  <2>1. f .. l = {}
    BY <1>1
  <2> QED BY <1>1, <2>1
<1>2. CASE f <= l
  <2>1. f \in f .. l /\ l \in f .. l
    BY <1>2
  <2>2. l - f + 1 \in Nat /\ f + (l - f + 1) - 1 = l
    BY <1>2
  <2>3. f < u => f \notin u .. v
    OBVIOUS
  <2>4. l > v => l \notin u .. v
    OBVIOUS
  <2>5. l >= s => l \notin 0 .. s - 1
    OBVIOUS
  <2>6. l < s => f .. l \subseteq 0 .. s - 1
    OBVIOUS
  <2>7. l < s \/ l >= s
    OBVIOUS
  <2>8. ~(f > l)
    BY <1>2
  <2> QED BY <2>1, <2>2, <2>3, <2>4, <2>5, <2>6, <2>7, <2>8, Zenon
<1> QED BY <1>1, <1>2

\* A sequence with one more element.
LEMMA AppendFacts ==
  ASSUME NEW S, NEW q \in Seq(S), NEW x \in S
  PROVE  /\ Append(q, x) \in Seq(S) /\ Len(q) \in Nat /\ Len(Append(q, x)) = Len(q) + 1
         /\ DOMAIN q = 1 .. Len(q) /\ DOMAIN Append(q, x) = 1 .. Len(q) + 1
         /\ \A i \in 1 .. Len(q) : Append(q, x)[i] = q[i]
         /\ Append(q, x)[Len(q) + 1] = x
OBVIOUS

\* Entries looked at later do not change what those before them describe.
LEMMA StillListed ==
  ASSUME NEW ps \in Seq(Partitions), NEW es \in Seq(Nat \X Nat), NEW e \in Nat \X Nat,
         NEW scheme, NEW s, Len(ps) <= Len(es), AllListed(ps, scheme, es, s)
  PROVE  AllListed(ps, scheme, Append(es, e), s)
<1>1. Len(ps) \in Nat /\ Len(es) \in Nat /\ DOMAIN ps = 1 .. Len(ps)
  OBVIOUS
<1>2. DOMAIN ps \subseteq 1 .. Len(es)
  BY <1>1
<1>3. \A i \in 1 .. Len(es) : Append(es, e)[i] = es[i]
  BY AppendFacts
<1>4. \A i \in DOMAIN ps : Append(es, e)[i] = es[i]
  BY <1>2, <1>3, Zenon
<1> QED BY <1>4, Zenon DEF AllListed

\* The entry looked at is put into the table.
LEMMA OneMoreListed ==
  ASSUME NEW ps \in Seq(Partitions), NEW es \in Seq(Nat \X Nat), NEW e \in Nat \X Nat,
         NEW scheme, NEW s, Len(ps) = Len(es), AllListed(ps, scheme, es, s),
         NEW p \in Partitions, Lists(p, scheme, e, s)
  PROVE  AllListed(Append(ps, p), scheme, Append(es, e), s)
<1> SUFFICES ASSUME NEW i \in DOMAIN Append(ps, p)
             PROVE  Lists(Append(ps, p)[i], scheme, Append(es, e)[i], s)
  BY Zenon DEF AllListed
<1>1. CASE i = Len(ps) + 1
  <2>1. Append(ps, p)[i] = p /\ Append(es, e)[i] = e
    BY <1>1, AppendFacts
  <2> QED BY <2>1
<1>2. CASE i # Len(ps) + 1
  <2>1. i \in 1 .. Len(ps) + 1 /\ Len(ps) \in Nat /\ DOMAIN ps = 1 .. Len(ps)
    BY AppendFacts
  <2>2. i \in 1 .. Len(ps)
    BY ONLY <1>2, <2>1
  <2>3. Append(ps, p)[i] = ps[i] /\ Append(es, e)[i] = es[i]
    BY <2>2, AppendFacts
  <2> QED BY <2>1, <2>2, <2>3, Zenon DEF AllListed
<1> QED BY <1>1, <1>2

\* A turn of either loop that lists the entry it has looked at.
LEMMA ListsOneMore ==
  ASSUME ScanInv, at # "done", at' # "done", UNCHANGED <<sectors, status>>,
         NEW e \in Nat \X Nat, found' = Append(found, e),
         NEW f \in Nat, NEW n \in Nat, Partition!Add(f, n),
         Lists([first_lba |-> f, sector_count |-> n], table.scheme, e, sectors),
         Len(table.entries) < PARTITION_MAX, PARTITION_MAX \in Nat
  PROVE  /\ table' \in Tables /\ table'.scheme = table.scheme
         /\ Len(table'.entries) = Len(table.entries) + 1
         /\ found' \in Seq(Nat \X Nat) /\ Len(found') = Len(found) + 1
         /\ Partition!TableIsTheDisks'
<1> DEFINE p == [first_lba |-> f, sector_count |-> n]
<1>1. p \in Partitions
  BY DEF Partitions
<1>2. Lists(p, table.scheme, e, sectors)
  OBVIOUS
<1>3. table' = [table EXCEPT !.entries = Append(table.entries, p)]
  BY DEF Partition!Add
<1> HIDE DEF p
<1>4. table \in Tables
  BY DEF ScanInv
<1>5. table.entries \in Seq(Partitions)
  BY <1>4 DEF Tables
<1>6. Append(table.entries, p) \in Seq(Partitions)
      /\ Len(Append(table.entries, p)) = Len(table.entries) + 1
  BY <1>1, <1>5, AppendFacts
<1>7. /\ table' \in Tables /\ table'.scheme = table.scheme
      /\ table'.entries = Append(table.entries, p)
  BY <1>3, <1>4, <1>6, Zenon DEF Tables
<1>8. /\ found \in Seq(Nat \X Nat) /\ Len(found) = Len(table.entries)
      /\ AllListed(table.entries, table.scheme, found, sectors)
  BY ListedMeans DEF ScanInv, Partition!TableIsTheDisks
<1>9. found' \in Seq(Nat \X Nat) /\ Len(found') = Len(found) + 1
  BY <1>8, AppendFacts
<1>10. AllListed(table'.entries, table'.scheme, found', sectors')
  BY <1>1, <1>2, <1>5, <1>7, <1>8, OneMoreListed, Zenon
<1>11. Len(table'.entries) <= PARTITION_MAX /\ Len(table'.entries) <= Len(found')
  BY <1>5, <1>6, <1>7, <1>8, <1>9
<1>12. Partition!ListedAsOnDisk'
  BY <1>10, <1>11, ListedMeans
<1>13. Partition!RejectedForAReason'
  BY DEF Partition!RejectedForAReason
<1>14. Partition!CompleteWhenOk'
  BY DEF ScanInv, Partition!CompleteWhenOk
<1> QED BY <1>6, <1>7, <1>9, <1>12, <1>13, <1>14 DEF Partition!TableIsTheDisks

\* A turn that gives up after it has looked at an entry: the table stays.
LEMMA GivesUp ==
  ASSUME ScanInv, at # "done", UNCHANGED <<sectors, table>>,
         NEW e \in Nat \X Nat, found' = Append(found, e)
  PROVE  /\ found' \in Seq(Nat \X Nat) /\ Len(found') = Len(table.entries) + 1
         /\ found'[Len(found')] = e /\ Partition!ListedAsOnDisk'
<1>1. table.entries \in Seq(Partitions) /\ found \in Seq(Nat \X Nat)
      /\ Len(found) = Len(table.entries) /\ Len(table.entries) <= PARTITION_MAX
      /\ AllListed(table.entries, table.scheme, found, sectors)
  BY ListedMeans DEF ScanInv, Tables, Partition!TableIsTheDisks
<1>2. found' \in Seq(Nat \X Nat) /\ Len(found') = Len(found) + 1 /\ found'[Len(found')] = e
  BY <1>1
<1>3. AllListed(table.entries, table.scheme, found', sectors)
  BY <1>1, StillListed
<1>4. Partition!ListedAsOnDisk'
  BY <1>1, <1>2, <1>3, ListedMeans
<1> QED BY <1>1, <1>2, <1>4

\* A step that looks at no entry.
LEMMA LooksAtNone ==
  ASSUME ScanInv, UNCHANGED <<sectors, found>>,
         table' = table \/ (found = <<>> /\ table'.entries = <<>>),
         at' # "done" \/ status' = "ok" \/ found = <<>>,
         status' # "ok" \/ (at # "done" /\ table' = table /\ Partition!AllTurnsTaken')
  PROVE  Partition!TableIsTheDisks'
<1>1. /\ Len(table.entries) <= PARTITION_MAX /\ Len(table.entries) <= Len(found)
      /\ AllListed(table.entries, table.scheme, found, sectors)
  BY ListedMeans DEF ScanInv, Partition!TableIsTheDisks
<1>2. Partition!ListedAsOnDisk'
  <2>1. CASE table' = table
    BY <1>1, <2>1, ListedMeans
  <2>2. CASE found = <<>> /\ table'.entries = <<>>
    <3>1. table.entries \in Seq(Partitions) /\ Len(table.entries) = 0
      BY <1>1, <2>2 DEF ScanInv, Tables
    <3>2. Len(table'.entries) = Len(table.entries)
      BY <2>2, <3>1
    <3>3. AllListed(table'.entries, table'.scheme, found', sectors')
      BY <2>2 DEF AllListed
    <3> QED BY <1>1, <3>2, <3>3, ListedMeans
  <2> QED BY <2>1, <2>2
<1>3. Partition!RejectedForAReason'
  BY DEF Partition!RejectedForAReason
<1>4. Partition!CompleteWhenOk'
  BY DEF ScanInv, Partition!CompleteWhenOk
<1> QED BY <1>2, <1>3, <1>4 DEF Partition!TableIsTheDisks

LEMMA ReadMbrScan ==
  ASSUME ScanInv, Partition!ReadMbr
  PROVE  ScanInv'
<1>1. /\ at = "scan" /\ found = <<>> /\ UNCHANGED <<sectors, found, next>>
      /\ table \in Tables /\ table.entries = <<>> /\ status = "running"
  BY DEF ScanInv, Tables, Partition!ReadMbr, Partition!Return
<1>2. CASE at' = "done" /\ status' # "ok" /\ UNCHANGED table
  <2>1. Partition!TableIsTheDisks'
    BY <1>1, <1>2, LooksAtNone
  <2> QED BY <1>1, <1>2, <2>1 DEF ScanInv
<1>3. CASE at' = "header" /\ UNCHANGED <<table, status>>
  <2>1. Partition!TableIsTheDisks'
    BY <1>1, <1>3, LooksAtNone
  <2> QED BY <1>1, <1>3, <2>1 DEF ScanInv
<1>4. CASE at' = "mbr" /\ table' = [table EXCEPT !.scheme = "mbr"] /\ UNCHANGED status
  <2>1. table' \in Tables /\ table'.scheme = "mbr" /\ table'.entries = <<>>
    BY <1>1, <1>4 DEF Tables
  <2>2. Partition!TableIsTheDisks'
    BY <1>1, <1>4, <2>1, LooksAtNone
  <2>3. next \in Nat /\ next # 0 /\ sectors \in Nat
    BY <1>1 DEF ScanInv
  <2> QED BY <1>1, <1>4, <2>1, <2>2, <2>3 DEF ScanInv
<1> QED BY <1>2, <1>3, <1>4 DEF Partition!ReadMbr, Partition!Return

LEMMA MbrEntryScan ==
  ASSUME Partition!LimitsAssumption, ScanInv, Partition!MbrEntry
  PROVE  ScanInv'
<1>1. /\ at = "mbr" /\ next <= 4 /\ next \in Nat /\ next # 0 /\ sectors \in Nat
      /\ table \in Tables /\ table.scheme = "mbr" /\ Len(table.entries) < next
      /\ found \in Seq(Nat \X Nat) /\ Len(found) = Len(table.entries)
      /\ UNCHANGED <<sectors, header>> /\ status = "running"
  BY DEF ScanInv, Partition!MbrEntry
<1>2. Len(table.entries) \in Nat
  BY <1>1 DEF Tables
<1>3. CASE next' = next + 1 /\ UNCHANGED <<at, found, table, status>>
  <2>1. Partition!TableIsTheDisks'
    BY <1>1, <1>3, LooksAtNone
  <2> QED BY <1>1, <1>2, <1>3, <2>1 DEF ScanInv
<1>4. ASSUME NEW f \in TableLbas, NEW n \in TableLbas \ {0}, found' = Append(found, <<f, n>>),
             Partition!MbrBad(f, n), at' = "done", status' # "ok", UNCHANGED <<table, next>>
      PROVE  ScanInv'
  <2>1. f \in Nat /\ n \in Nat \ {0} /\ <<f, n>> \in Nat \X Nat
    BY DEF Partition!LimitsAssumption
  <2>2. /\ found' \in Seq(Nat \X Nat) /\ Len(found') = Len(table.entries) + 1
        /\ found'[Len(found')] = <<f, n>> /\ Partition!ListedAsOnDisk'
    BY <1>1, <1>4, <2>1, GivesUp
  <2>3. ~(Span("mbr", <<f, n>>) \subseteq 0 .. sectors - 1)
    BY <1>1, <1>4, <2>1, MbrExtent, Zenon DEF Partition!MbrBad, Span
  <2>4. Partition!RejectedForAReason'
    BY <1>1, <1>4, <2>2, <2>3, Zenon DEF Partition!RejectedForAReason, Partition!Extent, Span
  <2>5. Partition!CompleteWhenOk'
    BY <1>4 DEF Partition!CompleteWhenOk
  <2> QED BY <1>1, <1>4, <2>2, <2>4, <2>5 DEF ScanInv, Partition!TableIsTheDisks
<1>5. ASSUME NEW f \in TableLbas, NEW n \in TableLbas \ {0}, found' = Append(found, <<f, n>>),
             ~Partition!MbrBad(f, n), Partition!Add(f, n), next' = next + 1,
             UNCHANGED <<at, status>>
      PROVE  ScanInv'
  <2>1. f \in Nat /\ n \in Nat \ {0} /\ <<f, n>> \in Nat \X Nat
    BY DEF Partition!LimitsAssumption
  <2>2. Span("mbr", <<f, n>>) = f .. f + n - 1
    BY DEF Span
  <2>3. f .. f + n - 1 # {} /\ f .. f + n - 1 \subseteq 0 .. sectors - 1
    BY <1>1, <1>5, <2>1, MbrExtent, Zenon DEF Partition!MbrBad
  <2>4. Lists([first_lba |-> f, sector_count |-> n], table.scheme, <<f, n>>, sectors)
    BY <1>1, <2>2, <2>3, Zenon DEF Lists
  <2>5. Len(table.entries) < PARTITION_MAX /\ PARTITION_MAX \in Nat
    BY <1>1, <1>2 DEF Partition!LimitsAssumption
  <2>6. /\ table' \in Tables /\ table'.scheme = table.scheme
        /\ Len(table'.entries) = Len(table.entries) + 1
        /\ found' \in Seq(Nat \X Nat) /\ Len(found') = Len(found) + 1
        /\ Partition!TableIsTheDisks'
    BY <1>1, <1>5, <2>1, <2>4, <2>5, ListsOneMore, Zenon
  <2> QED BY <1>1, <1>2, <1>5, <2>6 DEF ScanInv
<1> QED BY <1>3, <1>4, <1>5 DEF Partition!MbrEntry

LEMMA ReadHeaderScan ==
  ASSUME Partition!LimitsAssumption, ScanInv, Partition!ReadHeader
  PROVE  ScanInv'
<1>1. /\ at = "header" /\ found = <<>> /\ UNCHANGED <<sectors, found>>
      /\ table \in Tables /\ table.entries = <<>> /\ sectors \in Nat /\ status = "running"
      /\ next \in Nat \ {0} /\ next' \in Nat \ {0}
  BY DEF ScanInv, Tables, Partition!ReadHeader, Partition!Return
<1>2. CASE at' = "done" /\ status' # "ok" /\ UNCHANGED table
  <2>1. Partition!TableIsTheDisks'
    BY <1>1, <1>2, LooksAtNone
  <2> QED BY <1>1, <1>2, <2>1 DEF ScanInv
<1>3. ASSUME NEW h \in Partition!Headers, header' = h, at' = "gpt",
             table' = [scheme |-> "gpt", entries |-> <<>>], UNCHANGED status
      PROVE  ScanInv'
  <2>1. h.first_usable \in Nat /\ h.last_usable \in Nat
    BY Zenon DEF Partition!LimitsAssumption, Partition!Headers
  <2>2. table' \in Tables /\ table'.scheme = "gpt" /\ table'.entries = <<>>
    BY <1>3 DEF Tables
  <2>3. Partition!TableIsTheDisks'
    BY <1>1, <1>3, <2>2, LooksAtNone
  <2> QED BY <1>1, <1>3, <2>1, <2>2, <2>3 DEF ScanInv
<1> QED BY <1>2, <1>3 DEF Partition!ReadHeader, Partition!Return

LEMMA GptEntryScan ==
  ASSUME Partition!LimitsAssumption, ScanInv, Partition!GptEntry
  PROVE  ScanInv'
<1>1. /\ at = "gpt" /\ next \in Nat /\ next # 0 /\ sectors \in Nat
      /\ header.first_usable \in Nat /\ header.last_usable \in Nat
      /\ table \in Tables /\ table.scheme = "gpt"
      /\ found \in Seq(Nat \X Nat) /\ Len(found) = Len(table.entries)
      /\ UNCHANGED <<sectors, header>> /\ status = "running"
  BY DEF ScanInv, Partition!GptEntry
<1>2. Len(table.entries) \in Nat /\ PARTITION_MAX \in Nat
  BY <1>1 DEF Tables, Partition!LimitsAssumption
<1>3. CASE next' = next + 1 /\ UNCHANGED <<at, found, table, status>>
  <2>1. Partition!TableIsTheDisks'
    BY <1>1, <1>3, LooksAtNone
  <2> QED BY <1>1, <1>2, <1>3, <2>1 DEF ScanInv
<1>4. ASSUME NEW f \in TableLbas, NEW l \in TableLbas, found' = Append(found, <<f, l>>),
             at' = "done", status' # "ok", UNCHANGED <<table, next>>,
             \/ Partition!GptBad(f, l)
             \/ status' = "too_many" /\ Len(table.entries) >= PARTITION_MAX
      PROVE  ScanInv'
  <2>1. f \in Nat /\ l \in Nat /\ <<f, l>> \in Nat \X Nat
    BY DEF Partition!LimitsAssumption
  <2>2. /\ found' \in Seq(Nat \X Nat) /\ Len(found') = Len(table.entries) + 1
        /\ found'[Len(found')] = <<f, l>> /\ Partition!ListedAsOnDisk'
    BY <1>1, <1>4, <2>1, GivesUp
  <2>3. Span("gpt", <<f, l>>) = f .. l
    BY DEF Span
  <2>4. Partition!GptBad(f, l) =>
          \/ f .. l = {} \/ ~(f .. l \subseteq 0 .. sectors - 1)
          \/ ~(f .. l \subseteq header.first_usable .. header.last_usable)
    <3> DEFINE u == header.first_usable
               v == header.last_usable
    <3>1. u \in Nat /\ v \in Nat /\ sectors \in Nat
      BY <1>1
    <3>2. Partition!GptBad(f, l) <=> (f > l \/ f < u \/ l > v \/ l >= sectors)
      BY Zenon DEF Partition!GptBad
    <3> HIDE DEF u, v
    <3>3. (f > l \/ f < u \/ l > v \/ l >= sectors) =>
            \/ f .. l = {} \/ ~(f .. l \subseteq 0 .. sectors - 1) \/ ~(f .. l \subseteq u .. v)
      BY ONLY <2>1, <3>1, GptExtent
    <3> QED BY <3>2, <3>3, Zenon DEF u, v
  <2>5. Len(table.entries) >= PARTITION_MAX => Len(found') > PARTITION_MAX
    BY <1>2, <2>2
  <2>6. Partition!Extent(found[Len(found)])' = f .. l /\ table'.scheme = "gpt"
    BY <1>1, <1>4, <2>2, <2>3 DEF Partition!Extent, Span
  <2>7. Partition!RejectedForAReason'
    BY <1>1, <1>4, <2>4, <2>5, <2>6, Zenon DEF Partition!RejectedForAReason
  <2>8. Partition!CompleteWhenOk'
    BY <1>4 DEF Partition!CompleteWhenOk
  <2> QED BY <1>1, <1>4, <2>2, <2>7, <2>8 DEF ScanInv, Partition!TableIsTheDisks
<1>5. ASSUME NEW f \in TableLbas, NEW l \in TableLbas, found' = Append(found, <<f, l>>),
             ~Partition!GptBad(f, l), Len(table.entries) < PARTITION_MAX,
             Partition!Add(f, l - f + 1), next' = next + 1, UNCHANGED <<at, status>>
      PROVE  ScanInv'
  <2>1. f \in Nat /\ l \in Nat /\ <<f, l>> \in Nat \X Nat
    BY DEF Partition!LimitsAssumption
  <2>2. Span("gpt", <<f, l>>) = f .. l
    BY DEF Span
  <2>3. l - f + 1 \in Nat /\ f .. f + (l - f + 1) - 1 = f .. l
        /\ f .. l # {} /\ f .. l \subseteq 0 .. sectors - 1
    <3> DEFINE u == header.first_usable
               v == header.last_usable
    <3>1. u \in Nat /\ v \in Nat /\ sectors \in Nat
      BY <1>1
    <3>2. ~(f > l \/ f < u \/ l > v \/ l >= sectors)
      BY <1>5, Zenon DEF Partition!GptBad
    <3> HIDE DEF u, v
    <3> QED BY ONLY <2>1, <3>1, <3>2, GptExtent
  <2>4. Lists([first_lba |-> f, sector_count |-> l - f + 1], table.scheme, <<f, l>>, sectors)
    BY <1>1, <2>2, <2>3, Zenon DEF Lists
  <2>5. /\ table' \in Tables /\ table'.scheme = table.scheme
        /\ Len(table'.entries) = Len(table.entries) + 1
        /\ found' \in Seq(Nat \X Nat) /\ Len(found') = Len(found) + 1
        /\ Partition!TableIsTheDisks'
    BY <1>1, <1>2, <1>5, <2>1, <2>3, <2>4, ListsOneMore, Zenon
  <2> QED BY <1>1, <1>2, <1>5, <2>5 DEF ScanInv
<1>6. ASSUME NEW f \in TableLbas, NEW l \in TableLbas, found' = Append(found, <<f, l>>),
             CASE Partition!GptBad(f, l) ->
                    at' = "done" /\ status' = "bad_gpt" /\ UNCHANGED <<table, next>>
               [] ~Partition!GptBad(f, l) /\ Len(table.entries) >= PARTITION_MAX ->
                    at' = "done" /\ status' = "too_many" /\ UNCHANGED <<table, next>>
               [] OTHER ->
                    /\ Partition!Add(f, l - f + 1)
                    /\ next' = next + 1
                    /\ UNCHANGED <<at, status>>
      PROVE  ScanInv'
  <2>1. CASE Partition!GptBad(f, l)
    <3>1. at' = "done" /\ status' # "ok" /\ UNCHANGED <<table, next>>
          /\ found' = Append(found, <<f, l>>)
      BY <1>6, <2>1
    <3> QED BY <1>4, <2>1, <3>1
  <2>2. CASE ~Partition!GptBad(f, l) /\ Len(table.entries) >= PARTITION_MAX
    <3>1. at' = "done" /\ status' = "too_many" /\ UNCHANGED <<table, next>>
      BY <1>6, <2>2
    <3> QED BY <1>4, <1>6, <2>2, <3>1
  <2>3. CASE ~Partition!GptBad(f, l) /\ ~(Len(table.entries) >= PARTITION_MAX)
    <3>1. Partition!Add(f, l - f + 1) /\ next' = next + 1 /\ UNCHANGED <<at, status>>
      BY <1>6, <2>3
    <3>2. Len(table.entries) < PARTITION_MAX
      BY <1>2, <2>3
    <3> QED BY <1>5, <1>6, <2>3, <3>1, <3>2
  <2> QED BY <2>1, <2>2, <2>3
<1> QED BY <1>3, <1>6 DEF Partition!GptEntry

\* Partition!TableIsTheDisks for every device, every table on it and every
\* capacity of the caller's array of four or more: whatever partition_scan has
\* listed, also when it then fails, is the disk's entry of the same number and
\* lies on the device, with PARTITION_OK none is missing, and a loop that has
\* looked at an entry gives up only because it is bad or one too many
\* (partition.c:138-167, 192-228).
THEOREM TableAlwaysTheDisks ==
  ASSUME Partition!LimitsAssumption
  PROVE  Partition!Spec => []Partition!TableIsTheDisks
<1>1. Partition!Init => ScanInv
  <2> SUFFICES ASSUME Partition!Init PROVE ScanInv
    OBVIOUS
  <2>1. /\ at = "scan" /\ sectors \in Nat /\ found = <<>> /\ next = 1 /\ status = "running"
        /\ table = [scheme |-> "none", entries |-> <<>>]
    BY DEF Partition!Init, Partition!NoTable, Partition!LimitsAssumption
  <2>2. table \in Tables /\ table.entries = <<>> /\ Len(table.entries) = 0
    BY <2>1 DEF Tables
  <2>3. AllListed(table.entries, table.scheme, found, sectors)
    BY <2>2 DEF AllListed
  <2>4. Partition!ListedAsOnDisk
    BY <2>1, <2>2, <2>3, ListedMeans DEF Partition!LimitsAssumption
  <2>5. Partition!RejectedForAReason
    BY <2>1 DEF Partition!RejectedForAReason
  <2>6. Partition!CompleteWhenOk
    BY <2>1 DEF Partition!CompleteWhenOk
  <2> QED BY <2>1, <2>2, <2>4, <2>5, <2>6 DEF ScanInv, Partition!TableIsTheDisks
<1>2. ScanInv /\ [Partition!Next]_Partition!vars => ScanInv'
  <2> SUFFICES ASSUME ScanInv, [Partition!Next]_Partition!vars PROVE ScanInv'
    OBVIOUS
  <2>1. CASE UNCHANGED Partition!vars
    BY <2>1, Zenon DEF Partition!vars, ScanInv, Partition!TableIsTheDisks, Partition!ListedAsOnDisk,
                Partition!RejectedForAReason, Partition!Extent, Partition!CompleteWhenOk,
                Partition!AllTurnsTaken
  <2>2. CASE Partition!MbrEnd \/ Partition!GptEnd
    <3>1. /\ at # "done" /\ at' = "done" /\ status' = "ok"
          /\ UNCHANGED <<sectors, header, found, next, table>>
      BY <2>2 DEF Partition!MbrEnd, Partition!GptEnd, Partition!Return
    <3>2. Partition!AllTurnsTaken'
      <4>1. Partition!AllTurnsTaken
        BY <2>2 DEF ScanInv, Partition!MbrEnd, Partition!GptEnd, Partition!AllTurnsTaken
      <4> QED BY <3>1, <4>1 DEF Partition!AllTurnsTaken
    <3>3. Partition!TableIsTheDisks'
      BY <3>1, <3>2, LooksAtNone
    <3> QED BY <3>1, <3>3 DEF ScanInv
  <2> QED BY <2>1, <2>2, ReadMbrScan, MbrEntryScan, ReadHeaderScan, GptEntryScan
          DEF Partition!Next
<1>3. ScanInv => Partition!TableIsTheDisks
  BY DEF ScanInv
<1> QED BY <1>1, <1>2, <1>3, PTL DEF Partition!Spec
=============================================================================
