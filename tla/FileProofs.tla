----------------------------- MODULE FileProofs -----------------------------
(***************************************************************************)
(* Proofs about the file systems and the table of handles for every number *)
(* of mounts, handles, open files and nodes.  The inductive invariant is   *)
(* VfsInv: the types, and that handles and open files are one to one.      *)
(* Then what the calls of a file system do to its tree and its files,      *)
(* which StorageProofs builds on.  A library of theorems is instantiated   *)
(* where it is first needed, to keep the context of the other steps small. *)
(***************************************************************************)
EXTENDS StorageServices, TLAPS

USE TmpfsAssumption, VfsAssumption DEF NodeIds, Opens, Handles

-----------------------------------------------------------------------------
\* The two tables of a file system.
FsOK(fs) ==
  /\ DOMAIN fs = {"nodes", "open"}
  /\ DOMAIN fs.nodes = NodeIds
  /\ DOMAIN fs.open = Opens
  /\ \A o \in Opens : /\ DOMAIN fs.open[o] = {"used", "node", "flags", "offset"}
                      /\ fs.open[o].used \in BOOLEAN

\* The same slots are open in both.
SameOpen(fs, gs) == \A o \in Opens : gs.open[o].used = fs.open[o].used

\* A call that ends in made has added a node, or changed nothing.
MakesNode(fs, made, type, perms) ==
  /\ FsOK(made.fs) /\ SameOpen(fs, made.fs)
  /\ made.status # "OK" => made.fs = fs
  /\ made.status = "OK" => /\ made.out \in NodeIds
                           /\ made.fs.nodes[made.out].type = type
                           /\ made.fs.nodes[made.out].permissions = perms

\* A call that ends in done has taken a free slot of fs, or no slot.
TakesSlot(fs, done) ==
  /\ FsOK(done.fs)
  /\ done.status # "OK" => SameOpen(fs, done.fs)
  /\ done.status = "OK" =>
       /\ done.out \in Opens /\ ~fs.open[done.out].used
       /\ done.fs.open[done.out].used
       /\ \A o \in Opens \ {done.out} : done.fs.open[o].used = fs.open[o].used

\* Where clients and storage_services_init mount.
AllMountPoints == MountPoints \cup {<<>>, <<"var">>}

VfsTypes ==
  /\ mounts \in Seq([path : AllMountPoints, context : FileSystems])
  /\ handles \in [Handles -> [used : BOOLEAN, mount : Nat, backend : Nat]]
  /\ \A h \in Handles : handles[h].used =>
       handles[h].mount \in DOMAIN mounts /\ handles[h].backend \in Opens
  /\ DOMAIN disks = FileSystems
  /\ disks = [f \in FileSystems |-> disks[f]]
  /\ \A f \in FileSystems : FsOK(disks[f])

\* The inductive invariant.
VfsInv == VfsTypes /\ HandlesOwnOpenFiles

\* While a handle is free every file system has a free slot.
SlotsSuffice ==
  FreeHandles # {} => \A f \in FileSystems : \E o \in Opens : ~disks[f].open[o].used

-----------------------------------------------------------------------------
\* op_close frees its slot.
LEMMA OpCloseOpen ==
  ASSUME NEW fs, FsOK(fs), NEW h \in Opens, fs.open[h].used
  PROVE  /\ FsOK(OpClose(fs, h).fs) /\ ~OpClose(fs, h).fs.open[h].used
         /\ \A o \in Opens \ {h} : OpClose(fs, h).fs.open[o].used = fs.open[o].used
<1> DEFINE gs == [fs EXCEPT !.open[h] = Closed]
<1>1. OpClose(fs, h).fs = gs BY DEF OpClose, Result
<1>2. /\ DOMAIN gs = {"nodes", "open"} /\ DOMAIN gs.nodes = NodeIds /\ DOMAIN gs.open = Opens
      /\ gs.open[h] = Closed /\ \A o \in Opens \ {h} : gs.open[o] = fs.open[o]
  BY DEF FsOK
<1>3. DOMAIN Closed = {"used", "node", "flags", "offset"} /\ Closed.used = FALSE
  BY DEF Closed
<1> HIDE DEF gs
<1>4. ASSUME NEW o \in Opens
      PROVE  DOMAIN gs.open[o] = {"used", "node", "flags", "offset"}
             /\ gs.open[o].used \in BOOLEAN
  <2>1. CASE o = h BY <1>2, <1>3, <2>1, Zenon
  <2>2. CASE o # h BY <1>2, <2>2 DEF FsOK
  <2> QED BY <2>1, <2>2
<1>5. FsOK(gs) BY <1>2, <1>4 DEF FsOK
<1> QED BY <1>1, <1>2, <1>3, <1>5

\* Changing the offset of an open file, or anything in the nodes, keeps the slots.
LEMMA OffsetKeepsOpen ==
  ASSUME NEW fs, FsOK(fs), NEW gs, NEW h \in Opens, NEW offset,
         DOMAIN gs = DOMAIN fs, DOMAIN gs.nodes = DOMAIN fs.nodes,
         gs.open = [fs.open EXCEPT ![h].offset = offset]
  PROVE  FsOK(gs) /\ SameOpen(fs, gs)
<1>1. DOMAIN gs.open = Opens /\ \A o \in Opens \ {h} : gs.open[o] = fs.open[o]
  BY DEF FsOK
<1>2. gs.open[h] = [fs.open[h] EXCEPT !.offset = offset] BY DEF FsOK
<1>3. gs.open[h].used = fs.open[h].used
      /\ DOMAIN gs.open[h] = {"used", "node", "flags", "offset"}
  BY <1>2 DEF FsOK
<1>4. SameOpen(fs, gs) BY <1>1, <1>3 DEF SameOpen
<1>5. \A o \in Opens : /\ DOMAIN gs.open[o] = {"used", "node", "flags", "offset"}
                        /\ gs.open[o].used \in BOOLEAN
  BY <1>1, <1>3, <1>4 DEF FsOK, SameOpen
<1> QED BY <1>1, <1>4, <1>5 DEF FsOK

\* So do op_read, op_write, op_seek and tmpfs_set_permissions.
LEMMA OpReadOpen ==
  ASSUME NEW fs, FsOK(fs), NEW h \in Opens, NEW length
  PROVE  FsOK(OpRead(fs, h, length).fs) /\ SameOpen(fs, OpRead(fs, h, length).fs)
<1> DEFINE gs == OpRead(fs, h, length).fs
<1>1. CASE gs = fs BY <1>1 DEF SameOpen
<1>2. ASSUME NEW take, gs = [fs EXCEPT !.open[h].offset = @ + take]
      PROVE  FsOK(gs) /\ SameOpen(fs, gs)
  <2>1. /\ DOMAIN gs = DOMAIN fs /\ DOMAIN gs.nodes = DOMAIN fs.nodes
        /\ gs.open = [fs.open EXCEPT ![h].offset = @ + take]
    BY <1>2 DEF FsOK
  <2> QED BY <2>1, OffsetKeepsOpen
<1>3. gs = fs \/ \E take : gs = [fs EXCEPT !.open[h].offset = @ + take]
  <2>1. \/ \E s : OpRead(fs, h, length) = Result(s, fs, <<>>)
        \/ \E take, out :
             OpRead(fs, h, length) = Result("OK", [fs EXCEPT !.open[h].offset = @ + take], out)
    BY Zenon DEF OpRead
  <2>2. ASSUME NEW s, OpRead(fs, h, length) = Result(s, fs, <<>>) PROVE gs = fs
    BY <2>2 DEF Result
  <2>3. ASSUME NEW r, NEW out, OpRead(fs, h, length) = Result("OK", r, out) PROVE gs = r
    BY <2>3 DEF Result
  <2> QED BY <2>1, <2>2, <2>3, Zenon
<1> QED BY <1>1, <1>2, <1>3, Zenon

LEMMA OpWriteOpen ==
  ASSUME NEW fs, FsOK(fs), NEW h \in Opens, NEW bytes
  PROVE  FsOK(OpWrite(fs, h, bytes).fs) /\ SameOpen(fs, OpWrite(fs, h, bytes).fs)
<1> DEFINE gs == OpWrite(fs, h, bytes).fs
           open == fs.open[h]
           end == open.offset + Len(bytes)
           moved == [fs.open EXCEPT ![h].offset = end]
           after == [fs EXCEPT !.open[h].offset = end,
                               !.nodes[open.node].size = Max({@, end}),
                               !.nodes[open.node].data =
                                 [i \in DOMAIN @ |-> IF i > open.offset /\ i <= end
                                                     THEN bytes[i - open.offset] ELSE @[i]]]
<1>1. CASE gs = fs BY <1>1 DEF SameOpen
<1>2. CASE gs = after
  <2>1. DOMAIN after = DOMAIN fs /\ DOMAIN after.nodes = DOMAIN fs.nodes /\ after.open = moved
    BY Zenon DEF FsOK
  <2> HIDE DEF after
  <2> QED BY <1>2, <2>1, OffsetKeepsOpen, Zenon
<1>3. gs = fs \/ gs = after
  <2>1. \/ \E s : OpWrite(fs, h, bytes) = Result(s, fs, 0)
        \/ OpWrite(fs, h, bytes) = Result("OK", after, Len(bytes))
    BY Zenon DEF OpWrite
  <2> HIDE DEF after
  <2> QED BY <2>1 DEF Result
<1> HIDE DEF after
<1> QED BY <1>1, <1>2, <1>3, Zenon

LEMMA OpSeekOpen ==
  ASSUME NEW fs, FsOK(fs), NEW h \in Opens, NEW offset
  PROVE  FsOK(OpSeek(fs, h, offset).fs) /\ SameOpen(fs, OpSeek(fs, h, offset).fs)
<1> DEFINE gs == OpSeek(fs, h, offset).fs
<1>1. CASE gs = fs BY <1>1 DEF SameOpen
<1>2. CASE gs = [fs EXCEPT !.open[h].offset = offset]
  <2>1. /\ DOMAIN gs = DOMAIN fs /\ DOMAIN gs.nodes = DOMAIN fs.nodes
        /\ gs.open = [fs.open EXCEPT ![h].offset = offset]
    BY <1>2 DEF FsOK
  <2> QED BY <2>1, OffsetKeepsOpen
<1>3. gs = fs \/ gs = [fs EXCEPT !.open[h].offset = offset] BY DEF OpSeek, Result
<1> QED BY <1>1, <1>2, <1>3

LEMMA SetPermissionsOpen ==
  ASSUME NEW fs, FsOK(fs), NEW path, NEW perms
  PROVE  /\ FsOK(SetPermissions(fs, path, perms).fs)
         /\ SameOpen(fs, SetPermissions(fs, path, perms).fs)
<1> DEFINE gs == SetPermissions(fs, path, perms).fs
           n == ResolveNode(fs, path)
<1>1. CASE gs = fs BY <1>1 DEF SameOpen
<1>2. CASE gs = [fs EXCEPT !.nodes[n].permissions = perms] BY <1>2 DEF FsOK, SameOpen
<1>3. gs = fs \/ gs = [fs EXCEPT !.nodes[n].permissions = perms]
  BY DEF SetPermissions, Result
<1> QED BY <1>1, <1>2, <1>3

\* The nodes after the bytes of node n are cut off.
CutOff(nodes, n) == [nodes EXCEPT ![n].size = 0]

\* The data of a file after op_write has put bytes at an offset.
Written(data, offset, bytes) ==
  [i \in DOMAIN data |-> IF i > offset /\ i <= offset + Len(bytes)
                         THEN bytes[i - offset] ELSE data[i]]

\* The nodes after op_write to node n.
Overwritten(nodes, n, offset, bytes) ==
  [nodes EXCEPT ![n].size = Max({@, offset + Len(bytes)}),
                ![n].data = Written(@, offset, bytes)]

\* opened is a file that is open for writing.
OpenForWriting(opened) ==
  /\ opened.status = "OK" /\ FsOK(opened.fs) /\ opened.out \in Opens
  /\ opened.fs.open[opened.out].used /\ "WRITE" \in opened.fs.open[opened.out].flags

\* r has put the bytes at an offset if they fit, and freed the slot.
UsedAndClosed(opened, r, offset, bytes) ==
  LET fs == opened.fs
      h == opened.out
  IN  /\ FsOK(r.fs) /\ ~r.fs.open[h].used
      /\ \A o \in Opens \ {h} : r.fs.open[o].used = fs.open[o].used
      /\ offset + Len(bytes) > Capacity => r.status # "OK" /\ r.fs.nodes = fs.nodes
      /\ offset + Len(bytes) <= Capacity =>
           /\ r.status = "OK" /\ r.out = Len(bytes)
           /\ r.fs.nodes = Overwritten(fs.nodes, fs.open[h].node, offset, bytes)

\* vfs_seek, vfs_write and vfs_close.
LEMMA UseOpenedEffect ==
  ASSUME NEW opened, OpenForWriting(opened),
         NEW offset \in 0..Capacity, NEW bytes \in Seq(Nat)
  PROVE  UsedAndClosed(opened, UseOpened(opened, offset, bytes), offset, bytes)
<1> SUFFICES ASSUME NEW fs, FsOK(fs), NEW h \in Opens, fs.open[h].used,
                    "WRITE" \in fs.open[h].flags,
                    opened.status = "OK", opened.fs = fs, opened.out = h
             PROVE  UsedAndClosed(opened, UseOpened(opened, offset, bytes), offset, bytes)
  BY DEF OpenForWriting
<1> DEFINE sought == OpSeek(fs, h, offset)
           wrote == OpWrite(sought.fs, h, bytes)
           end == offset + Len(bytes)
           n == fs.open[h].node
<1>1. sought.status = "OK" /\ sought.fs = [fs EXCEPT !.open[h].offset = offset]
  BY DEF OpSeek, Result
<1>2. FsOK(sought.fs) /\ SameOpen(fs, sought.fs) BY OpSeekOpen
<1>3. /\ sought.fs.nodes = fs.nodes
      /\ sought.fs.open[h] = [fs.open[h] EXCEPT !.offset = offset]
  <2> HIDE DEF sought
  <2>1. /\ sought.fs.nodes = fs.nodes
        /\ sought.fs.open = [fs.open EXCEPT ![h].offset = offset]
    BY <1>1 DEF FsOK
  <2> QED BY <2>1, Zenon DEF FsOK
<1>4. /\ sought.fs.open[h].used /\ sought.fs.open[h].offset = offset
      /\ sought.fs.open[h].node = n /\ "WRITE" \in sought.fs.open[h].flags
  BY <1>3 DEF FsOK
<1>5. FsOK(wrote.fs) /\ SameOpen(sought.fs, wrote.fs) BY <1>2, OpWriteOpen
<1> HIDE DEF sought
<1>6. end > Capacity => wrote.status # "OK" /\ wrote.fs.nodes = fs.nodes
  BY <1>3, <1>4, Zenon DEF OpWrite, Result
<1>7. end <= Capacity => wrote.status = "OK" /\ wrote.out = Len(bytes)
  BY <1>4 DEF OpWrite, Result
<1>8. end <= Capacity => wrote.fs.nodes = Overwritten(fs.nodes, n, offset, bytes)
  <2> SUFFICES ASSUME end <= Capacity
               PROVE  wrote.fs.nodes = Overwritten(fs.nodes, n, offset, bytes)
    OBVIOUS
  <2> DEFINE gs == sought.fs
             after(m, off) ==
               [gs EXCEPT !.open[h].offset = off + Len(bytes),
                          !.nodes[m].size = Max({@, off + Len(bytes)}),
                          !.nodes[m].data =
                            [i \in DOMAIN @ |-> IF i > off /\ i <= off + Len(bytes)
                                                THEN bytes[i - off] ELSE @[i]]]
  <2>1. wrote.fs = after(n, offset)
    <3>1. ~(gs.open[h].offset + Len(bytes) > Capacity) BY <1>4
    <3>2. wrote = Result("OK", after(gs.open[h].node, gs.open[h].offset), Len(bytes))
      BY <1>4, <3>1, Zenon DEF OpWrite
    <3> HIDE DEF after
    <3> QED BY <1>4, <3>2 DEF Result
  <2>2. after(n, offset).nodes = Overwritten(gs.nodes, n, offset, bytes)
    BY <1>2, Zenon DEF FsOK, Overwritten, Written
  <2> QED BY <1>3, <2>1, <2>2, Zenon
<1>9. SeekAndWrite(sought, h, bytes) = wrote BY <1>1 DEF SeekAndWrite
<1>10. UseOpened(opened, offset, bytes) = Result(wrote.status, OpClose(wrote.fs, h).fs, wrote.out)
  BY <1>9 DEF UseOpened, CloseAfter, sought
<1>11. wrote.fs.open[h].used BY <1>2, <1>5, Zenon DEF SameOpen
<1> HIDE DEF wrote
<1>12. /\ FsOK(OpClose(wrote.fs, h).fs) /\ ~OpClose(wrote.fs, h).fs.open[h].used
       /\ \A o \in Opens \ {h} : OpClose(wrote.fs, h).fs.open[o].used = wrote.fs.open[o].used
  BY <1>5, <1>11, OpCloseOpen
<1>13. OpClose(wrote.fs, h).fs.nodes = wrote.fs.nodes
  <2>1. OpClose(wrote.fs, h).fs = [wrote.fs EXCEPT !.open[h] = Closed]
    BY <1>11 DEF OpClose, Result
  <2> QED BY <1>5, <2>1 DEF FsOK
<1>14. \A o \in Opens \ {h} : OpClose(wrote.fs, h).fs.open[o].used = fs.open[o].used
  BY <1>2, <1>5, <1>12, Zenon DEF SameOpen
<1> DEFINE r == UseOpened(opened, offset, bytes)
<1>15. r.status = wrote.status /\ r.fs = OpClose(wrote.fs, h).fs /\ r.out = wrote.out
  BY <1>10 DEF Result
<1> HIDE DEF r
<1>16. end > Capacity => r.status # "OK" /\ r.fs.nodes = fs.nodes
  BY <1>6, <1>13, <1>15, Zenon
<1>17. end <= Capacity => /\ r.status = "OK" /\ r.out = Len(bytes)
                          /\ r.fs.nodes = Overwritten(fs.nodes, n, offset, bytes)
  BY <1>7, <1>8, <1>13, <1>15, Zenon
<1>18. /\ FsOK(r.fs) /\ ~r.fs.open[h].used
       /\ \A o \in Opens \ {h} : r.fs.open[o].used = fs.open[o].used
  BY <1>12, <1>14, <1>15
<1>19. UsedAndClosed(opened, r, offset, bytes)
  BY <1>16, <1>17, <1>18, Zenon DEF UsedAndClosed
<1> QED BY <1>19 DEF r

-----------------------------------------------------------------------------
\* What a slot of the mount table holds.
LEMMA MountType ==
  ASSUME VfsTypes, NEW i \in DOMAIN mounts
  PROVE  i \in Nat /\ mounts[i] \in [path : AllMountPoints, context : FileSystems]
<1> DEFINE M == [path : AllMountPoints, context : FileSystems]
<1>1. mounts \in Seq(M) BY DEF VfsTypes
<1> HIDE DEF M
<1>2. i \in 1..Len(mounts) /\ Len(mounts) \in Nat BY <1>1
<1>3. mounts[i] \in M BY <1>1, <1>2
<1> QED BY <1>2, <1>3 DEF M

\* The file system behind a handle in use.
LEMMA BehindType ==
  ASSUME VfsTypes, NEW h \in Handles, handles[h].used
  PROVE  Behind(h) \in FileSystems /\ Backend(h) \in Opens
<1>1. handles[h].mount \in DOMAIN mounts /\ handles[h].backend \in Opens BY DEF VfsTypes
<1>2. mounts[handles[h].mount] \in [path : AllMountPoints, context : FileSystems]
  BY <1>1, MountType
<1> QED BY <1>1, <1>2 DEF Behind, Backend

\* A step that opens and closes nothing.
LEMMA SameOpenKeeps ==
  ASSUME VfsInv, NEW f \in FileSystems, NEW gs, FsOK(gs), SameOpen(disks[f], gs),
         disks' = [disks EXCEPT ![f] = gs], UNCHANGED <<mounts, handles>>
  PROVE  VfsInv'
<1>1. \A g \in FileSystems : disks'[g] = IF g = f THEN gs ELSE disks[g]
  BY DEF VfsInv, VfsTypes
<1>2. \A g \in FileSystems, o \in Opens : disks'[g].open[o].used = disks[g].open[o].used
  BY <1>1 DEF SameOpen
<1>3. \A h \in Handles : Behind(h)' = Behind(h) /\ Backend(h)' = Backend(h)
  BY DEF Behind, Backend
<1>4. VfsTypes'
  <2>1. DOMAIN disks' = FileSystems /\ disks' = [g \in FileSystems |-> disks'[g]]
    BY DEF VfsInv, VfsTypes
  <2>2. \A g \in FileSystems : FsOK(disks'[g]) BY <1>1 DEF VfsInv, VfsTypes
  <2>3. \A g \in FileSystems : FsOK(disks[g])' BY <2>2 DEF FsOK
  <2> QED BY <2>1, <2>3 DEF VfsInv, VfsTypes
<1>5. \A h \in Handles : handles[h].used => disks'[Behind(h)].open[Backend(h)].used
  <2> SUFFICES ASSUME NEW h \in Handles, handles[h].used
               PROVE  disks'[Behind(h)].open[Backend(h)].used
    OBVIOUS
  <2>1. Behind(h) \in FileSystems /\ Backend(h) \in Opens BY BehindType DEF VfsInv
  <2> QED BY <1>2, <2>1 DEF VfsInv, HandlesOwnOpenFiles
<1>6. HandlesOwnOpenFiles' BY <1>2, <1>3, <1>5 DEF VfsInv, HandlesOwnOpenFiles
<1> QED BY <1>4, <1>6 DEF VfsInv

\* vfs_mount moves no handle to another file system.
LEMMA MountKeeps ==
  ASSUME VfsInv, NEW p \in MountPoints, NEW f \in FileSystems, VfsMount(p, f)
  PROVE  VfsInv'
<1> DEFINE m == [path |-> p, context |-> f]
           M == [path : AllMountPoints, context : FileSystems]
<1>1. mounts \in Seq(M) /\ m \in M /\ mounts' = Append(mounts, m)
      /\ handles' = handles /\ disks' = disks
  BY DEF VfsInv, VfsTypes, VfsMount, AllMountPoints
<1> HIDE DEF m, M
<1>2. /\ mounts' \in Seq(M) /\ DOMAIN mounts \subseteq DOMAIN mounts'
      /\ \A i \in DOMAIN mounts : mounts'[i] = mounts[i]
  BY <1>1
<1>3. \A h \in Handles : handles[h].used => handles[h].mount \in DOMAIN mounts
  BY DEF VfsInv, VfsTypes
<1>4. \A h \in Handles : handles[h].used => Behind(h)' = Behind(h) /\ Backend(h)' = Backend(h)
  BY <1>1, <1>2, <1>3 DEF Behind, Backend
<1>5. VfsTypes'
  <2>1. \A g \in FileSystems : FsOK(disks[g])' BY <1>1 DEF VfsInv, VfsTypes, FsOK
  <2> QED BY <1>1, <1>2, <2>1 DEF VfsInv, VfsTypes, M
<1>6. HandlesOwnOpenFiles' BY <1>1, <1>4 DEF VfsInv, HandlesOwnOpenFiles
<1> QED BY <1>5, <1>6 DEF VfsInv

\* A free handle is given to a slot that was free.
LEMMA HandOverKeeps ==
  ASSUME VfsInv, NEW f \in FileSystems, NEW done, TakesSlot(disks[f], done),
         done.status = "OK",
         NEW m \in DOMAIN mounts, mounts[m].context = f,
         NEW k \in Handles, ~handles[k].used,
         disks' = [disks EXCEPT ![f] = done.fs], mounts' = mounts,
         handles' = [handles EXCEPT ![k] = [used |-> TRUE, mount |-> m, backend |-> done.out]]
  PROVE  VfsInv'
<1>1. \A g \in FileSystems : disks'[g] = IF g = f THEN done.fs ELSE disks[g]
  BY DEF VfsInv, VfsTypes
<1>2. /\ FsOK(done.fs) /\ done.out \in Opens
      /\ ~disks[f].open[done.out].used /\ done.fs.open[done.out].used
      /\ \A o \in Opens \ {done.out} : done.fs.open[o].used = disks[f].open[o].used
  BY Zenon DEF TakesSlot
<1>3. m \in Nat BY DEF VfsInv, VfsTypes
<1>4. /\ handles'[k] = [used |-> TRUE, mount |-> m, backend |-> done.out]
      /\ \A h \in Handles \ {k} : handles'[h] = handles[h]
  BY DEF VfsInv, VfsTypes
<1>5. Behind(k)' = f /\ Backend(k)' = done.out /\ handles'[k].used
  BY <1>4 DEF Behind, Backend
<1>6. \A h \in Handles \ {k} : Behind(h)' = Behind(h) /\ Backend(h)' = Backend(h)
  BY <1>4 DEF Behind, Backend
<1>7. VfsTypes'
  <2>1. DOMAIN disks' = FileSystems /\ disks' = [g \in FileSystems |-> disks'[g]]
    BY Zenon DEF VfsInv, VfsTypes
  <2>2. \A g \in FileSystems : FsOK(disks'[g]) BY <1>1, <1>2, Zenon DEF VfsInv, VfsTypes
  <2>3. \A g \in FileSystems : FsOK(disks[g])' BY <2>2, Zenon DEF FsOK
  <2>4. handles' \in [Handles -> [used : BOOLEAN, mount : Nat, backend : Nat]]
    BY <1>2, <1>3 DEF VfsInv, VfsTypes
  <2>5. \A h \in Handles : handles'[h].used =>
          handles'[h].mount \in DOMAIN mounts' /\ handles'[h].backend \in Opens
    BY <1>2, <1>4, Zenon DEF VfsInv, VfsTypes
  <2> QED BY <2>1, <2>3, <2>4, <2>5, Zenon DEF VfsInv, VfsTypes
\* The slot was nobody's, because every handle in use owned an open one.
<1>8. \A h \in Handles \ {k} : handles[h].used => ~(Behind(h) = f /\ Backend(h) = done.out)
  BY <1>2, Zenon DEF VfsInv, HandlesOwnOpenFiles
<1>9. ASSUME NEW h \in Handles, handles'[h].used
      PROVE  disks'[Behind(h)'].open[Backend(h)'].used
  <2>1. CASE h = k BY <1>1, <1>2, <1>5, <2>1, Zenon
  <2>2. CASE h # k
    <3>1. handles[h].used BY <1>4, <1>9, <2>2
    <3>2. Behind(h) \in FileSystems /\ Backend(h) \in Opens BY <3>1, BehindType DEF VfsInv
    <3>3. disks[Behind(h)].open[Backend(h)].used BY <3>1, Zenon DEF VfsInv, HandlesOwnOpenFiles
    <3>4. disks'[Behind(h)].open[Backend(h)].used BY <1>1, <1>2, <3>2, <3>3
    <3> QED BY <1>6, <2>2, <3>4, Zenon
  <2> QED BY <2>1, <2>2, Zenon
<1>10. ASSUME NEW g \in Handles, NEW h \in Handles, handles'[g].used, handles'[h].used,
              Behind(g)' = Behind(h)', Backend(g)' = Backend(h)'
       PROVE  g = h
  <2>1. CASE g = k /\ h # k BY <1>4, <1>5, <1>6, <1>8, <1>10, <2>1
  <2>2. CASE g # k /\ h = k BY <1>4, <1>5, <1>6, <1>8, <1>10, <2>2
  <2>3. CASE g # k /\ h # k
    BY <1>4, <1>6, <1>10, <2>3 DEF VfsInv, HandlesOwnOpenFiles
  <2> QED BY <2>1, <2>2, <2>3
<1>11. ASSUME NEW g \in FileSystems, NEW o \in Opens, disks'[g].open[o].used
       PROVE  \E h \in Handles : handles'[h].used /\ Behind(h)' = g /\ Backend(h)' = o
  <2>1. CASE g = f /\ o = done.out BY <1>5, <2>1
  <2>2. CASE ~(g = f /\ o = done.out)
    <3>1. disks[g].open[o].used BY <1>1, <1>2, <1>11, <2>2
    <3>2. PICK h \in Handles : handles[h].used /\ Behind(h) = g /\ Backend(h) = o
      BY <3>1 DEF VfsInv, HandlesOwnOpenFiles
    <3>3. h # k BY <3>2
    <3> QED BY <1>4, <1>6, <3>2, <3>3
  <2> QED BY <2>1, <2>2
<1>12. HandlesOwnOpenFiles' BY <1>9, <1>10, <1>11, Zenon DEF HandlesOwnOpenFiles
<1> QED BY <1>7, <1>12 DEF VfsInv

\* vfs_close gives back the handle and its slot together.
LEMMA CloseKeeps == ASSUME VfsInv, NEW k \in Handles, VfsClose(k) PROVE VfsInv'
<1> DEFINE f == Behind(k)
           b == Backend(k)
           gs == OpClose(disks[f], b).fs
<1>0. handles[k].used /\ mounts' = mounts /\ handles' = [handles EXCEPT ![k] = NoHandle]
  BY DEF VfsClose
<1>1. f \in FileSystems /\ b \in Opens /\ disks[f].open[b].used /\ FsOK(disks[f])
  BY <1>0, BehindType, Zenon DEF VfsInv, HandlesOwnOpenFiles, VfsTypes
<1>2. /\ FsOK(gs) /\ ~gs.open[b].used
      /\ \A o \in Opens \ {b} : gs.open[o].used = disks[f].open[o].used
  BY <1>1, OpCloseOpen, Zenon
<1>3. disks' = [disks EXCEPT ![f] = gs] BY DEF VfsClose
<1> HIDE DEF gs
<1>4. \A g \in FileSystems : disks'[g] = IF g = f THEN gs ELSE disks[g]
  BY <1>3 DEF VfsInv, VfsTypes
<1>5. ~handles'[k].used /\ \A h \in Handles \ {k} : handles'[h] = handles[h]
  BY <1>0 DEF VfsInv, VfsTypes, NoHandle
<1>6. \A h \in Handles \ {k} : Behind(h)' = Behind(h) /\ Backend(h)' = Backend(h)
  BY <1>0, <1>5 DEF Behind, Backend
<1>7. VfsTypes'
  <2>1. DOMAIN disks' = FileSystems /\ disks' = [g \in FileSystems |-> disks'[g]]
    BY <1>3 DEF VfsInv, VfsTypes
  <2>2. \A g \in FileSystems : FsOK(disks'[g]) BY <1>2, <1>4 DEF VfsInv, VfsTypes
  <2>3. \A g \in FileSystems : FsOK(disks[g])' BY <2>2 DEF FsOK
  <2>4. handles' \in [Handles -> [used : BOOLEAN, mount : Nat, backend : Nat]]
    BY <1>0 DEF VfsInv, VfsTypes, NoHandle
  <2>5. \A h \in Handles : handles'[h].used =>
          handles'[h].mount \in DOMAIN mounts' /\ handles'[h].backend \in Opens
    BY <1>0, <1>5 DEF VfsInv, VfsTypes
  <2> QED BY <1>0, <2>1, <2>3, <2>4, <2>5 DEF VfsInv, VfsTypes
\* No other handle owns the slot.
<1>8. \A h \in Handles \ {k} : handles[h].used => ~(Behind(h) = f /\ Backend(h) = b)
  BY <1>0 DEF VfsInv, HandlesOwnOpenFiles
<1>9. ASSUME NEW h \in Handles, handles'[h].used
      PROVE  disks'[Behind(h)'].open[Backend(h)'].used
  <2>1. h # k /\ handles[h].used BY <1>5, <1>9
  <2>2. Behind(h) \in FileSystems /\ Backend(h) \in Opens BY <2>1, BehindType DEF VfsInv
  <2>3. disks[Behind(h)].open[Backend(h)].used BY <2>1 DEF VfsInv, HandlesOwnOpenFiles
  <2>4. disks'[Behind(h)].open[Backend(h)].used BY <1>2, <1>4, <1>8, <2>1, <2>2, <2>3
  <2> QED BY <1>6, <2>1, <2>4
<1>10. ASSUME NEW g \in Handles, NEW h \in Handles, handles'[g].used, handles'[h].used,
              Behind(g)' = Behind(h)', Backend(g)' = Backend(h)'
       PROVE  g = h
  BY <1>5, <1>6, <1>10 DEF VfsInv, HandlesOwnOpenFiles
<1>11. ASSUME NEW g \in FileSystems, NEW o \in Opens, disks'[g].open[o].used
       PROVE  \E h \in Handles : handles'[h].used /\ Behind(h)' = g /\ Backend(h)' = o
  <2>1. ~(g = f /\ o = b) BY <1>2, <1>4, <1>11
  <2>2. disks[g].open[o].used BY <1>2, <1>4, <1>11, <2>1
  <2>3. PICK h \in Handles : handles[h].used /\ Behind(h) = g /\ Backend(h) = o
    BY <2>2 DEF VfsInv, HandlesOwnOpenFiles
  <2>4. h # k BY <2>1, <2>3
  <2> QED BY <1>5, <1>6, <2>3, <2>4
<1>12. HandlesOwnOpenFiles' BY <1>9, <1>10, <1>11 DEF HandlesOwnOpenFiles
<1> QED BY <1>7, <1>12 DEF VfsInv

\* Freshly initialised file systems have no open file.
LEMMA InitVfs == Init => VfsInv
<1> SUFFICES ASSUME Init PROVE VfsInv OBVIOUS
<1>1. FsOK(EmptyFs) /\ \A o \in Opens : ~EmptyFs.open[o].used
  BY Zenon DEF EmptyFs, FsOK, Closed
<1>2. \A f \in FileSystems : disks[f] = EmptyFs BY DEF Init
<1>3. \A h \in Handles : ~handles[h].used BY DEF Init, NoHandle
<1>4. mounts \in Seq([path : AllMountPoints, context : FileSystems]) BY DEF Init
<1>5. handles \in [Handles -> [used : BOOLEAN, mount : Nat, backend : Nat]]
  BY DEF Init, NoHandle
<1>6. DOMAIN disks = FileSystems /\ disks = [f \in FileSystems |-> disks[f]] BY DEF Init
<1>7. VfsTypes BY <1>1, <1>2, <1>3, <1>4, <1>5, <1>6 DEF VfsTypes
<1>8. HandlesOwnOpenFiles BY <1>1, <1>2, <1>3 DEF HandlesOwnOpenFiles
<1> QED BY <1>7, <1>8 DEF VfsInv

-----------------------------------------------------------------------------
\* What a directory entry holds, or nothing.
ValueAt(fs, parent, name) ==
  LET n == ChildNamed(fs, parent, name)
  IN  IF n = None THEN <<>> ELSE SubSeq(fs.nodes[n].data, 1, fs.nodes[n].size)

\* The nodes of a file system whose directories are dirs: the others are files
\* that everybody may read and write.
NodesOK(fs, dirs) ==
  \A i \in NodeIds :
    /\ DOMAIN fs.nodes[i] = {"used", "parent", "type", "permissions", "size", "name", "data"}
    /\ fs.nodes[i].used \in BOOLEAN
    /\ fs.nodes[i].size \in 0..Capacity
    /\ fs.nodes[i].data \in [1..Capacity -> Nat]
    /\ i \in dirs => fs.nodes[i].used /\ fs.nodes[i].type = "DIRECTORY"
    /\ fs.nodes[i].used /\ i \notin dirs =>
         fs.nodes[i].type = "FILE" /\ fs.nodes[i].permissions = ReadWrite

\* From fs to gs every entry stays where it is and every value but one stays the same.
KeepsOthers(fs, gs, dir, name) ==
  /\ \A p, q : ChildNamed(fs, p, q) # None => ChildNamed(gs, p, q) = ChildNamed(fs, p, q)
  /\ \A p, q : p # dir \/ q # name => ValueAt(gs, p, q) = ValueAt(fs, p, q)

\* The nodes keep their names and places.
SameTree(fs, gs) ==
  \A i \in NodeIds : /\ gs.nodes[i].used = fs.nodes[i].used
                     /\ gs.nodes[i].parent = fs.nodes[i].parent
                     /\ gs.nodes[i].name = fs.nodes[i].name

\* gs is fs with a new node of the given place.
Added(fs, gs, n, parent, name) ==
  /\ n \in NodeIds \ {0} /\ ~fs.nodes[n].used
  /\ name # BadName /\ ChildNamed(fs, parent, name) = None
  /\ gs.nodes = [fs.nodes EXCEPT ![n] = Node(parent, "FILE", ReadWrite, name)]

\* gs is fs with another size and other bytes in node n.
Changed(fs, gs, n, size, data) ==
  /\ n # None /\ size \in 0..Capacity /\ data \in [1..Capacity -> Nat]
  /\ \A i \in NodeIds \ {n} : gs.nodes[i] = fs.nodes[i]
  /\ gs.nodes[n] = [fs.nodes[n] EXCEPT !.size = size, !.data = data]

\* gs is fs with bytes written at the end of node n.
WritesAtEnd(fs, gs, n, bytes) ==
  /\ n # None /\ bytes \in Seq(Nat) /\ fs.nodes[n].size + Len(bytes) <= Capacity
  /\ gs.nodes = Overwritten(fs.nodes, n, fs.nodes[n].size, bytes)

\* From fs to gs the bytes are added to one value and the others stay.
AddsTo(fs, gs, dirs, dir, name, bytes) ==
  /\ NodesOK(gs, dirs) /\ KeepsOthers(fs, gs, dir, name)
  /\ ValueAt(gs, dir, name) = ValueAt(fs, dir, name) \o bytes

\* From fs to gs every entry and every value stays.
Still(fs, gs) ==
  /\ \A p, q : ChildNamed(fs, p, q) # None => ChildNamed(gs, p, q) = ChildNamed(fs, p, q)
  /\ \A p, q : ValueAt(gs, p, q) = ValueAt(fs, p, q)

-----------------------------------------------------------------------------
INSTANCE WellFoundedInduction

\* Min of a set of naturals is one of its elements.
LEMMA MinIsMember ==
  ASSUME NEW S \in SUBSET Nat, S # {}
  PROVE  Min(S) \in S /\ \A y \in S : Min(S) <= y
<1> DEFINE R == OpToRel(<, Nat)
<1>1. IsWellFoundedOn(R, Nat) BY NatLessThanWellFounded, Zenon
<1>2. \A x, y \in Nat : x < y => <<x, y>> \in R BY DEF OpToRel
<1> HIDE DEF R
<1>3. PICK x \in S : \A y \in S : ~(<<y, x>> \in R) BY <1>1, WFMin, Zenon
<1>4. ASSUME NEW y \in S PROVE ~(y < x)
  <2>1. x \in Nat /\ y \in Nat OBVIOUS
  <2>2. ~(<<y, x>> \in R) BY <1>3
  <2> QED BY <1>2, <2>1, <2>2, Zenon
<1>5. \A y \in S : x <= y BY <1>4, SMT
<1>6. \E z \in S : \A y \in S : z <= y BY <1>5
<1> QED BY <1>6, Zenon DEF Min

\* What child_named has found.
LEMMA ChildNamedFacts ==
  ASSUME NEW fs, NEW parent, NEW name
  PROVE  LET n == ChildNamed(fs, parent, name)
         IN  /\ n # None => /\ n \in NodeIds \ {0} /\ name # BadName
                            /\ fs.nodes[n].used /\ fs.nodes[n].parent = parent
                            /\ fs.nodes[n].name = name
             /\ n = None /\ name # BadName =>
                  \A i \in NodeIds \ {0} : ~(/\ fs.nodes[i].used /\ fs.nodes[i].parent = parent
                                             /\ fs.nodes[i].name = name)
<1> DEFINE found == {i \in NodeIds \ {0} : /\ fs.nodes[i].used
                                           /\ fs.nodes[i].parent = parent
                                           /\ fs.nodes[i].name = name}
<1>1. ChildNamed(fs, parent, name) = IF name = BadName \/ found = {} THEN None ELSE Min(found)
  BY DEF ChildNamed
<1>2. found # {} => Min(found) \in found
  <2>1. found \in SUBSET Nat OBVIOUS
  <2> HIDE DEF found
  <2> QED BY <2>1, MinIsMember
<1>3. found # {} => Min(found) # None
  <2>1. found \subseteq Nat OBVIOUS
  <2> HIDE DEF found
  <2> QED BY ONLY <1>2, <2>1 DEF None
<1> QED BY <1>1, <1>2, <1>3, Zenon

LEMMA SameTreeChildNamed ==
  ASSUME NEW fs, NEW gs, SameTree(fs, gs), NEW parent, NEW name
  PROVE  ChildNamed(gs, parent, name) = ChildNamed(fs, parent, name)
<1> DEFINE found(hs) == {i \in NodeIds \ {0} : /\ hs.nodes[i].used
                                               /\ hs.nodes[i].parent = parent
                                               /\ hs.nodes[i].name = name}
<1>1. found(gs) = found(fs) BY DEF SameTree
<1> QED BY <1>1, Zenon DEF ChildNamed

\* A new node is found under its name, and nothing else is found elsewhere.
LEMMA AddedChildNamed ==
  ASSUME NEW fs, FsOK(fs), NEW gs, NEW n, NEW at, NEW new, Added(fs, gs, n, at, new),
         NEW parent, NEW name
  PROVE  ChildNamed(gs, parent, name) =
           IF parent = at /\ name = new THEN n ELSE ChildNamed(fs, parent, name)
<1> DEFINE found(hs) == {i \in NodeIds \ {0} : /\ hs.nodes[i].used
                                               /\ hs.nodes[i].parent = parent
                                               /\ hs.nodes[i].name = name}
<1>1. n \in NodeIds \ {0} /\ ~fs.nodes[n].used /\ new # BadName BY DEF Added
<1>2. gs.nodes[n].used /\ gs.nodes[n].parent = at /\ gs.nodes[n].name = new
  <2>1. gs.nodes[n] = Node(at, "FILE", ReadWrite, new) BY DEF Added, FsOK
  <2> QED BY <2>1 DEF Node
<1>3. \A i \in NodeIds \ {n} : gs.nodes[i] = fs.nodes[i] BY DEF Added, FsOK
<1>4. CASE parent = at /\ name = new
  <2>1. \A i \in NodeIds \ {0} : ~(/\ fs.nodes[i].used /\ fs.nodes[i].parent = parent
                                    /\ fs.nodes[i].name = name)
    BY <1>4, ChildNamedFacts DEF Added
  <2>2. found(gs) = {n} BY <1>1, <1>2, <1>3, <1>4, <2>1
  <2>3. Min({n}) = n
    <3>1. {n} \in SUBSET Nat BY <1>1
    <3> QED BY <3>1, MinIsMember
  <2> QED BY <1>1, <1>4, <2>2, <2>3, Zenon DEF ChildNamed
<1>5. CASE ~(parent = at /\ name = new)
  <2>1. found(gs) = found(fs) BY <1>1, <1>2, <1>3, <1>5
  <2> QED BY <1>5, <2>1, Zenon DEF ChildNamed
<1> QED BY <1>4, <1>5

\* Another size and other bytes in one file are another value of one entry.
LEMMA ChangedKeeps ==
  ASSUME NEW fs, NEW gs, NEW dirs, NodesOK(fs, dirs), NEW dir, NEW name, NEW size, NEW data,
         Changed(fs, gs, ChildNamed(fs, dir, name), size, data)
  PROVE  /\ NodesOK(gs, dirs)
         /\ KeepsOthers(fs, gs, dir, name)
         /\ ChildNamed(gs, dir, name) = ChildNamed(fs, dir, name)
         /\ ValueAt(gs, dir, name) = SubSeq(data, 1, size)
<1> DEFINE n == ChildNamed(fs, dir, name)
<1>1. n \in NodeIds /\ fs.nodes[n].parent = dir /\ fs.nodes[n].name = name
  BY ChildNamedFacts DEF Changed
<1>2. DOMAIN fs.nodes[n] = {"used", "parent", "type", "permissions", "size", "name", "data"}
  BY <1>1, Zenon DEF NodesOK
<1>3. /\ DOMAIN gs.nodes[n] = DOMAIN fs.nodes[n]
      /\ gs.nodes[n].used = fs.nodes[n].used /\ gs.nodes[n].parent = fs.nodes[n].parent
      /\ gs.nodes[n].type = fs.nodes[n].type /\ gs.nodes[n].name = fs.nodes[n].name
      /\ gs.nodes[n].permissions = fs.nodes[n].permissions
      /\ gs.nodes[n].size = size /\ gs.nodes[n].data = data
  BY <1>2 DEF Changed
<1>4. NodesOK(gs, dirs)
  <2> SUFFICES ASSUME NEW i \in NodeIds
               PROVE  /\ DOMAIN gs.nodes[i] =
                           {"used", "parent", "type", "permissions", "size", "name", "data"}
                      /\ gs.nodes[i].used \in BOOLEAN
                      /\ gs.nodes[i].size \in 0..Capacity
                      /\ gs.nodes[i].data \in [1..Capacity -> Nat]
                      /\ i \in dirs => gs.nodes[i].used /\ gs.nodes[i].type = "DIRECTORY"
                      /\ gs.nodes[i].used /\ i \notin dirs =>
                           gs.nodes[i].type = "FILE" /\ gs.nodes[i].permissions = ReadWrite
    BY Zenon DEF NodesOK
  <2>1. CASE i = n BY <1>3, <2>1, Zenon DEF NodesOK, Changed
  <2>2. CASE i # n BY <2>2, Zenon DEF NodesOK, Changed
  <2> QED BY <2>1, <2>2, Zenon
<1>5. SameTree(fs, gs) BY <1>3, Zenon DEF SameTree, Changed
<1>6. \A p, q : ChildNamed(gs, p, q) = ChildNamed(fs, p, q) BY <1>5, SameTreeChildNamed
<1>7. ASSUME NEW p, NEW q, p # dir \/ q # name PROVE ValueAt(gs, p, q) = ValueAt(fs, p, q)
  <2>1. CASE ChildNamed(fs, p, q) = None BY <1>6, <2>1 DEF ValueAt
  <2>2. CASE ChildNamed(fs, p, q) # None
    <3> DEFINE m == ChildNamed(fs, p, q)
    <3>1. m \in NodeIds /\ fs.nodes[m].parent = p /\ fs.nodes[m].name = q
      BY <2>2, ChildNamedFacts
    <3>2. m # n BY <1>1, <1>7, <3>1
    <3>3. gs.nodes[m] = fs.nodes[m] BY <3>1, <3>2 DEF Changed
    <3> QED BY <1>6, <2>2, <3>3, Zenon DEF ValueAt
  <2> QED BY <2>1, <2>2
<1>8. KeepsOthers(fs, gs, dir, name) BY <1>6, <1>7 DEF KeepsOthers
<1>9. ValueAt(gs, dir, name) = SubSeq(data, 1, size)
  <2>1. ValueAt(gs, dir, name) = SubSeq(gs.nodes[n].data, 1, gs.nodes[n].size)
    <3>1. ChildNamed(gs, dir, name) = n BY <1>6
    <3> QED BY <3>1, Zenon DEF ValueAt, Changed
  <2> QED BY <1>3, <2>1, Zenon
<1> QED BY <1>4, <1>6, <1>8, <1>9

\* The open file and the nodes after op_open has found or made node n.
LEMMA OpenNodeDetail ==
  ASSUME NEW fs, FsOK(fs), NEW n \in NodeIds, NEW flags,
         fs.nodes[n].type = "FILE", fs.nodes[n].permissions = ReadWrite,
         \E o \in Opens : ~fs.open[o].used
  PROVE  LET done == OpenNode(fs, n, flags)
         IN  /\ done.status = "OK" /\ done.out \in Opens
             /\ done.fs.open[done.out] =
                  [used |-> TRUE, node |-> n, flags |-> flags, offset |-> 0]
             /\ done.fs.nodes = IF {"TRUNC", "WRITE"} \subseteq flags
                                THEN CutOff(fs.nodes, n) ELSE fs.nodes
<1> DEFINE free == {h \in Opens : ~fs.open[h].used}
           cut  == IF {"TRUNC", "WRITE"} \subseteq flags
                   THEN [fs EXCEPT !.nodes[n].size = 0] ELSE fs
           new  == [used |-> TRUE, node |-> n, flags |-> flags, offset |-> 0]
<1>1. OpenNode(fs, n, flags) = Result("OK", [cut EXCEPT !.open[Min(free)] = new], Min(free))
  <2>1. free # {} OBVIOUS
  <2>2. (flags \cap {"READ", "WRITE"}) \ fs.nodes[n].permissions = {} BY DEF ReadWrite
  <2> QED BY <2>1, <2>2 DEF OpenNode
<1>2. Min(free) \in Opens
  <2>1. free \in SUBSET Nat /\ free # {} OBVIOUS
  <2>2. Min(free) \in free BY <2>1, MinIsMember
  <2> QED BY <2>2
<1> HIDE DEF free, new
<1>3. /\ DOMAIN cut = {"nodes", "open"} /\ cut.open = fs.open
      /\ cut.nodes = IF {"TRUNC", "WRITE"} \subseteq flags
                     THEN CutOff(fs.nodes, n) ELSE fs.nodes
  BY DEF FsOK, CutOff
<1> HIDE DEF cut
<1>4. [cut EXCEPT !.open[Min(free)] = new].nodes = cut.nodes BY <1>3
<1>5. [cut EXCEPT !.open[Min(free)] = new].open[Min(free)] = new BY <1>2, <1>3 DEF FsOK
<1> DEFINE done == OpenNode(fs, n, flags)
<1>6. /\ done.status = "OK" /\ done.out = Min(free)
      /\ done.fs = [cut EXCEPT !.open[Min(free)] = new]
  BY <1>1 DEF Result
<1> HIDE DEF done
<1>7. done.out \in Opens /\ done.fs.open[done.out] = new /\ done.fs.nodes = cut.nodes
  BY <1>2, <1>4, <1>5, <1>6
<1> QED BY <1>3, <1>6, <1>7 DEF done, new

\* What create_node has made under a path.
LEMMA CreateNodeAdded ==
  ASSUME NEW fs, FsOK(fs), NEW path, CreateNode(fs, path, "FILE", ReadWrite).status = "OK"
  PROVE  LET made == CreateNode(fs, path, "FILE", ReadWrite)
         IN  Added(fs, made.fs, made.out, ResolveParent(fs, path), LastName(path))
<1> DEFINE parent == ResolveParent(fs, path)
           free == {i \in NodeIds \ {0} : ~fs.nodes[i].used}
           made == CreateNode(fs, path, "FILE", ReadWrite)
           new == Node(parent, "FILE", ReadWrite, LastName(path))
<1>1. /\ parent # None /\ ChildNamed(fs, parent, LastName(path)) = None /\ free # {}
      /\ made.out = Min(free) /\ made.fs = [fs EXCEPT !.nodes[Min(free)] = new]
  BY DEF CreateNode, Result
<1>2. Min(free) \in free
  <2>1. free \in SUBSET Nat OBVIOUS
  <2> QED BY <1>1, <2>1, MinIsMember
<1>3. LastName(path) # BadName BY <1>1, Zenon DEF ResolveParent
<1> HIDE DEF new, parent, made
<1>4. made.fs.nodes = [fs.nodes EXCEPT ![Min(free)] = new] BY <1>1 DEF FsOK
<1>5. Added(fs, made.fs, made.out, parent, LastName(path)) BY <1>1, <1>2, <1>3, <1>4, Zenon DEF Added, new
<1> QED BY <1>5 DEF made, parent

\* create_node leaves the open files alone.
LEMMA CreateNodeOpen ==
  ASSUME NEW fs, FsOK(fs), NEW path, NEW type, NEW perms
  PROVE  MakesNode(fs, CreateNode(fs, path, type, perms), type, perms)
<1> DEFINE free == {i \in NodeIds \ {0} : ~fs.nodes[i].used}
           made == CreateNode(fs, path, type, perms)
           new(n) == Node(ResolveParent(fs, path), type, perms, LastName(path))
<1>1. \/ made.fs = fs /\ made.status # "OK"
      \/ /\ free # {} /\ made.status = "OK" /\ made.out = Min(free)
         /\ made.fs = [fs EXCEPT !.nodes[Min(free)] = new(0)]
  BY DEF CreateNode, Result
<1>2. CASE made.fs = fs /\ made.status # "OK" BY <1>2, Zenon DEF MakesNode, SameOpen
<1>3. CASE /\ free # {} /\ made.status = "OK" /\ made.out = Min(free)
           /\ made.fs = [fs EXCEPT !.nodes[Min(free)] = new(0)]
  <2>1. Min(free) \in free
    <3>1. free \in SUBSET Nat OBVIOUS
    <3> QED BY <1>3, <3>1, MinIsMember
  <2>2. Min(free) \in NodeIds BY <2>1
  <2>3. new(0).type = type /\ new(0).permissions = perms BY DEF Node
  <2> HIDE DEF new, free
  <2>4. FsOK(made.fs) BY <1>3 DEF FsOK
  <2>5. SameOpen(fs, made.fs) BY <1>3 DEF FsOK, SameOpen
  <2>6. made.fs.nodes[Min(free)] = new(0) BY <1>3, <2>2 DEF FsOK
  <2> QED BY <1>3, <2>2, <2>3, <2>4, <2>5, <2>6 DEF MakesNode
<1> QED BY <1>1, <1>2, <1>3

\* The end of op_open takes a free slot or changes nothing.
LEMMA OpenNodeOpen ==
  ASSUME NEW fs, FsOK(fs), NEW n, NEW flags
  PROVE  /\ TakesSlot(fs, OpenNode(fs, n, flags))
         /\ OpenNode(fs, n, flags).status # "OK" => OpenNode(fs, n, flags).fs = fs
<1> DEFINE done == OpenNode(fs, n, flags)
           free == {h \in Opens : ~fs.open[h].used}
           cut  == IF {"TRUNC", "WRITE"} \subseteq flags
                   THEN [fs EXCEPT !.nodes[n].size = 0] ELSE fs
           new  == [used |-> TRUE, node |-> n, flags |-> flags, offset |-> 0]
<1>1. \/ done.fs = fs /\ done.status # "OK"
      \/ /\ free # {} /\ done.status = "OK" /\ done.out = Min(free)
         /\ done.fs = [cut EXCEPT !.open[Min(free)] = new]
  BY Zenon DEF OpenNode, Result
<1>2. CASE done.fs = fs /\ done.status # "OK" BY <1>2 DEF TakesSlot, SameOpen
<1>3. CASE /\ free # {} /\ done.status = "OK" /\ done.out = Min(free)
           /\ done.fs = [cut EXCEPT !.open[Min(free)] = new]
  <2>1. Min(free) \in free
    <3>1. free \in SUBSET Nat OBVIOUS
    <3> QED BY <1>3, <3>1, MinIsMember, Zenon
  <2>2. Min(free) \in Opens /\ ~fs.open[Min(free)].used BY <2>1
  <2>3. DOMAIN new = {"used", "node", "flags", "offset"} /\ new.used = TRUE OBVIOUS
  <2> HIDE DEF new, free
  <2>4. DOMAIN cut = {"nodes", "open"} /\ DOMAIN cut.nodes = NodeIds /\ cut.open = fs.open
    BY DEF FsOK
  <2> HIDE DEF cut
  <2>5. /\ DOMAIN done.fs = {"nodes", "open"} /\ done.fs.nodes = cut.nodes
        /\ done.fs.open = [fs.open EXCEPT ![Min(free)] = new]
    BY <1>3, <2>4
  <2>6. DOMAIN done.fs.open = Opens BY <2>5 DEF FsOK
  <2>7. done.fs.open[Min(free)] = new BY <2>2, <2>5 DEF FsOK
  <2>8. \A o \in Opens \ {Min(free)} : done.fs.open[o] = fs.open[o] BY <2>5 DEF FsOK
  <2>9. ASSUME NEW o \in Opens
        PROVE  /\ DOMAIN done.fs.open[o] = {"used", "node", "flags", "offset"}
               /\ done.fs.open[o].used \in BOOLEAN
    <3>1. CASE o = Min(free) BY <2>3, <2>7, <3>1, Zenon
    <3>2. CASE o # Min(free) BY <2>8, <3>2 DEF FsOK
    <3> QED BY <3>1, <3>2, Zenon
  <2>10. FsOK(done.fs) BY <2>4, <2>5, <2>6, <2>9 DEF FsOK
  <2> QED BY <1>3, <2>2, <2>3, <2>7, <2>8, <2>10, Zenon DEF TakesSlot
<1> QED BY <1>1, <1>2, <1>3, Zenon

\* op_open takes a free slot or leaves the open files alone.
LEMMA OpOpenOpen ==
  ASSUME NEW fs, FsOK(fs), NEW path, NEW flags
  PROVE  TakesSlot(fs, OpOpen(fs, path, flags))
<1> DEFINE done == OpOpen(fs, path, flags)
           n    == ResolveNode(fs, path)
           made == IF n = None /\ "CREATE" \in flags
                   THEN CreateNode(fs, path, "FILE", {"READ", "WRITE"})
                   ELSE Result("OK", fs, n)
<1>1. FsOK(made.fs) /\ SameOpen(fs, made.fs) /\ (made.status # "OK" => made.fs = fs)
  <2>1. CASE n = None /\ "CREATE" \in flags BY <2>1, CreateNodeOpen DEF MakesNode
  <2>2. CASE ~(n = None /\ "CREATE" \in flags) BY <2>2 DEF Result, SameOpen
  <2> QED BY <2>1, <2>2, Zenon
<1>2. done = IF made.status # "OK" THEN made
             ELSE IF made.out = None THEN Result("NOT_FOUND", fs, None)
             ELSE OpenNode(made.fs, made.out, flags)
  BY DEF OpOpen
<1> HIDE DEF made
<1>3. CASE made.status # "OK" BY <1>1, <1>2, <1>3, Zenon DEF TakesSlot
<1>4. CASE made.status = "OK" /\ made.out = None
  BY <1>2, <1>4 DEF Result, SameOpen, TakesSlot
<1>5. CASE made.status = "OK" /\ made.out # None
  <2>1. done = OpenNode(made.fs, made.out, flags) BY <1>2, <1>5
  <2>2. TakesSlot(made.fs, done) BY <1>1, <2>1, OpenNodeOpen
  <2> HIDE DEF done
  <2>3. done.status # "OK" => SameOpen(fs, done.fs)
    BY <1>1, <2>2, Zenon DEF SameOpen, TakesSlot
  <2>4. done.status = "OK" =>
          /\ done.out \in Opens /\ ~fs.open[done.out].used
          /\ \A o \in Opens \ {done.out} : done.fs.open[o].used = fs.open[o].used
    BY <1>1, <2>2, Zenon DEF SameOpen, TakesSlot
  <2>5. TakesSlot(fs, done) BY <2>2, <2>3, <2>4, Zenon DEF TakesSlot
  <2> QED BY <2>5 DEF done
<1> QED BY <1>3, <1>4, <1>5

\* A mount that a path resolves to is in the table.
LEMMA ResolveMountType ==
  ASSUME VfsTypes, NEW path, ResolveMount(path) # 0
  PROVE  ResolveMount(path) \in DOMAIN mounts /\ FsOf(path) \in FileSystems
<1> DEFINE best == {i \in Matches(path) :
                      \A j \in Matches(path) : Len(mounts[j].path) <= Len(mounts[i].path)}
<1>1. best # {} /\ ResolveMount(path) = Min(best) BY DEF ResolveMount
<1>2. DOMAIN mounts = 1..Len(mounts) /\ Len(mounts) \in Nat BY DEF VfsTypes
<1>3. best \subseteq DOMAIN mounts BY DEF Matches
<1> HIDE DEF best
<1>4. best \in SUBSET Nat BY <1>2, <1>3
<1>5. Min(best) \in best BY <1>1, <1>4, MinIsMember
<1>6. ResolveMount(path) \in DOMAIN mounts BY <1>1, <1>3, <1>5
<1>7. mounts[ResolveMount(path)] \in [path : AllMountPoints, context : FileSystems]
  BY <1>6, MountType
<1> QED BY <1>6, <1>7 DEF FsOf

\* An open that fails changes nothing, although op_open makes the file before it
\* looks for a slot, as long as there is a slot whenever there is a handle.
LEMMA OpenFailsClean == ASSUME VfsInv, SlotsSuffice PROVE FailedOpenChangesNothing
<1> SUFFICES ASSUME NEW p \in Paths, NEW fl \in Flags, OpenPasses(p, fl),
                    Opened(p, fl).status # "OK"
             PROVE  Opened(p, fl).fs = disks[FsOf(p)]
  BY DEF FailedOpenChangesNothing
<1> DEFINE fs == disks[FsOf(p)]
           n == ResolveNode(fs, Relative(p))
           made == IF n = None /\ "CREATE" \in fl
                   THEN CreateNode(fs, Relative(p), "FILE", {"READ", "WRITE"})
                   ELSE Result("OK", fs, n)
           done == Opened(p, fl)
<1>1. FsOf(p) \in FileSystems BY ResolveMountType DEF OpenPasses, VfsInv
<1>2. FsOK(fs) BY <1>1 DEF VfsInv, VfsTypes
<1>3. done = IF made.status # "OK" THEN made
             ELSE IF made.out = None THEN Result("NOT_FOUND", fs, None)
             ELSE OpenNode(made.fs, made.out, fl)
  BY Zenon DEF Opened, OpOpen
<1>4. CASE n = None /\ "CREATE" \in fl
  <2>1. MakesNode(fs, made, "FILE", {"READ", "WRITE"})
    <3>1. made = CreateNode(fs, Relative(p), "FILE", {"READ", "WRITE"}) BY <1>4
    <3> QED BY <1>2, <3>1, CreateNodeOpen
  <2> HIDE DEF made
  <2> USE DEF MakesNode
  <2>2. CASE made.status # "OK" BY <1>3, <2>1, <2>2, Zenon
  <2>3. CASE made.status = "OK"
    <3>1. PICK o \in Opens : ~fs.open[o].used BY <1>1 DEF OpenPasses, SlotsSuffice
    <3>2. ~made.fs.open[o].used BY <2>1, <3>1, Zenon DEF SameOpen
    <3>3. made.out # None BY <2>1, <2>3 DEF None
    <3>4. done = OpenNode(made.fs, made.out, fl) BY <1>3, <2>3, <3>3
    <3>5. OpenNode(made.fs, made.out, fl).status = "OK"
      BY <2>1, <2>3, <3>2, Zenon DEF OpenNode, Result
    <3> QED BY <3>4, <3>5
  <2> QED BY <2>2, <2>3, Zenon
<1>5. CASE ~(n = None /\ "CREATE" \in fl)
  <2>1. made.fs = fs /\ made.status = "OK" BY <1>5 DEF Result
  <2> HIDE DEF made
  <2>2. CASE made.out = None BY <1>3, <2>1, <2>2 DEF Result
  <2>3. CASE made.out # None
    <3>1. done = OpenNode(fs, made.out, fl) BY <1>3, <2>1, <2>3
    <3> QED BY <1>2, <3>1, OpenNodeOpen
  <2> QED BY <2>2, <2>3
<1> QED BY <1>4, <1>5

\* vfs_open
LEMMA OpenKeeps == ASSUME VfsInv, NEW path, NEW flags, VfsOpen(path, flags) PROVE VfsInv'
<1> DEFINE done == Opened(path, flags)
           f == FsOf(path)
           k == Min(FreeHandles)
<1>1. ResolveMount(path) \in DOMAIN mounts /\ f \in FileSystems
  BY ResolveMountType DEF VfsInv, VfsOpen, OpenPasses
<1>2. TakesSlot(disks[f], done) BY <1>1, OpOpenOpen DEF Opened, VfsInv, VfsTypes
<1>3. k \in Handles /\ ~handles[k].used
  <2>1. FreeHandles \in SUBSET Nat /\ FreeHandles # {}
    BY DEF FreeHandles, VfsOpen, OpenPasses
  <2>2. k \in FreeHandles BY <2>1, MinIsMember
  <2> QED BY <2>2 DEF FreeHandles
<1>4. mounts[ResolveMount(path)].context = f BY DEF FsOf
<1>5. disks' = [disks EXCEPT ![f] = done.fs] /\ mounts' = mounts BY DEF VfsOpen
<1>6. CASE done.status = "OK"
  <2>1. handles' = [handles EXCEPT ![k] =
                      [used |-> TRUE, mount |-> ResolveMount(path), backend |-> done.out]]
    BY <1>6 DEF VfsOpen
  <2> HIDE DEF done, f, k
  <2> QED BY <1>1, <1>2, <1>3, <1>4, <1>5, <1>6, <2>1, HandOverKeeps, Zenon
<1>7. CASE done.status # "OK"
  <2>1. handles' = handles /\ FsOK(done.fs) /\ SameOpen(disks[f], done.fs)
    BY <1>2, <1>7, Zenon DEF VfsOpen, TakesSlot
  <2> HIDE DEF done, f
  <2> QED BY <1>1, <1>5, <2>1, SameOpenKeeps, Zenon
<1> QED BY <1>6, <1>7

\* VfsInv is inductive.
LEMMA VfsStep == VfsInv /\ [Next]_vars => VfsInv'
<1> SUFFICES ASSUME VfsInv, [Next]_vars PROVE VfsInv' OBVIOUS
<1>1. ASSUME NEW p \in MountPoints, NEW f \in FileSystems, VfsMount(p, f) PROVE VfsInv'
  BY <1>1, MountKeeps
<1>2. ASSUME NEW p \in Paths, NEW r \in Perms, VfsMkdir(p, r) PROVE VfsInv'
  <2> DEFINE gs == OpMkdir(disks[FsOf(p)], Relative(p), r).fs
  <2>1. FsOf(p) \in FileSystems BY <1>2, ResolveMountType DEF VfsMkdir, VfsInv
  <2>2. FsOK(disks[FsOf(p)]) BY <2>1 DEF VfsInv, VfsTypes
  <2>3. FsOK(gs) /\ SameOpen(disks[FsOf(p)], gs) BY <2>2, CreateNodeOpen, Zenon DEF OpMkdir, MakesNode
  <2>4. disks' = [disks EXCEPT ![FsOf(p)] = gs] /\ UNCHANGED <<mounts, handles>>
    BY <1>2 DEF VfsMkdir
  <2> HIDE DEF gs
  <2> QED BY <2>1, <2>3, <2>4, SameOpenKeeps, Zenon
<1>3. ASSUME NEW p \in Paths, NEW fl \in Flags, VfsOpen(p, fl) PROVE VfsInv'
  BY <1>3, OpenKeeps
<1>4. ASSUME NEW f \in FileSystems, NEW p \in Paths, NEW r \in Perms,
             TmpfsSetPermissions(f, p, r)
      PROVE  VfsInv'
  <2> DEFINE gs == SetPermissions(disks[f], p, r).fs
  <2>1. FsOK(disks[f]) BY DEF VfsInv, VfsTypes
  <2>2. FsOK(gs) /\ SameOpen(disks[f], gs) BY <2>1, SetPermissionsOpen
  <2>3. disks' = [disks EXCEPT ![f] = gs] /\ UNCHANGED <<mounts, handles>>
    BY <1>4 DEF TmpfsSetPermissions
  <2> HIDE DEF gs
  <2> QED BY <2>2, <2>3, SameOpenKeeps, Zenon
<1>5. ASSUME NEW h \in Handles, VfsClose(h) PROVE VfsInv' BY <1>5, CloseKeeps
<1>6. ASSUME NEW h \in Handles, handles[h].used
      PROVE  /\ Behind(h) \in FileSystems /\ Backend(h) \in Opens
             /\ FsOK(disks[Behind(h)])
  BY <1>6, BehindType DEF VfsInv, VfsTypes
<1>7. ASSUME NEW h \in Handles, NEW n \in 0..Capacity, VfsRead(h, n) PROVE VfsInv'
  <2> DEFINE gs == OpRead(disks[Behind(h)], Backend(h), n).fs
  <2>1. Behind(h) \in FileSystems /\ FsOK(gs) /\ SameOpen(disks[Behind(h)], gs)
    BY <1>6, <1>7, OpReadOpen DEF VfsRead
  <2>2. disks' = [disks EXCEPT ![Behind(h)] = gs] /\ UNCHANGED <<mounts, handles>>
    BY <1>7 DEF VfsRead
  <2> HIDE DEF gs
  <2> QED BY <2>1, <2>2, SameOpenKeeps, Zenon
<1>8. ASSUME NEW h \in Handles, NEW t \in Texts, VfsWrite(h, t) PROVE VfsInv'
  <2> DEFINE gs == OpWrite(disks[Behind(h)], Backend(h), t).fs
  <2>1. Behind(h) \in FileSystems /\ FsOK(gs) /\ SameOpen(disks[Behind(h)], gs)
    BY <1>6, <1>8, OpWriteOpen DEF VfsWrite
  <2>2. disks' = [disks EXCEPT ![Behind(h)] = gs] /\ UNCHANGED <<mounts, handles>>
    BY <1>8 DEF VfsWrite
  <2> HIDE DEF gs
  <2> QED BY <2>1, <2>2, SameOpenKeeps, Zenon
<1>9. ASSUME NEW h \in Handles, NEW n \in 0..(Capacity + 1), VfsSeek(h, n) PROVE VfsInv'
  <2> DEFINE gs == OpSeek(disks[Behind(h)], Backend(h), n).fs
  <2>1. Behind(h) \in FileSystems /\ FsOK(gs) /\ SameOpen(disks[Behind(h)], gs)
    BY <1>6, <1>9, OpSeekOpen, Zenon DEF VfsSeek
  <2>2. disks' = [disks EXCEPT ![Behind(h)] = gs] /\ UNCHANGED <<mounts, handles>>
    BY <1>9 DEF VfsSeek
  <2> HIDE DEF gs
  <2> QED BY <2>1, <2>2, SameOpenKeeps, Zenon
<1>10. CASE UNCHANGED vars
  <2>1. mounts' = mounts /\ handles' = handles /\ disks' = disks BY <1>10 DEF vars
  <2>2. VfsTypes' BY <2>1 DEF VfsInv, VfsTypes, FsOK
  <2>3. \A h \in Handles : Behind(h)' = Behind(h) /\ Backend(h)' = Backend(h)
    BY <2>1 DEF Behind, Backend
  <2>4. HandlesOwnOpenFiles' BY <2>1, <2>3 DEF VfsInv, HandlesOwnOpenFiles
  <2> QED BY <2>2, <2>4 DEF VfsInv
<1> QED BY <1>1, <1>2, <1>3, <1>4, <1>5, <1>7, <1>8, <1>9, <1>10 DEF Next

\* The handle table and the open files stay in VfsInv.
THEOREM VfsInvariant == Spec => []VfsInv
  BY InitVfs, VfsStep, PTL DEF Spec

\* A handle in use has an open file of its own and an open file has a handle,
\* whatever is mounted where and however many clients open, write and close.
THEOREM HandlesOwnFiles == Spec => []HandlesOwnOpenFiles
<1>1. VfsInv => HandlesOwnOpenFiles BY DEF VfsInv
<1> QED BY <1>1, VfsInvariant, PTL

-----------------------------------------------------------------------------
INSTANCE SequenceTheorems

\* resolve_node on the paths that the services use.
LEMMA ResolveShort ==
  ASSUME NEW fs, NEW a, NEW b
  PROVE  /\ ResolveNode(fs, <<>>) = 0
         /\ ResolveNode(fs, <<a>>) = ChildNamed(fs, 0, a)
         /\ ResolveNode(fs, <<a, b>>) = ChildNamed(fs, ChildNamed(fs, 0, a), b)
<1> DEFINE Step(path, f) ==
             [i \in 0..Len(path) |-> IF i = 0 THEN 0 ELSE ChildNamed(fs, f[i - 1], path[i])]
           At(path) == CHOOSE f : f = Step(path, f)
<1>1. \A path : ResolveNode(fs, path) = At(path)[Len(path)] BY DEF ResolveNode
<1>2. ASSUME NEW path, NEW f, f = Step(path, f) PROVE At(path) = Step(path, At(path))
  BY <1>2, Zenon
<1> HIDE DEF At
<1>3. ResolveNode(fs, <<>>) = 0
  <2>1. ASSUME NEW e, e = <<>> PROVE ResolveNode(fs, e) = 0
    <3> DEFINE f == [i \in 0..0 |-> 0]
    <3>1. Len(e) = 0 BY <2>1
    <3>2. f = Step(e, f) BY <3>1
    <3>3. At(e) = Step(e, At(e))
      <4> HIDE DEF f
      <4> QED BY <1>2, <3>2
    <3>4. At(e)[0] = 0 BY <3>1, <3>3
    <3> QED BY <1>1, <3>1, <3>4
  <2> QED BY <2>1
<1>4. ResolveNode(fs, <<a>>) = ChildNamed(fs, 0, a)
  <2>1. ASSUME NEW e, e = <<a>> PROVE ResolveNode(fs, e) = ChildNamed(fs, 0, a)
    <3> DEFINE f == [i \in 0..1 |-> IF i = 0 THEN 0 ELSE ChildNamed(fs, 0, a)]
    <3>1. Len(e) = 1 /\ e[1] = a BY <2>1
    <3>2. f = Step(e, f) BY <3>1
    <3>3. At(e) = Step(e, At(e))
      <4> HIDE DEF f
      <4> QED BY <1>2, <3>2
    <3>4. At(e)[0] = 0 BY <3>1, <3>3
    <3>5. At(e)[1] = ChildNamed(fs, At(e)[0], a) BY <3>1, <3>3
    <3> QED BY <1>1, <3>1, <3>4, <3>5, Zenon
  <2> QED BY <2>1
<1>5. ResolveNode(fs, <<a, b>>) = ChildNamed(fs, ChildNamed(fs, 0, a), b)
  <2>1. ASSUME NEW e, e = <<a, b>>
        PROVE  ResolveNode(fs, e) = ChildNamed(fs, ChildNamed(fs, 0, a), b)
    <3> DEFINE f == [i \in 0..2 |-> IF i = 0 THEN 0 ELSE IF i = 1 THEN ChildNamed(fs, 0, a)
                                    ELSE ChildNamed(fs, ChildNamed(fs, 0, a), b)]
    <3>1. Len(e) = 2 /\ e[1] = a /\ e[2] = b BY <2>1
    <3>2. f = Step(e, f) BY <3>1
    <3>3. At(e) = Step(e, At(e))
      <4> HIDE DEF f
      <4> QED BY <1>2, <3>2
    <3>4. At(e)[0] = 0 BY <3>1, <3>3
    <3>5. At(e)[1] = ChildNamed(fs, At(e)[0], a) BY <3>1, <3>3
    <3>6. At(e)[2] = ChildNamed(fs, At(e)[1], b) BY <3>1, <3>3
    <3> QED BY <1>1, <3>1, <3>4, <3>5, <3>6, Zenon
  <2> QED BY <2>1
<1> QED BY <1>3, <1>4, <1>5

\* The names of a path, one by one.
LEMMA FirstOfTwo ==
  ASSUME NEW a, NEW b
  PROVE  /\ SubSeq(<<a, b>>, 1, 1) = <<a>> /\ SubSeq(<<a, b>>, 2, 2) = <<b>>
         /\ SubSeq(<<a>>, 1, 1) = <<a>>
<1> DEFINE e == <<a, b>>
           t == SubSeq(e, 1, 1)
           u == SubSeq(e, 2, 2)
           c == <<a>>
           v == SubSeq(c, 1, 1)
<1>1. e[1] = a /\ e[2] = b /\ c[1] = a OBVIOUS
<1> HIDE DEF e, c
<1>2. t \in Seq({a}) /\ Len(t) = 1 /\ t[1] = a BY <1>1, SubSeqProperties
<1>3. u \in Seq({b}) /\ Len(u) = 1 /\ u[1] = b BY <1>1, SubSeqProperties
<1>4. v \in Seq({a}) /\ Len(v) = 1 /\ v[1] = a BY <1>1, SubSeqProperties
<1> HIDE DEF t, u, v
<1>5. t = <<a>> BY <1>2
<1>6. u = <<b>> BY <1>3
<1>7. v = <<a>> BY <1>4
<1> QED BY <1>5, <1>6, <1>7 DEF t, u, v, e, c

\* resolve_parent on these paths.
LEMMA ParentOfOne ==
  ASSUME NEW fs, NEW a, a # BadName, fs.nodes[0].type = "DIRECTORY"
  PROVE  ResolveParent(fs, <<a>>) = 0 /\ LastName(<<a>>) = a
<1>1. ParentPath(<<a>>) = <<>> /\ LastName(<<a>>) = a /\ <<a>> # <<>> BY DEF ParentPath, LastName
<1>2. 0 # None BY DEF None
<1> QED BY <1>1, <1>2, ResolveShort, Zenon DEF ResolveParent

LEMMA ParentOfTwo ==
  ASSUME NEW fs, NEW a, NEW b, b # BadName, NEW dir \in NodeIds,
         ChildNamed(fs, 0, a) = dir, fs.nodes[dir].type = "DIRECTORY"
  PROVE  ResolveParent(fs, <<a, b>>) = dir /\ LastName(<<a, b>>) = b
<1>1. ParentPath(<<a, b>>) = <<a>> /\ LastName(<<a, b>>) = b /\ <<a, b>> # <<>>
  <2>1. Len(<<a, b>>) = 2 /\ <<a, b>>[2] = b /\ <<a, b>> # <<>> OBVIOUS
  <2>2. SubSeq(<<a, b>>, 1, 1) = <<a>> BY FirstOfTwo, Zenon
  <2> QED BY <2>1, <2>2 DEF ParentPath, LastName
<1>2. dir # None BY DEF None
<1> QED BY <1>1, <1>2, ResolveShort, Zenon DEF ResolveParent

\* An empty sequence is what is read of a file without bytes.
LEMMA EmptyValue == ASSUME NEW data PROVE SubSeq(data, 1, 0) = <<>>
<1>1. SubSeq(data, 1, 0) \in Seq(Nat) /\ Len(SubSeq(data, 1, 0)) = 0 BY SubSeqProperties
<1> QED BY <1>1, EmptySeq

\* A new file reads as the file that was not there.
LEMMA AddedKeeps ==
  ASSUME NEW fs, FsOK(fs), NEW gs, NEW n, NEW dir, NEW name, Added(fs, gs, n, dir, name),
         NEW dirs, NodesOK(fs, dirs)
  PROVE  /\ NodesOK(gs, dirs)
         /\ KeepsOthers(fs, gs, dir, name)
         /\ ValueAt(fs, dir, name) = <<>> /\ ValueAt(gs, dir, name) = <<>>
         /\ ChildNamed(gs, dir, name) = n /\ gs.nodes[n].size = 0
         /\ gs.nodes[n].type = "FILE" /\ gs.nodes[n].permissions = ReadWrite
<1>1. gs.nodes = [fs.nodes EXCEPT ![n] = Node(dir, "FILE", ReadWrite, name)] BY DEF Added
<1>2. n \in NodeIds \ {0} /\ ~fs.nodes[n].used BY Zenon DEF Added
<1>3. n \notin dirs BY <1>2, Zenon DEF NodesOK
<1>4. gs.nodes[n] = Node(dir, "FILE", ReadWrite, name) BY <1>1, <1>2, Zenon DEF FsOK
<1>5. \A i \in NodeIds \ {n} : gs.nodes[i] = fs.nodes[i] BY <1>1 DEF FsOK
<1>6. /\ DOMAIN gs.nodes[n] = {"used", "parent", "type", "permissions", "size", "name", "data"}
      /\ gs.nodes[n].used = TRUE /\ gs.nodes[n].size = 0 /\ gs.nodes[n].data = Blank
      /\ gs.nodes[n].type = "FILE" /\ gs.nodes[n].permissions = ReadWrite
  BY <1>4 DEF Node
<1>7. Blank \in [1..Capacity -> Nat] BY DEF Blank
<1>8. NodesOK(gs, dirs)
  <2> SUFFICES ASSUME NEW i \in NodeIds
               PROVE  /\ DOMAIN gs.nodes[i] =
                           {"used", "parent", "type", "permissions", "size", "name", "data"}
                      /\ gs.nodes[i].used \in BOOLEAN
                      /\ gs.nodes[i].size \in 0..Capacity
                      /\ gs.nodes[i].data \in [1..Capacity -> Nat]
                      /\ i \in dirs => gs.nodes[i].used /\ gs.nodes[i].type = "DIRECTORY"
                      /\ gs.nodes[i].used /\ i \notin dirs =>
                           gs.nodes[i].type = "FILE" /\ gs.nodes[i].permissions = ReadWrite
    BY Zenon DEF NodesOK
  <2>1. CASE i = n
    <3>1. gs.nodes[n].used \in BOOLEAN BY <1>6, Zenon
    <3>2. gs.nodes[n].size \in 0..Capacity BY <1>6
    <3>3. gs.nodes[n].data \in [1..Capacity -> Nat] BY <1>6, <1>7, Zenon
    <3> QED BY <1>3, <1>6, <2>1, <3>1, <3>2, <3>3, Zenon
  <2>2. CASE i # n BY <1>5, <2>2, Zenon DEF NodesOK
  <2> QED BY <2>1, <2>2, Zenon
<1>9. ChildNamed(fs, dir, name) = None BY Zenon DEF Added
<1>10. \A p, q : ChildNamed(gs, p, q) =
                   IF p = dir /\ q = name THEN n ELSE ChildNamed(fs, p, q)
  BY AddedChildNamed
<1>11. n # None BY <1>2 DEF None
<1>12. ASSUME NEW p, NEW q, p # dir \/ q # name PROVE ValueAt(gs, p, q) = ValueAt(fs, p, q)
  <2>1. ChildNamed(gs, p, q) = ChildNamed(fs, p, q) BY <1>10, <1>12
  <2>2. ChildNamed(fs, p, q) # n
    <3>1. CASE ChildNamed(fs, p, q) = None BY <1>11, <3>1
    <3>2. CASE ChildNamed(fs, p, q) # None BY <1>2, <3>2, ChildNamedFacts
    <3> QED BY <3>1, <3>2, Zenon
  <2>3. CASE ChildNamed(fs, p, q) = None BY <2>1, <2>3 DEF ValueAt
  <2>4. CASE ChildNamed(fs, p, q) # None
    <3>1. ChildNamed(fs, p, q) \in NodeIds BY <2>4, ChildNamedFacts, Zenon
    <3>2. gs.nodes[ChildNamed(fs, p, q)] = fs.nodes[ChildNamed(fs, p, q)] BY <1>5, <2>2, <3>1, Zenon
    <3> QED BY <2>1, <2>4, <3>2 DEF ValueAt
  <2> QED BY <2>3, <2>4
<1>13. KeepsOthers(fs, gs, dir, name) BY <1>9, <1>10, <1>12, Zenon DEF KeepsOthers
<1>14. ChildNamed(gs, dir, name) = n BY <1>10
<1>15. ValueAt(gs, dir, name) = <<>> BY <1>6, <1>11, <1>14, EmptyValue, Zenon DEF ValueAt
<1>16. ValueAt(fs, dir, name) = <<>> BY <1>9 DEF ValueAt
<1> QED BY <1>6, <1>8, <1>13, <1>14, <1>15, <1>16, Zenon

\* The value of a file has as many bytes as its size says.
LEMMA ValueLength ==
  ASSUME NEW fs, NEW dirs, NodesOK(fs, dirs), NEW dir, NEW name, NEW n,
         n = ChildNamed(fs, dir, name), n # None
  PROVE  /\ ValueAt(fs, dir, name) \in Seq(Nat)
         /\ Len(ValueAt(fs, dir, name)) = fs.nodes[n].size
         /\ \A i \in 1..fs.nodes[n].size : ValueAt(fs, dir, name)[i] = fs.nodes[n].data[i]
<1> DEFINE data == fs.nodes[n].data
           size == fs.nodes[n].size
<1>1. n \in NodeIds BY ChildNamedFacts, Zenon
<1>2. data \in [1..Capacity -> Nat] /\ size \in 0..Capacity BY <1>1, Zenon DEF NodesOK
<1>3. ValueAt(fs, dir, name) = SubSeq(data, 1, size) BY Zenon DEF ValueAt
<1> HIDE DEF data, size
<1>4. /\ SubSeq(data, 1, size) \in Seq(Nat) /\ Len(SubSeq(data, 1, size)) = size
      /\ \A i \in 1..size : SubSeq(data, 1, size)[i] = data[i]
  <2>1. \A i \in 1..size : data[i] \in Nat BY <1>2
  <2> QED BY <1>2, <2>1, SubSeqProperties
<1> QED BY <1>3, <1>4, Zenon DEF data, size

\* Opening with TRUNC leaves an empty file.
LEMMA CutKeeps ==
  ASSUME NEW fs, FsOK(fs), NEW gs, NEW dirs, NodesOK(fs, dirs), NEW dir, NEW name, NEW n,
         n = ChildNamed(fs, dir, name), n # None,
         gs.nodes = CutOff(fs.nodes, n)
  PROVE  /\ NodesOK(gs, dirs)
         /\ KeepsOthers(fs, gs, dir, name)
         /\ ChildNamed(gs, dir, name) = n
         /\ ValueAt(gs, dir, name) = <<>> /\ gs.nodes[n].size = 0
<1> DEFINE data == fs.nodes[n].data
<1>1. n \in NodeIds BY ChildNamedFacts, Zenon
<1>2. \A i \in NodeIds \ {n} : gs.nodes[i] = fs.nodes[i] BY DEF FsOK, CutOff
<1>3. gs.nodes[n] = [fs.nodes[n] EXCEPT !.size = 0] BY <1>1, Zenon DEF FsOK, CutOff
<1>4. /\ DOMAIN fs.nodes[n] = {"used", "parent", "type", "permissions", "size", "name", "data"}
      /\ data \in [1..Capacity -> Nat]
  BY <1>1, Zenon DEF NodesOK
<1>5. gs.nodes[n] = [fs.nodes[n] EXCEPT !.size = 0, !.data = data]
  <2>1. [fs.nodes[n] EXCEPT !.size = 0] = [fs.nodes[n] EXCEPT !.size = 0, !.data = data]
    BY <1>4, Zenon
  <2> QED BY <1>3, <2>1, Zenon
<1>6. 0 \in 0..Capacity OBVIOUS
<1> HIDE DEF data
<1>7. /\ NodesOK(gs, dirs) /\ KeepsOthers(fs, gs, dir, name)
      /\ ChildNamed(gs, dir, name) = n
      /\ ValueAt(gs, dir, name) = SubSeq(data, 1, 0)
  <2>1. Changed(fs, gs, n, 0, data) BY <1>2, <1>4, <1>5, <1>6 DEF Changed
  <2>2. Changed(fs, gs, ChildNamed(fs, dir, name), 0, data) BY <2>1
  <2>3. NodesOK(fs, dirs) OBVIOUS
  <2>4. /\ NodesOK(gs, dirs) /\ KeepsOthers(fs, gs, dir, name)
        /\ ChildNamed(gs, dir, name) = ChildNamed(fs, dir, name)
        /\ ValueAt(gs, dir, name) = SubSeq(data, 1, 0)
    BY ONLY <2>2, <2>3, ChangedKeeps
  <2> QED BY <2>4
<1>8. gs.nodes[n].size = 0 BY <1>3, <1>4
<1> QED BY <1>7, <1>8, EmptyValue

\* A sequence that is a second one followed by a third.
LEMMA AppendedBytes ==
  ASSUME NEW before \in Seq(Nat), NEW bytes \in Seq(Nat), NEW after \in Seq(Nat),
         Len(after) = Len(before) + Len(bytes),
         \A i \in 1..Len(before) : after[i] = before[i],
         \A i \in 1..Len(bytes) : after[Len(before) + i] = bytes[i]
  PROVE  after = before \o bytes
<1>1. /\ before \o bytes \in Seq(Nat) /\ Len(before \o bytes) = Len(after)
      /\ \A i \in 1..(Len(before) + Len(bytes)) : (before \o bytes)[i] =
           IF i <= Len(before) THEN before[i] ELSE bytes[i - Len(before)]
  BY ConcatProperties
<1>2. ASSUME NEW i \in 1..Len(after) PROVE after[i] = (before \o bytes)[i]
  <2>1. CASE i <= Len(before) BY <1>1, <2>1
  <2>2. CASE i > Len(before)
    <3>1. i - Len(before) \in 1..Len(bytes) /\ Len(before) + (i - Len(before)) = i BY <2>2
    <3>2. after[i] = bytes[i - Len(before)] BY <3>1, Zenon
    <3> QED BY <1>1, <2>2, <3>2
  <2> QED BY <2>1, <2>2
<1> QED BY <1>1, <1>2, SeqEqual, Zenon

\* The bytes of a file after op_write at its end.
LEMMA WrittenAtEnd ==
  ASSUME NEW old \in [1..Capacity -> Nat], NEW offset \in 0..Capacity, NEW bytes \in Seq(Nat),
         offset + Len(bytes) <= Capacity
  PROVE  /\ Written(old, offset, bytes) \in [1..Capacity -> Nat]
         /\ SubSeq(Written(old, offset, bytes), 1, offset + Len(bytes)) =
              SubSeq(old, 1, offset) \o bytes
<1> DEFINE data == Written(old, offset, bytes)
           end == offset + Len(bytes)
<1> USE DEF Written
<1>1. data \in [1..Capacity -> Nat]
  <2> SUFFICES ASSUME NEW i \in 1..Capacity, i > offset, i <= end PROVE bytes[i - offset] \in Nat
    OBVIOUS
  <2>1. i - offset \in 1..Len(bytes) OBVIOUS
  <2> QED BY <2>1, ElementOfSeq
<1>2. end \in 0..Capacity /\ offset <= end OBVIOUS
<1>3. \A i \in 1..offset : data[i] = old[i] BY <1>2
<1>4. ASSUME NEW i \in 1..Len(bytes) PROVE data[offset + i] = bytes[i]
  <2>1. offset + i \in 1..Capacity /\ offset + i > offset /\ offset + i <= end BY <1>2
  <2>2. data[offset + i] = bytes[(offset + i) - offset] BY <2>1
  <2>3. (offset + i) - offset = i OBVIOUS
  <2> QED BY <2>2, <2>3
<1> HIDE DEF data, Written
<1> DEFINE before == SubSeq(old, 1, offset)
           after == SubSeq(data, 1, end)
<1>5. /\ before \in Seq(Nat) /\ Len(before) = offset
      /\ \A i \in 1..offset : before[i] = old[i]
  <2>1. \A i \in 1..offset : old[i] \in Nat OBVIOUS
  <2> QED BY <2>1, SubSeqProperties
<1>6. /\ after \in Seq(Nat) /\ Len(after) = end
      /\ \A i \in 1..end : after[i] = data[i]
  <2>1. \A i \in 1..end : data[i] \in Nat BY <1>1, <1>2
  <2> QED BY <1>2, <2>1, SubSeqProperties
<1> HIDE DEF before, after, end
<1>7. ASSUME NEW i \in 1..Len(before) PROVE after[i] = before[i]
  <2>1. i \in 1..offset /\ i \in 1..end BY <1>2, <1>5
  <2> QED BY <1>3, <1>5, <1>6, <2>1, Zenon
<1>8. ASSUME NEW i \in 1..Len(bytes) PROVE after[Len(before) + i] = bytes[i]
  <2>1. offset + i \in 1..end BY <1>2 DEF end
  <2> QED BY <1>4, <1>5, <1>6, <2>1, Zenon
<1>9. Len(after) = Len(before) + Len(bytes) BY <1>5, <1>6 DEF end
<1>10. after = before \o bytes BY <1>5, <1>6, <1>7, <1>8, <1>9, AppendedBytes, Zenon
<1> QED BY <1>1, <1>10, Zenon DEF before, after, data, end

\* Writing at the end of a file appends.
LEMMA OverwrittenKeeps ==
  ASSUME NEW fs, FsOK(fs), NEW gs, NEW dirs, NodesOK(fs, dirs), NEW dir, NEW name,
         NEW bytes, WritesAtEnd(fs, gs, ChildNamed(fs, dir, name), bytes)
  PROVE  AddsTo(fs, gs, dirs, dir, name, bytes)
<1> SUFFICES ASSUME NEW n, n = ChildNamed(fs, dir, name), n # None,
                    NEW offset, offset = fs.nodes[n].size,
                    bytes \in Seq(Nat), offset + Len(bytes) <= Capacity,
                    gs.nodes = Overwritten(fs.nodes, n, offset, bytes)
             PROVE  AddsTo(fs, gs, dirs, dir, name, bytes)
  BY Zenon DEF WritesAtEnd
<1> DEFINE end == offset + Len(bytes)
           old == fs.nodes[n].data
           data == Written(old, offset, bytes)
<1>1. n \in NodeIds BY ChildNamedFacts, Zenon
<1>1a. offset \in 0..Capacity BY <1>1, Zenon DEF NodesOK
<1>2. /\ DOMAIN fs.nodes[n] = {"used", "parent", "type", "permissions", "size", "name", "data"}
      /\ old \in [1..Capacity -> Nat]
  BY <1>1, Zenon DEF NodesOK
<1>3. end \in 0..Capacity /\ offset <= end BY <1>1a
<1>4. Max({fs.nodes[n].size, end}) = end
  <2>1. offset \in Int /\ end \in Int /\ offset <= end BY <1>1a, <1>3
  <2> HIDE DEF end
  <2>2. Max({offset, end}) = end BY ONLY <2>1 DEF Max
  <2> QED BY <2>2, Zenon
<1>5. \A i \in NodeIds \ {n} : gs.nodes[i] = fs.nodes[i] BY Zenon DEF Overwritten, FsOK
<1>6. gs.nodes[n] = [fs.nodes[n] EXCEPT !.size = end, !.data = data]
  <2>1. gs.nodes[n] = [fs.nodes[n] EXCEPT !.size = Max({@, end}), !.data = data]
    BY <1>1, <1>2, Zenon DEF Overwritten, FsOK
  <2> HIDE DEF data
  <2> QED BY <1>2, <1>4, <2>1, Zenon
<1>7. data \in [1..Capacity -> Nat] /\ SubSeq(data, 1, end) = SubSeq(old, 1, offset) \o bytes
  <2>1. bytes \in Seq(Nat) /\ offset + Len(bytes) <= Capacity OBVIOUS
  <2>2. old \in [1..Capacity -> Nat] /\ offset \in 0..Capacity BY <1>1a, <1>2, Zenon
  <2> HIDE DEF old
  <2> QED BY ONLY <2>1, <2>2, WrittenAtEnd, Zenon
<1>8. ValueAt(fs, dir, name) = SubSeq(old, 1, offset) BY Zenon DEF ValueAt
<1> HIDE DEF data, end
<1>9. Changed(fs, gs, ChildNamed(fs, dir, name), end, data)
  BY <1>3, <1>5, <1>6, <1>7, Zenon DEF Changed
<1>10. NodesOK(fs, dirs) OBVIOUS
<1>11. /\ NodesOK(gs, dirs) /\ KeepsOthers(fs, gs, dir, name)
       /\ ValueAt(gs, dir, name) = SubSeq(data, 1, end)
  BY ONLY <1>9, <1>10, ChangedKeeps
<1> QED BY <1>7, <1>8, <1>11, Zenon DEF AddsTo
=============================================================================
