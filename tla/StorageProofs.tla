--------------------------- MODULE StorageProofs ---------------------------
(***************************************************************************)
(* Proofs about the services above the file system for every number of     *)
(* keys, texts and nodes: the log is what was appended, and a setting or   *)
(* device entry is the value last stored.  The inductive invariant is      *)
(* ServicesInv.  Both this and FailedOpenIsHarmless rest on counting: the  *)
(* tables of handles and of open files are filled in step, and so the      *)
(* handle table is always full first.                                      *)
(***************************************************************************)
EXTENDS FileProofs

USE TmpfsAssumption, VfsAssumption DEF NodeIds, Opens, Handles

-----------------------------------------------------------------------------
\* The directory of the settings is node 2 and that of the devices node 3.
DirsOf(f) == IF f = RootFs THEN {0, 1, 2, 3} ELSE {0}

Promised(path) == IF path \in emptied THEN <<>> ELSE stored[path]

\* The path of entry k in the directory of the settings or the devices.
Entry(dir, k) == IF dir = 2 THEN SettingPath(k) ELSE DevicePath(k)

\* What storage_services_init mounts.
ServiceMounts ==
  mounts = <<[path |-> <<>>, context |-> RootFs], [path |-> <<"var">>, context |-> VarFs]>>

\* The directories stay where storage_services_init has made them.
DirsInv ==
  /\ ServiceMounts
  /\ \A f \in FileSystems : NodesOK(disks[f], DirsOf(f))
  /\ ChildNamed(disks[RootFs], 0, "var") = 1
  /\ ChildNamed(disks[RootFs], 0, "settings") = 2
  /\ ChildNamed(disks[RootFs], 0, "devices") = 3

\* The offset of the log service is the end of its file.
LogInv ==
  /\ appended \in Seq(Nat) /\ log_offset = Len(appended)
  /\ ValueAt(disks[VarFs], 0, "kernel.log") = appended

EntriesInv ==
  /\ stored \in [ValuePaths -> Seq(Nat)]
  /\ \A dir \in {2, 3}, k \in Keys : ValueAt(disks[RootFs], dir, k) = Promised(Entry(dir, k))

\* The inductive invariant of the services.
ServicesInv == VfsInv /\ DirsInv /\ LogInv /\ EntriesInv

-----------------------------------------------------------------------------
LEMMA SameNodesStill ==
  ASSUME NEW fs, NEW gs, gs.nodes = fs.nodes, NEW dirs, NodesOK(fs, dirs)
  PROVE  NodesOK(gs, dirs) /\ Still(fs, gs)
<1>1. NodesOK(gs, dirs) BY Zenon DEF NodesOK
<1>2. \A p, q : ChildNamed(gs, p, q) = ChildNamed(fs, p, q)
  BY SameTreeChildNamed DEF SameTree
<1>3. \A p, q : ValueAt(gs, p, q) = ValueAt(fs, p, q) BY <1>2 DEF ValueAt
<1> QED BY <1>1, <1>2, <1>3 DEF Still

\* A client that opens a file and does not write changes no value.
LEMMA ReaderOpens ==
  ASSUME NEW fs, FsOK(fs), NEW dirs, NodesOK(fs, dirs), NEW path, NEW flags, "WRITE" \notin flags
  PROVE  NodesOK(OpOpen(fs, path, flags).fs, dirs) /\ Still(fs, OpOpen(fs, path, flags).fs)
<1> DEFINE n == ResolveNode(fs, path)
           made == IF n = None /\ "CREATE" \in flags
                   THEN CreateNode(fs, path, "FILE", {"READ", "WRITE"})
                   ELSE Result("OK", fs, n)
           done == OpOpen(fs, path, flags)
<1>1. done = IF made.status # "OK" THEN made
             ELSE IF made.out = None THEN Result("NOT_FOUND", fs, None)
             ELSE OpenNode(made.fs, made.out, flags)
  BY Zenon DEF OpOpen
<1>2. FsOK(made.fs) /\ NodesOK(made.fs, dirs) /\ Still(fs, made.fs)
  <2>1. CASE n = None /\ "CREATE" \in flags
    <3>1. made = CreateNode(fs, path, "FILE", ReadWrite) BY <2>1 DEF ReadWrite
    <3>2. MakesNode(fs, made, "FILE", ReadWrite) BY <3>1, CreateNodeOpen
    <3>3. CASE made.status # "OK"
      <4>1. made.fs = fs BY <3>2, <3>3, Zenon DEF MakesNode
      <4> HIDE DEF made
      <4> QED BY <4>1, SameNodesStill
    <3>4. CASE made.status = "OK"
      <4>1. Added(fs, made.fs, made.out, ResolveParent(fs, path), LastName(path))
        BY <3>1, <3>4, CreateNodeAdded
      <4> HIDE DEF made
      <4>2. /\ NodesOK(made.fs, dirs)
            /\ KeepsOthers(fs, made.fs, ResolveParent(fs, path), LastName(path))
            /\ ValueAt(fs, ResolveParent(fs, path), LastName(path)) = <<>>
            /\ ValueAt(made.fs, ResolveParent(fs, path), LastName(path)) = <<>>
        BY <4>1, AddedKeeps
      <4>3. Still(fs, made.fs) BY <4>2 DEF KeepsOthers, Still
      <4> QED BY <3>2, <4>2, <4>3, Zenon DEF MakesNode
    <3> QED BY <3>3, <3>4, Zenon
  <2>2. CASE ~(n = None /\ "CREATE" \in flags)
    <3>1. made.fs = fs BY <2>2 DEF Result
    <3> HIDE DEF made
    <3> QED BY <3>1, SameNodesStill
  <2> QED BY <2>1, <2>2, Zenon
<1>3. OpenNode(made.fs, made.out, flags).fs.nodes = made.fs.nodes
  <2> DEFINE ms == made.fs
             m == made.out
             free == {h \in Opens : ~ms.open[h].used}
             end == OpenNode(ms, m, flags)
             new == [used |-> TRUE, node |-> m, flags |-> flags, offset |-> 0]
  <2> HIDE DEF made
  <2>1. end.fs = ms \/ end.fs = [ms EXCEPT !.open[Min(free)] = new]
    BY Zenon DEF OpenNode, Result
  <2> HIDE DEF end, new, free, ms
  <2>2. DOMAIN ms = {"nodes", "open"} BY <1>2 DEF FsOK, ms
  <2>3. end.fs.nodes = ms.nodes BY <2>1, <2>2
  <2> QED BY <2>3 DEF end, ms
<1>4. done.fs = fs \/ done.fs = made.fs \/ done.fs = OpenNode(made.fs, made.out, flags).fs
  BY <1>1 DEF Result
<1> HIDE DEF made, done
<1>5. CASE done.fs = fs BY <1>5, SameNodesStill DEF done
<1>6. CASE done.fs = made.fs BY <1>2, <1>6 DEF done
<1>7. CASE done.fs = OpenNode(made.fs, made.out, flags).fs
  <2>1. done.fs.nodes = made.fs.nodes BY <1>3, <1>7
  <2>2. NodesOK(done.fs, dirs) /\ Still(made.fs, done.fs) BY <1>2, <2>1, SameNodesStill
  <2>3. Still(fs, done.fs) BY <1>2, <2>2, Zenon DEF Still
  <2> QED BY <2>2, <2>3 DEF done
<1> QED BY <1>4, <1>5, <1>6, <1>7

\* The path leads to the entry name of directory dir, whether it is there or not.
LeadsTo(fs, path, dir, name) ==
  /\ ResolveNode(fs, path) = ChildNamed(fs, dir, name)
  /\ ResolveParent(fs, path) = dir /\ dir # None
  /\ LastName(path) = name /\ name # BadName

\* What is left of a value when a file is opened.
Kept(value, flags) == IF "TRUNC" \in flags THEN <<>> ELSE value

\* done has opened, for writing, the file name of directory dir, made if need be.
OpenedFile(fs, done, dirs, dir, name, flags) ==
  LET n == ChildNamed(done.fs, dir, name)
  IN  /\ n # None /\ NodesOK(done.fs, dirs) /\ KeepsOthers(fs, done.fs, dir, name)
      /\ done.fs.open[done.out].node = n /\ done.fs.open[done.out].flags = flags
      /\ ValueAt(done.fs, dir, name) = Kept(ValueAt(fs, dir, name), flags)

\* The end of op_open on a file.
LEMMA WriterOpensNode ==
  ASSUME NEW fs, FsOK(fs), NEW dirs, NodesOK(fs, dirs), NEW dir, NEW name, NEW n,
         n = ChildNamed(fs, dir, name), n # None, n \notin dirs,
         NEW flags, "WRITE" \in flags, \E o \in Opens : ~fs.open[o].used
  PROVE  /\ OpenNode(fs, n, flags).status = "OK"
         /\ OpenedFile(fs, OpenNode(fs, n, flags), dirs, dir, name, flags)
<1> DEFINE done == OpenNode(fs, n, flags)
<1>1. n \in NodeIds /\ fs.nodes[n].used BY ChildNamedFacts, Zenon
<1>2. fs.nodes[n].type = "FILE" /\ fs.nodes[n].permissions = ReadWrite BY <1>1, Zenon DEF NodesOK
<1>3. /\ done.status = "OK" /\ done.out \in Opens
      /\ done.fs.open[done.out] = [used |-> TRUE, node |-> n, flags |-> flags, offset |-> 0]
      /\ done.fs.nodes = IF {"TRUNC", "WRITE"} \subseteq flags
                         THEN CutOff(fs.nodes, n) ELSE fs.nodes
  BY <1>1, <1>2, OpenNodeDetail
<1> HIDE DEF done
<1>4. done.fs.open[done.out].node = n /\ done.fs.open[done.out].flags = flags BY <1>3
<1>5. CASE "TRUNC" \in flags
  <2>1. done.fs.nodes = CutOff(fs.nodes, n) BY <1>3, <1>5
  <2>2. /\ NodesOK(done.fs, dirs) /\ KeepsOthers(fs, done.fs, dir, name)
        /\ ChildNamed(done.fs, dir, name) = n /\ ValueAt(done.fs, dir, name) = <<>>
    BY <2>1, CutKeeps
  <2> QED BY <1>3, <1>4, <1>5, <2>2, Zenon DEF OpenedFile, Kept, done
<1>6. CASE "TRUNC" \notin flags
  <2>1. done.fs.nodes = fs.nodes BY <1>3, <1>6
  <2>2. NodesOK(done.fs, dirs) /\ Still(fs, done.fs) BY <2>1, SameNodesStill
  <2>3. /\ KeepsOthers(fs, done.fs, dir, name)
        /\ ChildNamed(done.fs, dir, name) = n
        /\ ValueAt(done.fs, dir, name) = ValueAt(fs, dir, name)
    BY <2>2, Zenon DEF Still, KeepsOthers
  <2> QED BY <1>3, <1>4, <1>6, <2>2, <2>3, Zenon DEF OpenedFile, Kept, done
<1> QED BY <1>5, <1>6, Zenon

\* op_open for writing, with a slot free.  It fails only for lack of a node, and has
\* changed nothing then.
LEMMA WriterOpens ==
  ASSUME NEW fs, FsOK(fs), NEW dirs, NodesOK(fs, dirs), NEW dir, NEW name,
         NEW path, LeadsTo(fs, path, dir, name), ChildNamed(fs, dir, name) \notin dirs,
         NEW flags, {"WRITE", "CREATE"} \subseteq flags, \E o \in Opens : ~fs.open[o].used
  PROVE  LET done == OpOpen(fs, path, flags)
         IN  \/ done.status # "OK" /\ done.fs = fs /\ ChildNamed(fs, dir, name) = None
             \/ done.status = "OK" /\ OpenedFile(fs, done, dirs, dir, name, flags)
<1> DEFINE n == ChildNamed(fs, dir, name)
           made == IF n = None THEN CreateNode(fs, path, "FILE", ReadWrite)
                   ELSE Result("OK", fs, n)
           done == OpOpen(fs, path, flags)
<1>1. ResolveNode(fs, path) = n BY DEF LeadsTo
<1>2. done = IF made.status # "OK" THEN made
             ELSE IF made.out = None THEN Result("NOT_FOUND", fs, None)
             ELSE OpenNode(made.fs, made.out, flags)
  BY <1>1, Zenon DEF OpOpen, ReadWrite
<1>3. CASE n # None
  <2>1. done = OpenNode(fs, n, flags) BY <1>2, <1>3, Zenon DEF Result
  <2> HIDE DEF done
  <2>2. done.status = "OK" /\ OpenedFile(fs, done, dirs, dir, name, flags)
    BY <1>3, <2>1, WriterOpensNode, Zenon
  <2> QED BY <2>2 DEF done
<1>4. CASE n = None
  <2>1. made = CreateNode(fs, path, "FILE", ReadWrite) BY <1>4, Zenon
  <2>2. MakesNode(fs, made, "FILE", ReadWrite) BY <2>1, CreateNodeOpen, Zenon
  <2>3. CASE made.status # "OK"
    <3>1. made.fs = fs BY <2>2, <2>3, Zenon DEF MakesNode
    <3> QED BY <1>2, <1>4, <2>3, <3>1, Zenon
  <2>4. CASE made.status = "OK"
    <3>1. Added(fs, made.fs, made.out, dir, name)
      BY <2>1, <2>4, CreateNodeAdded, Zenon DEF LeadsTo
    <3> HIDE DEF made
    <3>2. /\ NodesOK(made.fs, dirs) /\ KeepsOthers(fs, made.fs, dir, name)
          /\ ValueAt(fs, dir, name) = <<>> /\ ValueAt(made.fs, dir, name) = <<>>
          /\ ChildNamed(made.fs, dir, name) = made.out
      BY <3>1, AddedKeeps
    <3>3. made.out \in NodeIds /\ made.out # None BY <3>1 DEF Added, None
    <3>4. made.out \notin dirs
      <4>1. ~fs.nodes[made.out].used BY <3>1, Zenon DEF Added
      <4> QED BY <3>3, <4>1, Zenon DEF NodesOK
    <3>5. \E o \in Opens : ~made.fs.open[o].used BY <2>2, Zenon DEF MakesNode, SameOpen
    <3>6. FsOK(made.fs) BY <2>2, Zenon DEF MakesNode
    <3>7. done = OpenNode(made.fs, made.out, flags) BY <1>2, <2>4, <3>3
    <3> HIDE DEF done
    <3>8. done.status = "OK" /\ OpenedFile(made.fs, done, dirs, dir, name, flags)
      BY <3>2, <3>3, <3>4, <3>5, <3>6, <3>7, WriterOpensNode
    <3>9. OpenedFile(fs, done, dirs, dir, name, flags)
      <4>1. KeepsOthers(fs, done.fs, dir, name) BY <3>2, <3>8, Zenon DEF OpenedFile, KeepsOthers
      <4> QED BY <3>2, <3>8, <4>1, Zenon DEF OpenedFile
    <3> QED BY <3>8, <3>9, Zenon DEF done
  <2> QED BY <2>3, <2>4, Zenon
<1> QED BY <1>3, <1>4, Zenon

\* What a service call has done to its file when its status is r.status.
Wrote(fs, r, dirs, dir, name, flags, bytes) ==
  /\ FsOK(r.fs) /\ SameOpen(fs, r.fs)
  /\ NodesOK(r.fs, dirs) /\ KeepsOthers(fs, r.fs, dir, name)
  /\ r.status = "OK" =>
       r.out = Len(bytes) /\ ValueAt(r.fs, dir, name) = Kept(ValueAt(fs, dir, name), flags) \o bytes
  /\ r.status # "OK" =>
       ValueAt(r.fs, dir, name) = IF "TRUNC" \in flags /\ FreeHandles # {} /\ Len(bytes) > Capacity
                                  THEN <<>> ELSE ValueAt(fs, dir, name)

\* A file that is open for writing at its end, used and closed.
LEMMA UsesFile ==
  ASSUME NEW fs, FsOK(fs), NEW done, TakesSlot(fs, done), done.status = "OK",
         NEW dirs, NEW dir, NEW name, NEW flags, OpenedFile(fs, done, dirs, dir, name, flags),
         "WRITE" \in flags, NEW bytes \in Seq(Nat), NEW offset,
         offset = Len(Kept(ValueAt(fs, dir, name), flags)), FreeHandles # {}
  PROVE  Wrote(fs, UseOpened(done, offset, bytes), dirs, dir, name, flags, bytes)
<1> DEFINE gs == done.fs
           h == done.out
           n == ChildNamed(gs, dir, name)
           r == UseOpened(done, offset, bytes)
           kept == Kept(ValueAt(fs, dir, name), flags)
<1>1. /\ FsOK(gs) /\ h \in Opens /\ gs.open[h].used /\ ~fs.open[h].used
      /\ \A o \in Opens \ {h} : gs.open[o].used = fs.open[o].used
  BY Zenon DEF TakesSlot
<1>2. /\ n # None /\ NodesOK(gs, dirs) /\ KeepsOthers(fs, gs, dir, name)
      /\ gs.open[h].node = n /\ gs.open[h].flags = flags /\ ValueAt(gs, dir, name) = kept
  BY Zenon DEF OpenedFile
<1>3. /\ n \in NodeIds /\ kept \in Seq(Nat) /\ Len(kept) = gs.nodes[n].size
      /\ gs.nodes[n].size \in 0..Capacity
  <2>1. n \in NodeIds BY <1>2, ChildNamedFacts, Zenon
  <2>2. gs.nodes[n].size \in 0..Capacity BY <1>2, <2>1, Zenon DEF NodesOK
  <2>3. ValueAt(gs, dir, name) \in Seq(Nat) /\ Len(ValueAt(gs, dir, name)) = gs.nodes[n].size
    <3>1. n = ChildNamed(gs, dir, name) /\ NodesOK(gs, dirs) /\ n # None BY <1>2, Zenon
    <3> HIDE DEF n, gs
    <3> QED BY ONLY <3>1, ValueLength
  <2> QED BY <1>2, <2>1, <2>2, <2>3, Zenon
<1>4. offset \in 0..Capacity /\ offset = gs.nodes[n].size BY <1>3, Zenon
<1>5. /\ FsOK(r.fs) /\ ~r.fs.open[h].used
      /\ \A o \in Opens \ {h} : r.fs.open[o].used = gs.open[o].used
      /\ offset + Len(bytes) > Capacity => r.status # "OK" /\ r.fs.nodes = gs.nodes
      /\ offset + Len(bytes) <= Capacity =>
           /\ r.status = "OK" /\ r.out = Len(bytes)
           /\ r.fs.nodes = Overwritten(gs.nodes, gs.open[h].node, offset, bytes)
  <2>1. OpenForWriting(done) BY <1>1, <1>2, Zenon DEF OpenForWriting
  <2>2. UsedAndClosed(done, r, offset, bytes) BY <1>4, <2>1, UseOpenedEffect, Zenon
  <2> HIDE DEF r
  <2> QED BY <2>2, Zenon DEF UsedAndClosed
<1> HIDE DEF r, gs, h, n, kept
<1>6. SameOpen(fs, r.fs)
  <2> SUFFICES ASSUME NEW o \in Opens PROVE r.fs.open[o].used = fs.open[o].used BY Zenon DEF SameOpen
  <2>1. CASE o = h BY <1>1, <1>5, <2>1, Zenon DEF FsOK
  <2>2. CASE o # h BY <1>1, <1>5, <2>2, Zenon
  <2> QED BY <2>1, <2>2, Zenon
<1>7. CASE offset + Len(bytes) > Capacity
  <2>1. r.status # "OK" /\ r.fs.nodes = gs.nodes BY <1>5, <1>7, Zenon
  <2>2. NodesOK(r.fs, dirs) /\ Still(gs, r.fs) BY <1>2, <2>1, SameNodesStill, Zenon
  <2>3. KeepsOthers(fs, r.fs, dir, name) /\ ValueAt(r.fs, dir, name) = kept
    BY <1>2, <2>2, Zenon DEF Still, KeepsOthers
  <2>4. kept = IF "TRUNC" \in flags /\ FreeHandles # {} /\ Len(bytes) > Capacity
               THEN <<>> ELSE ValueAt(fs, dir, name)
    <3>1. CASE "TRUNC" \in flags
      <4>1. kept = <<>> BY <3>1 DEF kept, Kept
      <4>2. offset = 0 BY <4>1 DEF kept
      <4>3. Len(bytes) > Capacity BY <1>7, <4>2
      <4> QED BY <3>1, <4>1, <4>3
    <3>2. CASE "TRUNC" \notin flags BY <3>2 DEF kept, Kept
    <3> QED BY <3>1, <3>2
  <2>5. Wrote(fs, r, dirs, dir, name, flags, bytes)
    BY <1>5, <1>6, <2>1, <2>2, <2>3, <2>4, Zenon DEF Wrote
  <2> QED BY <2>5 DEF r
<1>8. CASE offset + Len(bytes) <= Capacity
  <2>1. /\ r.status = "OK" /\ r.out = Len(bytes)
        /\ r.fs.nodes = Overwritten(gs.nodes, n, offset, bytes)
    BY <1>2, <1>5, <1>8, Zenon
  <2>2. n = ChildNamed(gs, dir, name) BY DEF n
  <2>3. /\ NodesOK(r.fs, dirs) /\ KeepsOthers(gs, r.fs, dir, name)
        /\ ValueAt(r.fs, dir, name) = ValueAt(gs, dir, name) \o bytes
    <3>1. WritesAtEnd(gs, r.fs, ChildNamed(gs, dir, name), bytes)
      BY <1>2, <1>4, <1>8, <2>1, <2>2, Zenon DEF WritesAtEnd
    <3>2. FsOK(gs) /\ NodesOK(gs, dirs) BY <1>1, <1>2, Zenon
    <3>3. AddsTo(gs, r.fs, dirs, dir, name, bytes) BY ONLY <3>1, <3>2, OverwrittenKeeps
    <3> QED BY <3>3, Zenon DEF AddsTo
  <2>4. KeepsOthers(fs, r.fs, dir, name) BY <1>2, <2>2, <2>3, Zenon DEF KeepsOthers
  <2>5. ValueAt(r.fs, dir, name) = Kept(ValueAt(fs, dir, name), flags) \o bytes
    BY <1>2, <2>3, Zenon DEF kept
  <2>6. Wrote(fs, r, dirs, dir, name, flags, bytes)
    BY <1>5, <1>6, <2>1, <2>3, <2>4, <2>5, Zenon DEF Wrote
  <2> QED BY <2>6 DEF r
<1>9. offset + Len(bytes) \in Int BY <1>4
<1> QED BY <1>7, <1>8, <1>9

\* A service call on a file: all of the bytes arrive or none, and nothing else
\* changes.
LEMMA WriteFileEffect ==
  ASSUME VfsInv, SlotsSuffice, NEW path, ResolveMount(path) # 0, NEW f \in FileSystems, FsOf(path) = f,
         NEW dirs, NodesOK(disks[f], dirs), NEW dir, NEW name,
         LeadsTo(disks[f], Relative(path), dir, name), ChildNamed(disks[f], dir, name) \notin dirs,
         NEW flags, {"WRITE", "CREATE"} \subseteq flags, NEW bytes \in Seq(Nat),
         NEW offset, offset = Len(Kept(ValueAt(disks[f], dir, name), flags))
  PROVE  Wrote(disks[f], WriteFile(path, flags, offset, bytes), dirs, dir, name, flags, bytes)
<1> DEFINE fs == disks[f]
           done == OpOpen(fs, Relative(path), flags)
           r == WriteFile(path, flags, offset, bytes)
<1>1. FsOK(fs) BY Zenon DEF VfsInv, VfsTypes
<1>2. ASSUME r.fs = fs, r.status # "OK", FreeHandles = {} \/ ChildNamed(fs, dir, name) = None
      PROVE  Wrote(fs, r, dirs, dir, name, flags, bytes)
  <2> HIDE DEF r, fs
  <2>1. NodesOK(r.fs, dirs) /\ KeepsOthers(fs, r.fs, dir, name) BY <1>2, Zenon DEF KeepsOthers, fs
  <2>2. ChildNamed(fs, dir, name) = None => ValueAt(fs, dir, name) = <<>> BY Zenon DEF ValueAt
  <2> QED BY <1>1, <1>2, <2>1, <2>2, Zenon DEF Wrote, SameOpen
<1>3. CASE ~OpenPasses(path, flags)
  <2>1. FreeHandles = {} BY <1>3 DEF OpenPasses
  <2>2. r.fs = fs /\ r.status # "OK" BY <1>3, Zenon DEF WriteFile, Result
  <2> QED BY <1>2, <2>1, <2>2, Zenon
<1>4. CASE OpenPasses(path, flags)
  <2>1. r = UseOpened(done, offset, bytes) BY <1>4 DEF WriteFile, Opened
  <2>2. FreeHandles # {} BY <1>4 DEF OpenPasses
  <2>3. \E o \in Opens : ~fs.open[o].used BY <2>2, Zenon DEF SlotsSuffice
  <2>4. \/ done.status # "OK" /\ done.fs = fs /\ ChildNamed(fs, dir, name) = None
        \/ done.status = "OK" /\ OpenedFile(fs, done, dirs, dir, name, flags)
    BY <1>1, <2>3, WriterOpens, Zenon
  <2>5. CASE done.status # "OK" /\ done.fs = fs /\ ChildNamed(fs, dir, name) = None
    <3>1. r = done BY <2>1, <2>5, Zenon DEF UseOpened
    <3> QED BY <1>2, <2>5, <3>1, Zenon
  <2>6. CASE done.status = "OK" /\ OpenedFile(fs, done, dirs, dir, name, flags)
    <3>1. TakesSlot(fs, done) BY <1>1, OpOpenOpen, Zenon
    <3> HIDE DEF done, fs
    <3>2. offset = Len(Kept(ValueAt(fs, dir, name), flags)) BY DEF fs
    <3>3. "WRITE" \in flags OBVIOUS
    <3>4. Wrote(fs, UseOpened(done, offset, bytes), dirs, dir, name, flags, bytes)
      BY <1>1, <2>2, <2>6, <3>1, <3>2, <3>3, UsesFile, Zenon
    <3> QED BY <2>1, <3>4, Zenon DEF fs
  <2> QED BY <2>4, <2>5, <2>6, Zenon
<1> QED BY <1>3, <1>4, Zenon

-----------------------------------------------------------------------------
\* resolve_mount of a path of two names.
LEMMA MountOfTwo ==
  ASSUME ServiceMounts, NEW a, NEW b
  PROVE  /\ a = "var" => /\ ResolveMount(<<a, b>>) = 2 /\ FsOf(<<a, b>>) = VarFs
                         /\ Relative(<<a, b>>) = <<b>>
         /\ a # "var" => /\ ResolveMount(<<a, b>>) = 1 /\ FsOf(<<a, b>>) = RootFs
                         /\ Relative(<<a, b>>) = <<a, b>>
<1> DEFINE p == <<a, b>>
<1>1. /\ DOMAIN mounts = {1, 2} /\ mounts[1].path = <<>> /\ mounts[2].path = <<"var">>
      /\ mounts[1].context = RootFs /\ mounts[2].context = VarFs
  BY DEF ServiceMounts
<1>2. Len(p) = 2 /\ p[1] = a OBVIOUS
<1>3. MountMatches(<<>>, p) BY EmptyValue DEF MountMatches
<1>4. MountMatches(<<"var">>, p) <=> a = "var"
  <2>1. SubSeq(p, 1, 1) = <<a>> BY FirstOfTwo, Zenon
  <2>2. SubSeq(<<"var">>, 1, 1) = <<"var">> BY FirstOfTwo, Zenon
  <2>3. <<"var">> = <<a>> <=> a = "var" OBVIOUS
  <2>4. Len(<<"var">>) = 1 OBVIOUS
  <2> HIDE DEF p
  <2> QED BY <1>2, <2>1, <2>2, <2>3, <2>4 DEF MountMatches
<1> HIDE DEF p
<1>5. Matches(p) = IF a = "var" THEN {1, 2} ELSE {1} BY <1>1, <1>3, <1>4, Zenon DEF Matches
<1> DEFINE length(i) == Len(mounts[i].path)
           best == {i \in Matches(p) : \A j \in Matches(p) : length(j) <= length(i)}
<1>6. length(1) = 0 /\ length(2) = 1
  <2>1. Len(<<>>) = 0 /\ Len(<<"var">>) = 1 OBVIOUS
  <2> QED BY <1>1, <2>1
<1>7. /\ ResolveMount(p) = IF best = {} THEN 0 ELSE Min(best)
      /\ Relative(p) = SubSeq(p, length(ResolveMount(p)) + 1, Len(p))
  BY Zenon DEF ResolveMount, Relative
<1> HIDE DEF length
<1>8. Min({1}) = 1 /\ Min({2}) = 2 BY DEF Min
<1>9. CASE a = "var"
  <2>1. Matches(p) = {1, 2} BY <1>5, <1>9
  <2>2. best = {2} BY <1>6, <2>1
  <2>3. ResolveMount(p) = 2 BY <1>7, <1>8, <2>2, Zenon
  <2>4. Relative(p) = SubSeq(p, 2, 2)
    <3>1. length(ResolveMount(p)) + 1 = 2 BY <1>6, <2>3
    <3> QED BY <1>2, <1>7, <3>1, Zenon
  <2>5. SubSeq(p, 2, 2) = <<b>> BY FirstOfTwo, Zenon DEF p
  <2> QED BY <1>1, <1>9, <2>3, <2>4, <2>5 DEF FsOf, p
<1>10. CASE a # "var"
  <2>1. Matches(p) = {1} BY <1>5, <1>10
  <2>2. best = {1} BY <1>6, <2>1
  <2>3. ResolveMount(p) = 1 BY <1>7, <1>8, <2>2, Zenon
  <2>4. Relative(p) = SubSeq(p, 1, Len(p))
    <3>1. length(ResolveMount(p)) + 1 = 1 BY <1>6, <2>3
    <3> QED BY <1>7, <3>1, Zenon
  <2>5. SubSeq(p, 1, Len(p)) = p
    <3>1. p \in Seq({a, b}) BY DEF p
    <3> QED BY <3>1, SubSeqFull
  <2> QED BY <1>1, <1>10, <2>3, <2>4, <2>5, Zenon DEF FsOf, p
<1> QED BY <1>9, <1>10, Zenon

\* The path of the log leads to its file.
LEMMA LogPathLeads ==
  ASSUME VfsInv, DirsInv
  PROVE  /\ ResolveMount(LogPath) # 0 /\ FsOf(LogPath) = VarFs
         /\ LeadsTo(disks[VarFs], Relative(LogPath), 0, "kernel.log")
         /\ ChildNamed(disks[VarFs], 0, "kernel.log") \notin DirsOf(VarFs)
<1> USE ServicesAssumption
<1>1. NodesOK(disks[VarFs], {0}) /\ DirsOf(VarFs) = {0} BY DEF DirsInv, DirsOf
<1>2. ServiceMounts BY DEF DirsInv
<1>3. /\ ResolveMount(LogPath) = 2 /\ FsOf(LogPath) = VarFs
      /\ Relative(LogPath) = <<"kernel.log">>
  BY <1>2, MountOfTwo DEF LogPath
<1>4. LeadsTo(disks[VarFs], <<"kernel.log">>, 0, "kernel.log")
  <2> DEFINE fs == disks[VarFs]
             log == "kernel.log"
  <2>1. 0 \in NodeIds /\ fs.nodes[0].type = "DIRECTORY" BY <1>1 DEF NodesOK
  <2>2. log # BadName OBVIOUS
  <2> HIDE DEF fs, log
  <2>3. ResolveParent(fs, <<log>>) = 0 /\ LastName(<<log>>) = log BY <2>1, <2>2, ParentOfOne, Zenon
  <2>4. ResolveNode(fs, <<log>>) = ChildNamed(fs, 0, log) BY ResolveShort, Zenon
  <2>5. LeadsTo(fs, <<log>>, 0, log) BY <2>2, <2>3, <2>4 DEF LeadsTo, None
  <2> QED BY <2>5 DEF fs, log
<1>5. ChildNamed(disks[VarFs], 0, "kernel.log") # 0
  <2>1. ChildNamed(disks[VarFs], 0, "kernel.log") # None
          => ChildNamed(disks[VarFs], 0, "kernel.log") \in NodeIds \ {0}
    BY ChildNamedFacts, Zenon
  <2> QED BY <2>1 DEF None
<1> QED BY <1>1, <1>3, <1>4, <1>5

\* The path of a setting or a device leads to its file, which is no directory.
LEMMA EntryLeads ==
  ASSUME VfsInv, DirsInv, NEW dir \in {2, 3}, NEW k \in Keys
  PROVE  /\ ResolveMount(Entry(dir, k)) # 0 /\ FsOf(Entry(dir, k)) = RootFs
         /\ LeadsTo(disks[RootFs], Relative(Entry(dir, k)), dir, k)
         /\ ChildNamed(disks[RootFs], dir, k) \notin DirsOf(RootFs)
<1> USE ServicesAssumption
<1>1. NodesOK(disks[RootFs], {0, 1, 2, 3}) /\ DirsOf(RootFs) = {0, 1, 2, 3}
  BY Zenon DEF DirsInv, DirsOf
<1>2. ServiceMounts BY Zenon DEF DirsInv
<1> DEFINE d == IF dir = 2 THEN "settings" ELSE "devices"
           gs == disks[RootFs]
<1>3. Entry(dir, k) = <<d, k>> BY DEF Entry, SettingPath, DevicePath
<1>4. /\ ResolveMount(<<d, k>>) = 1 /\ FsOf(<<d, k>>) = RootFs /\ Relative(<<d, k>>) = <<d, k>>
  <2>1. d # "var" OBVIOUS
  <2> HIDE DEF d
  <2> QED BY <1>2, <2>1, MountOfTwo, Zenon
<1>5. ChildNamed(gs, 0, d) = dir BY Zenon DEF DirsInv
<1>6. 2 \in NodeIds /\ 3 \in NodeIds /\ 1 \in NodeIds OBVIOUS
<1>7. dir \in NodeIds /\ gs.nodes[dir].type = "DIRECTORY" BY <1>1, <1>6, Zenon DEF NodesOK
<1>8. k # BadName OBVIOUS
<1>9. gs.nodes[1].parent = 0 /\ gs.nodes[2].parent = 0 /\ gs.nodes[3].parent = 0
  <2>1. 1 # None /\ 2 # None /\ 3 # None BY DEF None
  <2>2. /\ ChildNamed(gs, 0, "var") = 1 /\ ChildNamed(gs, 0, "settings") = 2
        /\ ChildNamed(gs, 0, "devices") = 3
    BY Zenon DEF DirsInv
  <2> HIDE DEF gs
  <2> QED BY <2>1, <2>2, ChildNamedFacts
<1> HIDE DEF gs, d
<1>10. LeadsTo(gs, <<d, k>>, dir, k)
  <2>1. ResolveParent(gs, <<d, k>>) = dir /\ LastName(<<d, k>>) = k
    BY <1>5, <1>7, <1>8, ParentOfTwo
  <2>2. ResolveNode(gs, <<d, k>>) = ChildNamed(gs, dir, k) BY <1>5, ResolveShort, Zenon
  <2> QED BY <1>8, <2>1, <2>2 DEF LeadsTo, None
<1>11. ChildNamed(gs, dir, k) \notin {0, 1, 2, 3}
  <2>1. CASE ChildNamed(gs, dir, k) = None BY <2>1 DEF None
  <2>2. CASE ChildNamed(gs, dir, k) # None
    <3>1. /\ ChildNamed(gs, dir, k) \in NodeIds \ {0}
          /\ gs.nodes[ChildNamed(gs, dir, k)].parent = dir
      BY <2>2, ChildNamedFacts
    <3> QED BY <1>9, <3>1
  <2> QED BY <2>1, <2>2, Zenon
<1> QED BY <1>1, <1>3, <1>4, <1>10, <1>11 DEF gs

\* What is read at the paths of the services.
LEMMA ReadsLog ==
  ASSUME VfsInv, DirsInv PROVE Content(LogPath) = ValueAt(disks[VarFs], 0, "kernel.log")
<1>1. /\ FsOf(LogPath) = VarFs
      /\ ResolveNode(disks[VarFs], Relative(LogPath)) = ChildNamed(disks[VarFs], 0, "kernel.log")
  BY LogPathLeads DEF LeadsTo
<1> QED BY <1>1 DEF Content, ValueAt

LEMMA ReadsEntry ==
  ASSUME VfsInv, DirsInv, NEW dir \in {2, 3}, NEW k \in Keys
  PROVE  Content(Entry(dir, k)) = ValueAt(disks[RootFs], dir, k)
<1>1. /\ FsOf(Entry(dir, k)) = RootFs
      /\ ResolveNode(disks[RootFs], Relative(Entry(dir, k))) = ChildNamed(disks[RootFs], dir, k)
  BY EntryLeads, Zenon DEF LeadsTo
<1> QED BY <1>1 DEF Content, ValueAt

-----------------------------------------------------------------------------
\* A step that changes one file system and keeps its entries.
ChangesOne(f, gs) ==
  /\ disks' = [disks EXCEPT ![f] = gs] /\ mounts' = mounts
  /\ NodesOK(gs, DirsOf(f))
  /\ \A p, q : ChildNamed(disks[f], p, q) # None =>
       ChildNamed(gs, p, q) = ChildNamed(disks[f], p, q)

LEMMA DirsKept ==
  ASSUME VfsInv, DirsInv, NEW f \in FileSystems, NEW gs, ChangesOne(f, gs)
  PROVE  DirsInv'
<1>1. /\ disks'[f] = gs /\ \A g \in FileSystems \ {f} : disks'[g] = disks[g]
  BY DEF ChangesOne, VfsInv, VfsTypes
<1>2. ServiceMounts' BY DEF DirsInv, ServiceMounts, ChangesOne
<1>3. ASSUME NEW g \in FileSystems PROVE NodesOK(disks'[g], DirsOf(g))
  <2>1. CASE g = f BY <1>1, <2>1 DEF ChangesOne
  <2>2. CASE g # f BY <1>1, <2>2 DEF DirsInv
  <2> QED BY <2>1, <2>2
<1>4. ASSUME NEW name, ChildNamed(disks[RootFs], 0, name) # None
      PROVE  ChildNamed(disks'[RootFs], 0, name) = ChildNamed(disks[RootFs], 0, name)
  <2>1. CASE f = RootFs BY <1>1, <1>4, <2>1, Zenon DEF ChangesOne
  <2>2. CASE f # RootFs BY <1>1, <2>2, ServicesAssumption, Zenon
  <2> QED BY <2>1, <2>2
<1>5. 1 # None /\ 2 # None /\ 3 # None BY DEF None
<1>6. /\ ChildNamed(disks'[RootFs], 0, "var") = 1
      /\ ChildNamed(disks'[RootFs], 0, "settings") = 2
      /\ ChildNamed(disks'[RootFs], 0, "devices") = 3
  BY <1>4, <1>5, Zenon DEF DirsInv
<1> QED BY <1>2, <1>3, <1>6, Zenon DEF DirsInv

LEMMA LogKept ==
  ASSUME VfsInv, LogInv, NEW f \in FileSystems, NEW gs, disks' = [disks EXCEPT ![f] = gs],
         f = VarFs => ValueAt(gs, 0, "kernel.log") = ValueAt(disks[f], 0, "kernel.log"),
         UNCHANGED <<log_offset, appended>>
  PROVE  LogInv'
<1>1. disks'[f] = gs /\ \A g \in FileSystems \ {f} : disks'[g] = disks[g]
  BY Zenon DEF VfsInv, VfsTypes
<1>2. ValueAt(disks'[VarFs], 0, "kernel.log") = ValueAt(disks[VarFs], 0, "kernel.log")
  BY <1>1, ServicesAssumption
<1> QED BY <1>2 DEF LogInv

LEMMA EntriesKept ==
  ASSUME VfsInv, EntriesInv, NEW f \in FileSystems, NEW gs, disks' = [disks EXCEPT ![f] = gs],
         f = RootFs => \A dir \in {2, 3}, k \in Keys :
                         ValueAt(gs, dir, k) = ValueAt(disks[f], dir, k),
         UNCHANGED <<stored, emptied>>
  PROVE  EntriesInv'
<1>1. disks'[f] = gs /\ \A g \in FileSystems \ {f} : disks'[g] = disks[g]
  BY Zenon DEF VfsInv, VfsTypes
<1>2. ASSUME NEW dir \in {2, 3}, NEW k \in Keys
      PROVE  ValueAt(disks'[RootFs], dir, k) = ValueAt(disks[RootFs], dir, k)
  BY <1>1, ServicesAssumption, Zenon
<1>3. ASSUME NEW dir \in {2, 3}, NEW k \in Keys
      PROVE  ValueAt(disks'[RootFs], dir, k) = Promised(Entry(dir, k))'
  BY <1>2, Zenon DEF EntriesInv, Promised, Entry, SettingPath, DevicePath
<1>4. stored' \in [ValuePaths -> Seq(Nat)] BY Zenon DEF EntriesInv
<1> QED BY <1>3, <1>4, Zenon DEF EntriesInv

\* log_service_append
LEMMA LogStep ==
  ASSUME ServicesInv, SlotsSuffice, NEW t \in Texts, LogAppend(t) PROVE ServicesInv'
<1> USE ServicesAssumption
<1> DEFINE fs == disks[VarFs]
           flags == {"WRITE", "CREATE"}
           done == WriteFile(LogPath, flags, log_offset, t)
<1>1. /\ disks' = [disks EXCEPT ![VarFs] = done.fs]
      /\ IF done.status = "OK"
         THEN log_offset' = log_offset + done.out /\ appended' = appended \o t
         ELSE UNCHANGED <<log_offset, appended>>
      /\ UNCHANGED <<mounts, handles, stored, emptied>>
  BY Zenon DEF LogAppend
<1>2. VfsInv /\ DirsInv /\ LogInv /\ EntriesInv BY DEF ServicesInv
<1>3. Kept(ValueAt(fs, 0, "kernel.log"), flags) = appended
  BY <1>2 DEF LogInv, Kept
<1>4. Wrote(fs, done, DirsOf(VarFs), 0, "kernel.log", flags, t)
  <2>1. NodesOK(fs, DirsOf(VarFs)) BY <1>2, Zenon DEF DirsInv
  <2>2. log_offset = Len(Kept(ValueAt(fs, 0, "kernel.log"), flags)) BY <1>2, <1>3 DEF LogInv
  <2>3. /\ ResolveMount(LogPath) # 0 /\ FsOf(LogPath) = VarFs
        /\ LeadsTo(fs, Relative(LogPath), 0, "kernel.log")
        /\ ChildNamed(fs, 0, "kernel.log") \notin DirsOf(VarFs)
    BY <1>2, LogPathLeads
  <2>4. {"WRITE", "CREATE"} \subseteq flags /\ t \in Seq(Nat) OBVIOUS
  <2> HIDE DEF flags
  <2> QED BY <1>2, <2>1, <2>2, <2>3, <2>4, WriteFileEffect, Zenon
<1> HIDE DEF done
<1>5. VfsInv'
  <2>1. FsOK(done.fs) /\ SameOpen(fs, done.fs) BY <1>4, Zenon DEF Wrote
  <2> QED BY <1>1, <1>2, <2>1, SameOpenKeeps, Zenon
<1>6. DirsInv'
  <2>1. ChangesOne(VarFs, done.fs) BY <1>1, <1>4, Zenon DEF ChangesOne, Wrote, KeepsOthers
  <2> QED BY <1>2, <2>1, DirsKept
<1>7. EntriesInv'
  <2>1. VarFs # RootFs /\ UNCHANGED <<stored, emptied>> BY <1>1
  <2> QED BY <1>1, <1>2, <2>1, EntriesKept, Zenon
<1>8. LogInv'
  <2>1. CASE done.status = "OK"
    <3>1. /\ done.out = Len(t) /\ ValueAt(done.fs, 0, "kernel.log") = appended \o t
      BY <1>3, <1>4, <2>1, Zenon DEF Wrote
    <3>2. disks'[VarFs] = done.fs BY <1>1, <1>2, Zenon DEF VfsInv, VfsTypes
    <3>3. /\ appended \in Seq(Nat) /\ log_offset = Len(appended) /\ t \in Seq(Nat)
      BY <1>2 DEF LogInv
    <3>4. log_offset' = log_offset + Len(t) /\ appended' = appended \o t BY <1>1, <2>1, <3>1
    <3>5. appended' \in Seq(Nat) /\ log_offset' = Len(appended') BY <3>3, <3>4
    <3>6. ValueAt(disks'[VarFs], 0, "kernel.log") = appended' BY <3>1, <3>2, <3>4
    <3> QED BY <3>5, <3>6, Zenon DEF LogInv
  <2>2. CASE done.status # "OK"
    <3>1. ValueAt(done.fs, 0, "kernel.log") = ValueAt(fs, 0, "kernel.log")
      BY <1>4, <2>2, Zenon DEF Wrote
    <3>2. UNCHANGED <<log_offset, appended>> BY <1>1, <2>2, Zenon
    <3> QED BY <1>1, <1>2, <3>1, <3>2, LogKept, Zenon
  <2> QED BY <2>1, <2>2
<1> QED BY <1>5, <1>6, <1>7, <1>8 DEF ServicesInv

\* Different entries have different paths.
LEMMA EntriesDiffer ==
  ASSUME NEW a \in {2, 3}, NEW b \in {2, 3}, NEW j, NEW k, Entry(a, j) = Entry(b, k)
  PROVE  a = b /\ j = k
BY DEF Entry, SettingPath, DevicePath

\* settings_service_set and device_service_publish
LEMMA StoreStep ==
  ASSUME ServicesInv, SlotsSuffice, NEW dir \in {2, 3}, NEW k \in Keys, NEW t \in Texts,
         Store(Entry(dir, k), t)
  PROVE  ServicesInv'
<1> USE ServicesAssumption
<1> DEFINE fs == disks[RootFs]
           flags == {"WRITE", "CREATE", "TRUNC"}
           path == Entry(dir, k)
           done == WriteFile(path, flags, 0, t)
           lost == Len(t) > Capacity /\ FreeHandles # {}
<1>1. /\ disks' = [disks EXCEPT ![RootFs] = done.fs]
      /\ IF done.status = "OK"
         THEN stored' = [stored EXCEPT ![path] = t] /\ emptied' = emptied \ {path}
         ELSE stored' = stored /\ emptied' = IF lost THEN emptied \cup {path} ELSE emptied
      /\ UNCHANGED <<mounts, handles, log_offset, appended>>
  BY Zenon DEF Store, WriteValue
<1>2. VfsInv /\ DirsInv /\ LogInv /\ EntriesInv /\ t \in Seq(Nat) BY Zenon DEF ServicesInv
<1>3. Kept(ValueAt(fs, dir, k), flags) = <<>> BY DEF Kept
<1>4. Wrote(fs, done, DirsOf(RootFs), dir, k, flags, t)
  <2>1. NodesOK(fs, DirsOf(RootFs)) BY <1>2, Zenon DEF DirsInv
  <2>2. 0 = Len(Kept(ValueAt(fs, dir, k), flags)) BY <1>3
  <2>3. /\ ResolveMount(path) # 0 /\ FsOf(path) = RootFs
        /\ LeadsTo(fs, Relative(path), dir, k)
        /\ ChildNamed(fs, dir, k) \notin DirsOf(RootFs)
    BY <1>2, EntryLeads
  <2>4. {"WRITE", "CREATE"} \subseteq flags OBVIOUS
  <2> HIDE DEF flags, path
  <2> QED BY <1>2, <2>1, <2>2, <2>3, <2>4, WriteFileEffect, Zenon
<1> HIDE DEF done
<1>5. VfsInv'
  <2>1. FsOK(done.fs) /\ SameOpen(fs, done.fs) BY <1>4, Zenon DEF Wrote
  <2> QED BY <1>1, <1>2, <2>1, SameOpenKeeps, Zenon
<1>6. DirsInv'
  <2>1. ChangesOne(RootFs, done.fs) BY <1>1, <1>4, Zenon DEF ChangesOne, Wrote, KeepsOthers
  <2> QED BY <1>2, <2>1, DirsKept, Zenon
<1>7. LogInv'
  <2>1. RootFs # VarFs /\ UNCHANGED <<log_offset, appended>> BY <1>1
  <2> QED BY <1>1, <1>2, <2>1, LogKept, Zenon
<1>8. disks'[RootFs] = done.fs BY <1>1, <1>2, Zenon DEF VfsInv, VfsTypes
<1>9. path \in ValuePaths BY Zenon DEF Entry, ValuePaths
<1>10. stored \in [ValuePaths -> Seq(Nat)] BY <1>2 DEF EntriesInv
<1>11. stored' \in [ValuePaths -> Seq(Nat)] BY <1>1, <1>2, <1>9, <1>10, Zenon
<1> HIDE DEF path, lost
<1>12. ASSUME NEW a \in {2, 3}, NEW j \in Keys
       PROVE  ValueAt(disks'[RootFs], a, j) = Promised(Entry(a, j))'
  <2> DEFINE other == Entry(a, j)
  <2>1. ValueAt(fs, a, j) = IF other \in emptied THEN <<>> ELSE stored[other]
    BY <1>2, Zenon DEF EntriesInv, Promised
  <2>2. Promised(other)' = IF other \in emptied' THEN <<>> ELSE stored'[other]
    BY Zenon DEF Promised, Entry, SettingPath, DevicePath
  <2>3. other \in ValuePaths BY DEF Entry, ValuePaths
  <2>4. CASE a # dir \/ j # k
    <3>1. other # path BY <2>4, EntriesDiffer DEF path
    <3>2. ValueAt(done.fs, a, j) = ValueAt(fs, a, j) BY <1>4, <2>4, Zenon DEF Wrote, KeepsOthers
    <3> HIDE DEF other
    <3>3. other \in emptied' <=> other \in emptied BY <1>1, <3>1, Zenon
    <3>4. stored'[other] = stored[other] BY <1>1, <1>10, <2>3, <3>1, Zenon
    <3> QED BY <1>8, <2>1, <2>2, <3>2, <3>3, <3>4, Zenon DEF other
  <2>5. CASE a = dir /\ j = k
    <3>1. other = path BY <2>5 DEF path
    <3> HIDE DEF other
    <3>2. CASE done.status = "OK"
      <4>1. ValueAt(done.fs, dir, k) = <<>> \o t BY <1>3, <1>4, <3>2, Zenon DEF Wrote
      <4>2. ValueAt(done.fs, dir, k) = t BY <1>2, <4>1
      <4>3. other \notin emptied' /\ stored'[other] = t BY <1>1, <1>9, <1>10, <3>1, <3>2, Zenon
      <4> QED BY <1>8, <2>2, <2>5, <4>2, <4>3, Zenon DEF other
    <3>3. CASE done.status # "OK" /\ lost
      <4>1. ValueAt(done.fs, dir, k) = <<>> BY <1>4, <3>3, Zenon DEF Wrote, lost
      <4>2. other \in emptied' BY <1>1, <3>1, <3>3, Zenon
      <4> QED BY <1>8, <2>2, <2>5, <4>1, <4>2 DEF other
    <3>4. CASE done.status # "OK" /\ ~lost
      <4>1. ValueAt(done.fs, dir, k) = ValueAt(fs, dir, k) BY <1>4, <3>4, Zenon DEF Wrote, lost
      <4>2. emptied' = emptied /\ stored' = stored BY <1>1, <3>4
      <4> QED BY <1>8, <2>1, <2>2, <2>5, <4>1, <4>2, Zenon DEF other
    <3> QED BY <3>2, <3>3, <3>4
  <2> QED BY <2>4, <2>5
<1>13. EntriesInv' BY <1>11, <1>12, Zenon DEF EntriesInv
<1> QED BY <1>5, <1>6, <1>7, <1>13 DEF ServicesInv

\* A step of another client, which changes no value.
LEMMA StillStep ==
  ASSUME ServicesInv, VfsInv', NEW f \in FileSystems, NEW gs,
         disks' = [disks EXCEPT ![f] = gs], mounts' = mounts,
         NodesOK(gs, DirsOf(f)), Still(disks[f], gs),
         UNCHANGED <<log_offset, appended, stored, emptied>>
  PROVE  ServicesInv'
<1>1. VfsInv /\ DirsInv /\ LogInv /\ EntriesInv BY DEF ServicesInv
<1>2. ChangesOne(f, gs) BY Zenon DEF ChangesOne, Still
<1>3. DirsInv' BY <1>1, <1>2, DirsKept
<1>4. LogInv'
  <2>1. ValueAt(gs, 0, "kernel.log") = ValueAt(disks[f], 0, "kernel.log") BY DEF Still
  <2> QED BY <1>1, <2>1, LogKept, Zenon
<1>5. EntriesInv'
  <2>1. \A dir \in {2, 3}, k \in Keys : ValueAt(gs, dir, k) = ValueAt(disks[f], dir, k)
    BY Zenon DEF Still
  <2> QED BY <1>1, <2>1, EntriesKept, Zenon
<1> QED BY <1>3, <1>4, <1>5 DEF ServicesInv

LEMMA ClientStep == ASSUME ServicesInv, Client PROVE ServicesInv'
<1>1. VfsInv /\ \A f \in FileSystems : FsOK(disks[f]) /\ NodesOK(disks[f], DirsOf(f))
  BY Zenon DEF ServicesInv, DirsInv, VfsInv, VfsTypes
<1>2. UNCHANGED <<log_offset, appended, stored, emptied>> BY Zenon DEF Client
<1>3. ASSUME NEW p \in Paths, NEW fl \in Flags, VfsOpen(p, fl) PROVE ServicesInv'
  <2> DEFINE f == FsOf(p)
             gs == Opened(p, fl).fs
  <2>1. VfsInv' BY <1>1, <1>3, OpenKeeps, Zenon
  <2>2. f \in FileSystems BY <1>1, <1>3, ResolveMountType, Zenon DEF VfsOpen, OpenPasses, VfsInv
  <2>3. disks' = [disks EXCEPT ![f] = gs] /\ mounts' = mounts BY <1>3, Zenon DEF VfsOpen
  <2>4. NodesOK(gs, DirsOf(f)) /\ Still(disks[f], gs)
    <3>1. "WRITE" \notin fl BY ServicesAssumption
    <3> QED BY <1>1, <2>2, <3>1, ReaderOpens, Zenon DEF Opened
  <2> HIDE DEF gs, f
  <2> QED BY <1>2, <2>1, <2>2, <2>3, <2>4, StillStep, Zenon
<1>4. ASSUME NEW h \in Handles, VfsClose(h) PROVE ServicesInv'
  <2> DEFINE f == Behind(h)
             gs == OpClose(disks[f], Backend(h)).fs
  <2>1. VfsInv' BY <1>1, <1>4, CloseKeeps
  <2>2. f \in FileSystems BY <1>1, <1>4, BehindType DEF VfsClose, VfsInv
  <2>3. disks' = [disks EXCEPT ![f] = gs] /\ mounts' = mounts BY <1>4 DEF VfsClose
  <2>4. gs.nodes = disks[f].nodes
    <3> DEFINE fs == disks[f]
    <3>1. gs = fs \/ gs = [fs EXCEPT !.open[Backend(h)] = Closed] BY Zenon DEF OpClose, Result
    <3>2. DOMAIN fs = {"nodes", "open"} BY <1>1, <2>2, Zenon DEF FsOK
    <3> HIDE DEF gs, fs
    <3>3. gs.nodes = fs.nodes BY <3>1, <3>2
    <3> QED BY <3>3 DEF fs
  <2> HIDE DEF gs, f
  <2>5. NodesOK(gs, DirsOf(f)) /\ Still(disks[f], gs) BY <1>1, <2>2, <2>4, SameNodesStill, Zenon
  <2> QED BY <1>2, <2>1, <2>2, <2>3, <2>5, StillStep, Zenon
<1>5. ASSUME NEW h \in Handles, NEW n \in 1..Capacity, VfsRead(h, n) PROVE ServicesInv'
  <2> DEFINE f == Behind(h)
             gs == OpRead(disks[f], Backend(h), n).fs
  <2>1. f \in FileSystems /\ Backend(h) \in Opens
    BY <1>1, <1>5, BehindType, Zenon DEF VfsRead, VfsInv
  <2>2. disks' = [disks EXCEPT ![f] = gs] /\ UNCHANGED <<mounts, handles>> BY <1>5, Zenon DEF VfsRead
  <2>3. VfsInv'
    <3>1. FsOK(gs) /\ SameOpen(disks[f], gs) BY <1>1, <2>1, OpReadOpen, Zenon
    <3> QED BY <1>1, <2>1, <2>2, <3>1, SameOpenKeeps, Zenon
  <2>4. gs.nodes = disks[f].nodes
    <3> DEFINE fs == disks[f]
               open == fs.open[Backend(h)]
               node == fs.nodes[open.node]
               take == IF open.offset >= node.size THEN 0
                       ELSE Min({n, node.size - open.offset})
    <3>1. gs = fs \/ gs = [fs EXCEPT !.open[Backend(h)].offset = @ + take]
      BY Zenon DEF OpRead, Result
    <3>2. DOMAIN fs = {"nodes", "open"} BY <1>1, <2>1, Zenon DEF FsOK
    <3> HIDE DEF gs, fs, take
    <3>3. gs.nodes = fs.nodes BY <3>1, <3>2
    <3> QED BY <3>3 DEF fs
  <2> HIDE DEF gs, f
  <2>5. NodesOK(gs, DirsOf(f)) /\ Still(disks[f], gs) BY <1>1, <2>1, <2>4, SameNodesStill
  <2>6. mounts' = mounts BY <2>2
  <2> QED BY <1>2, <2>1, <2>2, <2>3, <2>5, <2>6, StillStep, Zenon
<1> QED BY <1>3, <1>4, <1>5 DEF Client

-----------------------------------------------------------------------------
\* The names of the directories in the order of their nodes.
DirNames == <<"var", "settings", "devices">>

\* A directory under the root, and a node that nobody has taken.
Fresh(node) ==
  /\ DOMAIN node = {"used", "parent", "type", "permissions", "size", "name", "data"}
  /\ node.used \in BOOLEAN /\ node.size = 0 /\ node.data = Blank

IsDir(node, name) ==
  /\ Fresh(node) /\ node.used /\ node.type = "DIRECTORY"
  /\ node.parent = 0 /\ node.name = name

IsUnused(node) == Fresh(node) /\ ~node.used

LEMMA NewDir == ASSUME NEW name PROVE IsDir(Node(0, "DIRECTORY", ReadWrite, name), name)
BY Zenon DEF Node, IsDir, Fresh

LEMMA UnusedNode == IsUnused(Unused)
BY DEF Unused, Node, IsUnused, Fresh

\* A file system that holds the first m directories and nothing else.
HasDirs(fs, m) ==
  /\ FsOK(fs) /\ \A o \in Opens : ~fs.open[o].used
  /\ IsDir(fs.nodes[0], BadName)
  /\ \A i \in 1..m : IsDir(fs.nodes[i], DirNames[i])
  /\ \A i \in NodeIds : i > m => IsUnused(fs.nodes[i])

\* tmpfs_init
LEMMA EmptyHasDirs == HasDirs(EmptyFs, 0)
<1>1. FsOK(EmptyFs) /\ \A o \in Opens : ~EmptyFs.open[o].used BY Zenon DEF EmptyFs, FsOK, Closed
<1>2. \A i \in NodeIds : EmptyFs.nodes[i] =
        IF i = 0 THEN Node(0, "DIRECTORY", ReadWrite, BadName) ELSE Unused
  BY DEF EmptyFs, ReadWrite
<1>3. IsDir(EmptyFs.nodes[0], BadName) BY <1>2, NewDir
<1>4. \A i \in NodeIds : i > 0 => IsUnused(EmptyFs.nodes[i]) BY <1>2, UnusedNode
<1> QED BY <1>1, <1>3, <1>4 DEF HasDirs

\* vfs_mkdir of the next directory.
LEMMA NextDir ==
  ASSUME NEW fs, NEW m \in 0..2, HasDirs(fs, m)
  PROVE  HasDirs(WithDir(fs, DirNames[m + 1]), m + 1)
<1> USE ServicesAssumption
<1> DEFINE name == DirNames[m + 1]
           path == <<name>>
           free == {i \in NodeIds \ {0} : ~fs.nodes[i].used}
           new == Node(0, "DIRECTORY", ReadWrite, name)
           made == CreateNode(fs, path, "DIRECTORY", ReadWrite)
<1>1. name # BadName /\ \A i \in 1..m : DirNames[i] # name BY DEF DirNames
<1> HIDE DEF name
<1>2. ResolveParent(fs, path) = 0 /\ LastName(path) = name
  <2>1. fs.nodes[0].type = "DIRECTORY" BY Zenon DEF HasDirs, IsDir
  <2> QED BY <1>1, <2>1, ParentOfOne, Zenon
<1>3. ASSUME NEW i \in NodeIds \ {0} PROVE fs.nodes[i].used <=> i <= m
  <2>1. CASE i <= m
    <3>1. i \in 1..m BY <2>1
    <3> QED BY <2>1, <3>1, Zenon DEF HasDirs, IsDir
  <2>2. CASE i > m BY <2>2 DEF HasDirs, IsUnused
  <2> QED BY <2>1, <2>2
<1>4. ChildNamed(fs, 0, name) = None
  <2> SUFFICES ASSUME ChildNamed(fs, 0, name) # None PROVE FALSE OBVIOUS
  <2> DEFINE c == ChildNamed(fs, 0, name)
  <2>1. c \in NodeIds \ {0} /\ fs.nodes[c].used /\ fs.nodes[c].name = name
    BY ChildNamedFacts
  <2> HIDE DEF c
  <2>2. c \in 1..m
    <3>1. c <= m BY <1>3, <2>1, Zenon
    <3> QED BY <2>1, <3>1
  <2>3. fs.nodes[c].name = DirNames[c] BY <2>2, Zenon DEF HasDirs, IsDir
  <2> QED BY <1>1, <2>1, <2>2, <2>3, Zenon
<1>5. free # {} /\ Min(free) = m + 1
  <2>1. m + 1 \in NodeIds \ {0} OBVIOUS
  <2>2. m + 1 \in free BY <1>3, <2>1
  <2>3. free \in SUBSET Nat OBVIOUS
  <2>4. Min(free) \in free /\ Min(free) <= m + 1 BY <2>2, <2>3, MinIsMember, Zenon
  <2>5. Min(free) \in NodeIds \ {0} /\ ~fs.nodes[Min(free)].used BY <2>4, Zenon
  <2> HIDE DEF free
  <2>6. ~(Min(free) <= m) BY <1>3, <2>5, Zenon
  <2> QED BY <2>2, <2>4, <2>5, <2>6
<1>6. made.fs = [fs EXCEPT !.nodes[m + 1] = new]
  <2> DEFINE with(n) == [fs EXCEPT !.nodes[n] = new]
  <2>1. 0 # None BY DEF None
  <2>2. made = Result("OK", with(Min(free)), Min(free))
    <3> HIDE DEF path
    <3> QED BY <1>2, <1>4, <1>5, <2>1, Zenon DEF CreateNode
  <2> HIDE DEF with, made, free
  <2>3. made.fs = with(m + 1) BY <1>5, <2>2 DEF Result
  <2> QED BY <2>3 DEF with
<1>7. WithDir(fs, name) = made.fs BY DEF WithDir, OpMkdir
<1>8. FsOK(made.fs) /\ SameOpen(fs, made.fs)
  <2>1. FsOK(fs) BY Zenon DEF HasDirs
  <2> QED BY <2>1, CreateNodeOpen, Zenon DEF MakesNode
<1>9. IsDir(new, name) BY NewDir
<1> HIDE DEF made, new
<1>10. made.fs.nodes = [fs.nodes EXCEPT ![m + 1] = new] BY <1>6, Zenon DEF HasDirs, FsOK
<1>11. made.fs.nodes[m + 1] = new
  <2>1. m + 1 \in NodeIds OBVIOUS
  <2> QED BY <1>10, <2>1, Zenon DEF HasDirs, FsOK
<1>12. \A i \in NodeIds \ {m + 1} : made.fs.nodes[i] = fs.nodes[i]
  BY <1>10, Zenon DEF HasDirs, FsOK
<1>13. IsDir(made.fs.nodes[0], BadName) BY <1>12 DEF HasDirs
<1>14. ASSUME NEW i \in 1..(m + 1) PROVE IsDir(made.fs.nodes[i], DirNames[i])
  <2>1. CASE i = m + 1 BY <1>9, <1>11, <2>1 DEF name
  <2>2. CASE i # m + 1
    <3>1. i \in 1..m /\ i \in NodeIds BY <2>2
    <3> QED BY <1>12, <2>2, <3>1, Zenon DEF HasDirs
  <2> QED BY <2>1, <2>2, Zenon
<1>15. \A i \in NodeIds : i > m + 1 => IsUnused(made.fs.nodes[i]) BY <1>12 DEF HasDirs
<1>16. HasDirs(made.fs, m + 1)
  BY <1>8, <1>13, <1>14, <1>15, Zenon DEF HasDirs, SameOpen
<1> QED BY <1>7, <1>16 DEF name

\* A file system with m directories holds no value.
LEMMA DirsAlone ==
  ASSUME NEW fs, NEW m \in 0..3, HasDirs(fs, m)
  PROVE  /\ NodesOK(fs, 0..m)
         /\ \A i \in 1..m : ChildNamed(fs, 0, DirNames[i]) = i
         /\ \A dir, name : dir # 0 \/ m = 0 => ValueAt(fs, dir, name) = <<>>
<1> USE ServicesAssumption
<1>1. \A i, j \in 1..m : DirNames[i] = DirNames[j] => i = j BY DEF DirNames
<1>2. \A i \in 1..m : DirNames[i] # BadName BY DEF DirNames
<1>3. Blank \in [1..Capacity -> Nat] BY DEF Blank
<1>4. ASSUME NEW i \in NodeIds
      PROVE  /\ Fresh(fs.nodes[i]) /\ (fs.nodes[i].used <=> i <= m)
             /\ i <= m => fs.nodes[i].type = "DIRECTORY" /\ fs.nodes[i].parent = 0
  <2>1. CASE i = 0 BY <2>1 DEF HasDirs, IsDir
  <2>2. CASE i \in 1..m BY <2>2 DEF HasDirs, IsDir
  <2>3. CASE i > m BY <2>3 DEF HasDirs, IsUnused
  <2> QED BY <2>1, <2>2, <2>3
<1>5. NodesOK(fs, 0..m)
  <2> SUFFICES ASSUME NEW i \in NodeIds
               PROVE  /\ DOMAIN fs.nodes[i] =
                           {"used", "parent", "type", "permissions", "size", "name", "data"}
                      /\ fs.nodes[i].used \in BOOLEAN
                      /\ fs.nodes[i].size \in 0..Capacity
                      /\ fs.nodes[i].data \in [1..Capacity -> Nat]
                      /\ i \in 0..m => fs.nodes[i].used /\ fs.nodes[i].type = "DIRECTORY"
                      /\ fs.nodes[i].used /\ i \notin 0..m =>
                           fs.nodes[i].type = "FILE" /\ fs.nodes[i].permissions = ReadWrite
    BY Zenon DEF NodesOK
  <2> DEFINE node == fs.nodes[i]
  <2>1. Fresh(node) /\ (node.used <=> i <= m) /\ (i <= m => node.type = "DIRECTORY") BY <1>4, Zenon
  <2>2. 0 \in 0..Capacity /\ (i \in 0..m <=> i <= m) OBVIOUS
  <2> HIDE DEF node
  <2>3. node.size \in 0..Capacity /\ node.data \in [1..Capacity -> Nat]
    BY <1>3, <2>1, <2>2, Zenon DEF Fresh
  <2>4. /\ DOMAIN node = {"used", "parent", "type", "permissions", "size", "name", "data"}
        /\ node.used \in BOOLEAN
    BY <2>1, Zenon DEF Fresh
  <2>5. node.used => i \in 0..m BY <2>1, <2>2
  <2>6. i \in 0..m => node.used /\ node.type = "DIRECTORY" BY <2>1, <2>2
  <2> QED BY <2>3, <2>4, <2>5, <2>6, Zenon DEF node
<1>6. ASSUME NEW i \in 1..m PROVE ChildNamed(fs, 0, DirNames[i]) = i
  <2> DEFINE name == DirNames[i]
             c == ChildNamed(fs, 0, name)
  <2>1. i \in NodeIds \ {0} OBVIOUS
  <2>2. fs.nodes[i].used /\ fs.nodes[i].parent = 0 /\ fs.nodes[i].name = name
    BY Zenon DEF HasDirs, IsDir
  <2>3. name # BadName BY <1>2
  <2> HIDE DEF name
  <2>4. c # None BY <2>1, <2>2, <2>3, ChildNamedFacts
  <2>5. c \in NodeIds \ {0} /\ fs.nodes[c].used /\ fs.nodes[c].name = name
    BY <2>4, ChildNamedFacts
  <2> HIDE DEF c
  <2>6. c \in 1..m
    <3>1. c <= m BY <1>4, <2>5, Zenon
    <3> QED BY <2>5, <3>1
  <2>7. fs.nodes[c].name = DirNames[c] BY <2>6, Zenon DEF HasDirs, IsDir
  <2> QED BY <1>1, <2>5, <2>6, <2>7, Zenon DEF name, c
<1>7. ASSUME NEW dir, NEW name, dir # 0 \/ m = 0 PROVE ValueAt(fs, dir, name) = <<>>
  <2>1. CASE ChildNamed(fs, dir, name) = None BY <2>1 DEF ValueAt
  <2>2. CASE ChildNamed(fs, dir, name) # None
    <3> DEFINE c == ChildNamed(fs, dir, name)
    <3>1. c \in NodeIds \ {0} /\ fs.nodes[c].used /\ fs.nodes[c].parent = dir
      BY <2>2, ChildNamedFacts
    <3> HIDE DEF c
    <3>2. c <= m /\ fs.nodes[c].parent = 0 BY <1>4, <3>1, Zenon
    <3> QED BY <1>7, <3>1, <3>2
  <2> QED BY <2>1, <2>2
<1> QED BY <1>5, <1>6, <1>7

\* storage_services_init
LEMMA ServicesInit == InitServices => ServicesInv
<1> USE ServicesAssumption
<1> SUFFICES ASSUME InitServices PROVE ServicesInv OBVIOUS
<1> DEFINE root == WithDir(WithDir(WithDir(EmptyFs, "var"), "settings"), "devices")
<1>1. HasDirs(root, 3)
  <2>1. DirNames[0 + 1] = "var" /\ DirNames[1 + 1] = "settings" /\ DirNames[2 + 1] = "devices"
    BY DEF DirNames
  <2>2. 0 \in 0..2 /\ 1 \in 0..2 /\ 2 \in 0..2 /\ 0 + 1 = 1 /\ 1 + 1 = 2 /\ 2 + 1 = 3 OBVIOUS
  <2>3. HasDirs(WithDir(EmptyFs, "var"), 1)
    <3>1. HasDirs(WithDir(EmptyFs, DirNames[0 + 1]), 0 + 1) BY <2>2, EmptyHasDirs, NextDir
    <3> QED BY <2>1, <2>2, <3>1
  <2>4. HasDirs(WithDir(WithDir(EmptyFs, "var"), "settings"), 2)
    <3>1. HasDirs(WithDir(WithDir(EmptyFs, "var"), DirNames[1 + 1]), 1 + 1)
      BY <2>2, <2>3, NextDir, Zenon
    <3> QED BY <2>1, <2>2, <3>1
  <2>5. HasDirs(WithDir(WithDir(WithDir(EmptyFs, "var"), "settings"), DirNames[2 + 1]), 2 + 1)
    BY <2>2, <2>4, NextDir
  <2> QED BY <2>1, <2>2, <2>5
<1> HIDE DEF root
<1>2. /\ mounts = <<[path |-> <<>>, context |-> RootFs], [path |-> <<"var">>, context |-> VarFs]>>
      /\ handles = [h \in Handles |-> NoHandle]
      /\ disks = [f \in FileSystems |-> IF f = RootFs THEN root ELSE EmptyFs]
      /\ log_offset = 0 /\ appended = <<>>
      /\ stored = [p \in ValuePaths |-> <<>>] /\ emptied = {}
  BY DEF InitServices, root
<1>3. disks[RootFs] = root /\ disks[VarFs] = EmptyFs
      /\ \A f \in FileSystems \ {RootFs} : disks[f] = EmptyFs
  BY <1>2
<1>4. /\ NodesOK(root, 0..3) /\ \A i \in 1..3 : ChildNamed(root, 0, DirNames[i]) = i
      /\ \A dir, name : dir # 0 => ValueAt(root, dir, name) = <<>>
  BY <1>1, DirsAlone
<1>5. NodesOK(EmptyFs, 0..0) /\ \A dir, name : ValueAt(EmptyFs, dir, name) = <<>>
  BY EmptyHasDirs, DirsAlone
<1>6. \A f \in FileSystems : FsOK(disks[f]) /\ \A o \in Opens : ~disks[f].open[o].used
  BY <1>1, <1>3, EmptyHasDirs, Zenon DEF HasDirs
<1>7. \A h \in Handles : handles[h] = NoHandle BY <1>2
<1>8. VfsInv
  <2>1. mounts \in Seq([path : AllMountPoints, context : FileSystems])
    <3> DEFINE M == [path : AllMountPoints, context : FileSystems]
               a == [path |-> <<>>, context |-> RootFs]
               b == [path |-> <<"var">>, context |-> VarFs]
    <3>1. a \in M /\ b \in M BY DEF AllMountPoints
    <3>2. mounts = <<a, b>> BY <1>2, Zenon
    <3> HIDE DEF M, a, b
    <3>3. mounts \in Seq(M) BY <3>1, <3>2
    <3> QED BY <3>3 DEF M
  <2>2. handles \in [Handles -> [used : BOOLEAN, mount : Nat, backend : Nat]]
    BY <1>2, Zenon DEF NoHandle
  <2>3. \A h \in Handles : ~handles[h].used BY <1>7 DEF NoHandle
  <2>4. DOMAIN disks = FileSystems /\ disks = [f \in FileSystems |-> disks[f]] BY <1>2
  <2>5. VfsTypes BY <1>6, <2>1, <2>2, <2>3, <2>4, Zenon DEF VfsTypes
  <2>6. HandlesOwnOpenFiles BY <1>6, <2>3, Zenon DEF HandlesOwnOpenFiles
  <2> QED BY <2>5, <2>6, Zenon DEF VfsInv
<1>9. DirsInv
  <2>1. ServiceMounts BY <1>2 DEF ServiceMounts
  <2>2. 0..3 = {0, 1, 2, 3} /\ 0..0 = {0} OBVIOUS
  <2>3. \A f \in FileSystems : NodesOK(disks[f], DirsOf(f))
    BY <1>3, <1>4, <1>5, <2>2, Zenon DEF DirsOf
  <2>4. DirNames[1] = "var" /\ DirNames[2] = "settings" /\ DirNames[3] = "devices"
    BY DEF DirNames
  <2>5. /\ ChildNamed(root, 0, DirNames[1]) = 1 /\ ChildNamed(root, 0, DirNames[2]) = 2
        /\ ChildNamed(root, 0, DirNames[3]) = 3
    BY <1>4
  <2> QED BY <1>3, <2>1, <2>3, <2>4, <2>5, Zenon DEF DirsInv
<1>10. LogInv BY <1>2, <1>3, <1>5 DEF LogInv
<1>11. EntriesInv
  <2>1. stored \in [ValuePaths -> Seq(Nat)] BY <1>2
  <2>2. ASSUME NEW dir \in {2, 3}, NEW k \in Keys
        PROVE  ValueAt(disks[RootFs], dir, k) = Promised(Entry(dir, k))
    <3>1. Entry(dir, k) \in ValuePaths BY DEF Entry, ValuePaths
    <3>2. Promised(Entry(dir, k)) = <<>> BY <1>2, <3>1, Zenon DEF Promised
    <3> QED BY <1>3, <1>4, <3>2
  <2> QED BY <2>1, <2>2 DEF EntriesInv
<1> QED BY <1>8, <1>9, <1>10, <1>11, Zenon DEF ServicesInv

-----------------------------------------------------------------------------
INSTANCE FiniteSetTheorems

\* While a handle is free every file system has a free slot: its open files have
\* different handles, and there are no more handles than slots.
LEMMA SlotIsFree ==
  ASSUME VfsInv, FreeHandles # {}, NEW f \in FileSystems
  PROVE  \E o \in Opens : ~disks[f].open[o].used
<1> SUFFICES ASSUME \A o \in Opens : disks[f].open[o].used PROVE FALSE OBVIOUS
<1>1. PICK k \in Handles : ~handles[k].used BY Zenon DEF FreeHandles
<1> DEFINE Owner(o) == CHOOSE h \in Handles : handles[h].used /\ Behind(h) = f /\ Backend(h) = o
           owner == [o \in Opens |-> Owner(o)]
<1>2. ASSUME NEW o \in Opens
      PROVE  Owner(o) \in Handles \ {k} /\ Backend(Owner(o)) = o
  <2>1. \E h \in Handles : handles[h].used /\ Behind(h) = f /\ Backend(h) = o
    BY Zenon DEF VfsInv, HandlesOwnOpenFiles
  <2>2. Owner(o) \in Handles /\ handles[Owner(o)].used /\ Backend(Owner(o)) = o BY <2>1, Zenon
  <2> QED BY <1>1, <2>2, Zenon
<1> HIDE DEF Owner
<1>3. owner \in Injection(Opens, Handles \ {k})
  BY <1>2, Zenon DEF Injection, IsInjective
<1>4. /\ IsFiniteSet(Opens) /\ Cardinality(Opens) = MaxOpen
      /\ IsFiniteSet(Handles) /\ Cardinality(Handles) = MaxHandles
  BY FS_Interval
<1>5. IsFiniteSet(Handles \ {k}) /\ Cardinality(Handles \ {k}) = MaxHandles - 1
  <2>1. IsFiniteSet(Handles \ {k})
        /\ Cardinality(Handles \ {k}) =
             IF k \in Handles THEN Cardinality(Handles) - 1 ELSE Cardinality(Handles)
    BY <1>4, FS_RemoveElement, Zenon
  <2> QED BY <1>4, <2>1, Zenon
<1>6. Cardinality(Opens) <= Cardinality(Handles \ {k}) BY <1>3, <1>5, FS_Injection
<1> QED BY <1>4, <1>5, <1>6

\* An open that fails changes nothing, although op_open makes the file before it
\* looks for a slot: the one failure after that cannot happen.
THEOREM FailedOpenIsHarmless == Spec => []FailedOpenChangesNothing
<1>1. VfsInv => FailedOpenChangesNothing BY OpenFailsClean, SlotIsFree, Zenon DEF SlotsSuffice
<1> QED BY <1>1, VfsInvariant, PTL

-----------------------------------------------------------------------------
LEMMA ServicesStep == ServicesInv /\ [NextServices]_serviceVars => ServicesInv'
<1> SUFFICES ASSUME ServicesInv, [NextServices]_serviceVars PROVE ServicesInv' OBVIOUS
<1>0. SlotsSuffice BY SlotIsFree, Zenon DEF SlotsSuffice, ServicesInv
<1>1. ASSUME NEW t \in Texts, LogAppend(t) PROVE ServicesInv' BY <1>0, <1>1, LogStep, Zenon
<1>2. ASSUME NEW t \in Texts, NEW k \in Keys, SettingsSet(k, t) PROVE ServicesInv'
  <2>1. Store(Entry(2, k), t) BY <1>2, Zenon DEF SettingsSet, Entry
  <2>2. 2 \in {2, 3} OBVIOUS
  <2> QED BY <1>0, <2>1, <2>2, StoreStep, Zenon
<1>3. ASSUME NEW t \in Texts, NEW k \in Keys, DevicePublish(k, t) PROVE ServicesInv'
  <2>1. Store(Entry(3, k), t) BY <1>3 DEF DevicePublish, Entry
  <2>2. 3 \in {2, 3} OBVIOUS
  <2> QED BY <1>0, <2>1, <2>2, StoreStep, Zenon
<1>4. CASE Client BY <1>4, ClientStep, Zenon
<1>5. CASE UNCHANGED serviceVars
  <2>1. /\ mounts' = mounts /\ handles' = handles /\ disks' = disks
        /\ UNCHANGED <<log_offset, appended, stored, emptied>>
    BY <1>5, Zenon DEF serviceVars, vars
  <2>2. VfsInv' BY <2>1, VfsStep, Zenon DEF ServicesInv, vars
  <2>3. DirsInv' BY <2>1, Zenon DEF ServicesInv, DirsInv, ServiceMounts
  <2>4. LogInv' BY <2>1, Zenon DEF ServicesInv, LogInv
  <2>5. EntriesInv' BY <2>1, Zenon DEF ServicesInv, EntriesInv, Promised, Entry, SettingPath, DevicePath
  <2> QED BY <2>2, <2>3, <2>4, <2>5, Zenon DEF ServicesInv
<1> QED BY <1>1, <1>2, <1>3, <1>4, <1>5 DEF NextServices

\* The services' files, offsets and entries stay in ServicesInv.
THEOREM ServicesInvariant == ServicesSpec => []ServicesInv
  BY ServicesInit, ServicesStep, PTL DEF ServicesSpec

\* log_service_append: the log is what was accepted, whatever failed in between and
\* whatever else is open, for every capacity and every number of nodes and handles.
THEOREM LogStaysComplete == ServicesSpec => []LogIsComplete
<1>1. ServicesInv => LogIsComplete BY ReadsLog, Zenon DEF ServicesInv, LogInv, LogIsComplete
<1> QED BY <1>1, ServicesInvariant, PTL

\* settings_service_set and device_service_publish: an entry reads as its last value.
THEOREM EntriesKeepValues == ServicesSpec => []SettingsKeepValues
<1>1. ServicesInv => SettingsKeepValues
  <2> SUFFICES ASSUME ServicesInv, NEW p \in ValuePaths PROVE Content(p) = Promised(p)
    BY Zenon DEF SettingsKeepValues, Promised
  <2>1. \E dir \in {2, 3}, k \in Keys : p = Entry(dir, k) BY DEF ValuePaths, Entry
  <2>2. PICK dir \in {2, 3}, k \in Keys : p = Entry(dir, k) BY <2>1, Zenon
  <2>3. Content(Entry(dir, k)) = ValueAt(disks[RootFs], dir, k) BY ReadsEntry, Zenon DEF ServicesInv
  <2>4. ValueAt(disks[RootFs], dir, k) = Promised(Entry(dir, k)) BY Zenon DEF ServicesInv, EntriesInv
  <2> QED BY <2>2, <2>3, <2>4, Zenon
<1> QED BY <1>1, ServicesInvariant, PTL
=============================================================================
