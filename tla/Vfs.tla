-------------------------------- MODULE Vfs --------------------------------
(***************************************************************************)
(* The virtual file system, kernel/src/vfs.c: mounts, path resolution and  *)
(* the handle table, in front of in-memory file systems (Tmpfs).           *)
(***************************************************************************)
EXTENDS Tmpfs

CONSTANTS FileSystems,                  \* the tmpfs_t objects
          MaxMounts, MaxHandles,        \* VFS_MAX_MOUNTS, VFS_MAX_HANDLES
          Paths, MountPoints, Flags, Perms, Texts   \* what clients ask for

ASSUME VfsAssumption ==
  /\ MaxMounts \in Nat \ {0} /\ MaxHandles \in Nat \ {0}
  /\ MaxHandles <= MaxOpen              \* both are 16

VARIABLES mounts,     \* the mounts in the order of their slots: path and context
          handles,    \* the handle table
          disks       \* the file systems

vars == <<mounts, handles, disks>>

Handles == 1..MaxHandles
NoHandle == [used |-> FALSE, mount |-> 0, backend |-> 0]

-----------------------------------------------------------------------------

\* mount_matches: the names of the mount point are the first names of the path.
MountMatches(mount, path) ==
  Len(mount) <= Len(path) /\ SubSeq(path, 1, Len(mount)) = mount

Matches(path) == {i \in DOMAIN mounts : MountMatches(mounts[i].path, path)}

\* resolve_mount: the longest match, the earlier of equal ones; 0 if there is none.
ResolveMount(path) ==
  LET best == {i \in Matches(path) :
                 \A j \in Matches(path) : Len(mounts[j].path) <= Len(mounts[i].path)}
  IN  IF best = {} THEN 0 ELSE Min(best)

Relative(path) == SubSeq(path, Len(mounts[ResolveMount(path)].path) + 1, Len(path))

FsOf(path) == mounts[ResolveMount(path)].context

FreeHandles == {h \in Handles : ~handles[h].used}

\* vfs_init with freshly initialised file systems.
Init ==
  /\ mounts = <<>>
  /\ handles = [h \in Handles |-> NoHandle]
  /\ disks = [f \in FileSystems |-> EmptyFs]

VfsMount(path, f) ==
  /\ Len(mounts) < MaxMounts
  /\ mounts' = Append(mounts, [path |-> path, context |-> f])
  /\ UNCHANGED <<handles, disks>>

VfsMkdir(path, perms) ==
  /\ ResolveMount(path) # 0
  /\ disks' = [disks EXCEPT ![FsOf(path)] = OpMkdir(@, Relative(path), perms).fs]
  /\ UNCHANGED <<mounts, handles>>

\* The back end's answer to vfs_open, once a handle is known to be free.
Opened(path, flags) == OpOpen(disks[FsOf(path)], Relative(path), flags)

OpenPasses(path, flags) ==
  /\ flags \cap {"READ", "WRITE"} # {}
  /\ ResolveMount(path) # 0
  /\ FreeHandles # {}

\* Faulty variant: asks the back end before it looks for a free handle.
VfsOpenBackendFirst(path, flags) ==
  /\ flags \cap {"READ", "WRITE"} # {} /\ ResolveMount(path) # 0
  /\ disks' = [disks EXCEPT ![FsOf(path)] = Opened(path, flags).fs]
  /\ handles' = IF Opened(path, flags).status = "OK" /\ FreeHandles # {}
                THEN [handles EXCEPT ![Min(FreeHandles)] =
                        [used |-> TRUE, mount |-> ResolveMount(path),
                         backend |-> Opened(path, flags).out]]
                ELSE handles
  /\ UNCHANGED mounts

VfsOpen(path, flags) ==
  /\ OpenPasses(path, flags)
  /\ disks' = [disks EXCEPT ![FsOf(path)] = Opened(path, flags).fs]
  /\ handles' = IF Opened(path, flags).status = "OK"
                THEN [handles EXCEPT ![Min(FreeHandles)] =
                        [used |-> TRUE, mount |-> ResolveMount(path),
                         backend |-> Opened(path, flags).out]]
                ELSE handles
  /\ UNCHANGED mounts

\* The file system and the open file behind a handle.
Behind(h) == mounts[handles[h].mount].context
Backend(h) == handles[h].backend

\* Faulty variant: forgets to close the back end's file.
VfsCloseKeepsBackend(h) ==
  /\ handles[h].used
  /\ handles' = [handles EXCEPT ![h] = NoHandle]
  /\ UNCHANGED <<mounts, disks>>

VfsClose(h) ==
  /\ handles[h].used
  /\ disks' = [disks EXCEPT ![Behind(h)] = OpClose(@, Backend(h)).fs]
  /\ handles' = [handles EXCEPT ![h] = NoHandle]
  /\ UNCHANGED mounts

VfsRead(h, length) ==
  /\ handles[h].used
  /\ disks' = [disks EXCEPT ![Behind(h)] = OpRead(@, Backend(h), length).fs]
  /\ UNCHANGED <<mounts, handles>>

VfsWrite(h, bytes) ==
  /\ handles[h].used
  /\ disks' = [disks EXCEPT ![Behind(h)] = OpWrite(@, Backend(h), bytes).fs]
  /\ UNCHANGED <<mounts, handles>>

VfsSeek(h, offset) ==
  /\ handles[h].used
  /\ disks' = [disks EXCEPT ![Behind(h)] = OpSeek(@, Backend(h), offset).fs]
  /\ UNCHANGED <<mounts, handles>>

TmpfsSetPermissions(f, path, perms) ==
  /\ disks' = [disks EXCEPT ![f] = SetPermissions(@, path, perms).fs]
  /\ UNCHANGED <<mounts, handles>>

Next ==
  \/ \E p \in MountPoints, f \in FileSystems : VfsMount(p, f)
  \/ \E p \in Paths :
       \/ \E r \in Perms : VfsMkdir(p, r)
       \/ \E fl \in Flags : VfsOpen(p, fl)
       \/ \E f \in FileSystems, r \in Perms : TmpfsSetPermissions(f, p, r)
  \/ \E h \in Handles :
       \/ VfsClose(h)
       \/ \E n \in 0..Capacity : VfsRead(h, n)
       \/ \E t \in Texts : VfsWrite(h, t)
       \/ \E n \in 0..(Capacity + 1) : VfsSeek(h, n)

Spec == Init /\ [][Next]_vars

-----------------------------------------------------------------------------

\* The handles and the open files of the file systems are in step: a handle in
\* use has its own open file, and an open file has a handle that will close it.
\* Otherwise files would be shared by strangers or slots leak.
HandlesOwnOpenFiles ==
  /\ \A h \in Handles : handles[h].used => disks[Behind(h)].open[Backend(h)].used
  /\ \A g, h \in Handles :
       handles[g].used /\ handles[h].used /\ Behind(g) = Behind(h) /\ Backend(g) = Backend(h)
         => g = h
  /\ \A f \in FileSystems, o \in Opens : disks[f].open[o].used =>
       \E h \in Handles : handles[h].used /\ Behind(h) = f /\ Backend(h) = o

\* An open that fails leaves no file behind and cuts none off, though op_open
\* creates the file before it looks for a free slot: the handle table fills up
\* first.
FailedOpenChangesNothing ==
  \A p \in Paths, fl \in Flags :
    OpenPasses(p, fl) /\ Opened(p, fl).status # "OK" =>
      Opened(p, fl).fs = disks[FsOf(p)]
=============================================================================
