-------------------------- MODULE StorageServices --------------------------
(***************************************************************************)
(* The log, settings and device services, kernel/src/storage_services.c,   *)
(* on top of the virtual file system: "/" and "/var" are two in-memory     *)
(* file systems.  Each service call opens a file, uses it and closes it;   *)
(* nothing runs in between.  Other clients open files for reading, and so  *)
(* use up handles.                                                         *)
(***************************************************************************)
EXTENDS Vfs

CONSTANTS Keys,         \* safe names of settings and devices
          RootFs, VarFs

\* The directories of storage_services_init find room, no name of the services is
\* one that child_named refuses, and the other clients do not write.
ASSUME ServicesAssumption ==
  /\ RootFs \in FileSystems /\ VarFs \in FileSystems /\ RootFs # VarFs
  /\ MaxNodes >= 4
  /\ BadName \notin Keys \cup {"var", "settings", "devices", "kernel.log"}
  /\ Texts \subseteq Seq(Nat)
  /\ \A fl \in Flags : "WRITE" \notin fl

VARIABLES log_offset,
          appended,     \* ghost: the texts whose append has succeeded, in one
          stored,       \* ghost: the value last stored under each path
          emptied       \* ghost: the paths given a value too long since then

serviceVars == <<vars, log_offset, appended, stored, emptied>>

LogPath == <<"var", "kernel.log">>
SettingPath(key) == <<"settings", key>>
DevicePath(name) == <<"devices", name>>

ValuePaths == {SettingPath(k) : k \in Keys} \cup {DevicePath(k) : k \in Keys}

ReadWrite == {"READ", "WRITE"}

\* vfs_mkdir of a name directly under the root.
WithDir(fs, name) == OpMkdir(fs, <<name>>, ReadWrite).fs

\* The file system after storage_services_init.
InitServices ==
  /\ mounts = <<[path |-> <<>>, context |-> RootFs],
                [path |-> <<"var">>, context |-> VarFs]>>
  /\ handles = [h \in Handles |-> NoHandle]
  /\ disks = [f \in FileSystems |->
                IF f = RootFs
                THEN WithDir(WithDir(WithDir(EmptyFs, "var"), "settings"), "devices")
                ELSE EmptyFs]
  /\ log_offset = 0
  /\ appended = <<>>
  /\ stored = [p \in ValuePaths |-> <<>>]
  /\ emptied = {}

-----------------------------------------------------------------------------

\* vfs_close, whatever came before it.
CloseAfter(done, h) == Result(done.status, OpClose(done.fs, h).fs, done.out)

SeekAndWrite(sought, h, bytes) ==
  IF sought.status = "OK" THEN OpWrite(sought.fs, h, bytes) ELSE sought

UseOpened(opened, offset, bytes) ==
  IF opened.status # "OK" THEN opened
  ELSE CloseAfter(SeekAndWrite(OpSeek(opened.fs, opened.out, offset), opened.out, bytes),
                  opened.out)

\* vfs_open, seek to an offset, vfs_write and vfs_close in one.  The status is the
\* first that is not OK; the file is closed in any case.
WriteFile(path, flags, offset, bytes) ==
  IF OpenPasses(path, flags) THEN UseOpened(Opened(path, flags), offset, bytes)
  ELSE Result("NO_SPACE", disks[FsOf(path)], 0)

\* Faulty variant: the old value is not cut off.
WriteValueNoTrunc(path, value) == WriteFile(path, {"WRITE", "CREATE"}, 0, value)

\* write_value, which seeks nowhere.
WriteValue(path, value) == WriteFile(path, {"WRITE", "CREATE", "TRUNC"}, 0, value)

\* Faulty variant: the offset advances though nothing was written.
LogAppendCountsFailures(text) ==
  \E done \in {WriteFile(LogPath, {"WRITE", "CREATE"}, log_offset, text)} :
    /\ disks' = [disks EXCEPT ![VarFs] = done.fs]
    /\ log_offset' = log_offset + Len(text)
    /\ appended' = IF done.status = "OK" THEN appended \o text ELSE appended
    /\ UNCHANGED <<mounts, handles, stored, emptied>>

\* log_service_append
LogAppend(text) ==
  \E done \in {WriteFile(LogPath, {"WRITE", "CREATE"}, log_offset, text)} :
    /\ disks' = [disks EXCEPT ![VarFs] = done.fs]
    /\ IF done.status = "OK"
       THEN log_offset' = log_offset + done.out /\ appended' = appended \o text
       ELSE UNCHANGED <<log_offset, appended>>
    /\ UNCHANGED <<mounts, handles, stored, emptied>>

\* The common part of settings_service_set and device_service_publish.
Store(path, value) ==
  \E done \in {WriteValue(path, value)} :
    /\ disks' = [disks EXCEPT ![RootFs] = done.fs]
    /\ IF done.status = "OK"
       THEN /\ stored' = [stored EXCEPT ![path] = value]
            /\ emptied' = emptied \ {path}
       ELSE /\ emptied' = IF Len(value) > Capacity /\ FreeHandles # {}
                          THEN emptied \cup {path} ELSE emptied
            /\ UNCHANGED stored
    /\ UNCHANGED <<mounts, handles, log_offset, appended>>

SettingsSet(key, value) == Store(SettingPath(key), value)

DevicePublish(name, value) == Store(DevicePath(name), value)

Client ==
  /\ \/ \E p \in Paths, fl \in Flags : VfsOpen(p, fl)
     \/ \E h \in Handles : VfsClose(h) \/ (\E n \in 1..Capacity : VfsRead(h, n))
  /\ UNCHANGED <<log_offset, appended, stored, emptied>>

NextServices ==
  \/ \E t \in Texts : LogAppend(t) \/ (\E k \in Keys : SettingsSet(k, t) \/ DevicePublish(k, t))
  \/ Client

ServicesSpec == InitServices /\ [][NextServices]_serviceVars

-----------------------------------------------------------------------------

\* What read_value returns for a path, with a buffer that is large enough.
Content(path) ==
  LET fs == disks[FsOf(path)]
      n  == ResolveNode(fs, Relative(path))
  IN  IF n = None THEN <<>> ELSE SubSeq(fs.nodes[n].data, 1, fs.nodes[n].size)

\* The kernel log is the texts that were accepted, in order and without gaps,
\* however many appends have failed in between.
LogIsComplete == Content(LogPath) = appended

\* A setting or a device entry reads as the value last stored, never as a mixture
\* of two values and never as that of another name.  A value too long for a file is
\* refused after the old one has been cut off, and leaves the entry empty.
SettingsKeepValues ==
  \A p \in ValuePaths : Content(p) = IF p \in emptied THEN <<>> ELSE stored[p]
=============================================================================
