------------------------------- MODULE Tmpfs -------------------------------
(***************************************************************************)
(* The in-memory file system, kernel/src/tmpfs.c.  A file system is a      *)
(* record of its node table and its table of open files; each operation is *)
(* an operator from a file system to its status, the file system after it  *)
(* and what it returns.                                                    *)
(*                                                                         *)
(* A path is the sequence of the names between its slashes; BadName stands *)
(* for a name that is empty or too long.  Flags and permissions are sets.  *)
(***************************************************************************)
EXTENDS Integers, Sequences, FiniteSetsExt

CONSTANTS MaxNodes, MaxOpen, Capacity,  \* TMPFS_MAX_NODES, _MAX_OPEN, _FILE_CAPACITY
          BadName

ASSUME TmpfsAssumption ==
  /\ MaxNodes \in Nat \ {0} /\ MaxOpen \in Nat \ {0} /\ Capacity \in Nat

NodeIds == 0..(MaxNodes - 1)
Opens == 1..MaxOpen
None == -1

Result(status, fs, out) == [status |-> status, fs |-> fs, out |-> out]

Blank == [i \in 1..Capacity |-> 0]

Node(parent, type, perms, name) ==
  [used |-> TRUE, parent |-> parent, type |-> type, permissions |-> perms,
   size |-> 0, name |-> name, data |-> Blank]

Unused == [Node(0, "FILE", {}, BadName) EXCEPT !.used = FALSE]
Closed == [used |-> FALSE, node |-> 0, flags |-> {}, offset |-> 0]

\* tmpfs_init
EmptyFs ==
  [nodes |-> [i \in NodeIds |-> IF i = 0 THEN Node(0, "DIRECTORY", {"READ", "WRITE"}, BadName)
                                ELSE Unused],
   open |-> [h \in Opens |-> Closed]]

-----------------------------------------------------------------------------

\* child_named, over the nodes from 1 on.
ChildNamed(fs, parent, name) ==
  LET found == {i \in NodeIds \ {0} : /\ fs.nodes[i].used
                                      /\ fs.nodes[i].parent = parent
                                      /\ fs.nodes[i].name = name}
  IN  IF name = BadName \/ found = {} THEN None ELSE Min(found)

\* resolve_node, name by name from the root.
ResolveNode(fs, path) ==
  LET at[i \in 0..Len(path)] == IF i = 0 THEN 0 ELSE ChildNamed(fs, at[i - 1], path[i])
  IN  at[Len(path)]

\* What resolve_parent splits a path into at its last slash.
ParentPath(path) == SubSeq(path, 1, Len(path) - 1)
LastName(path) == path[Len(path)]

\* resolve_parent: the directory that the last name of a path belongs to.
ResolveParent(fs, path) ==
  IF path = <<>> \/ LastName(path) = BadName THEN None
  ELSE LET at == ResolveNode(fs, ParentPath(path))
       IN  IF at # None /\ fs.nodes[at].type = "DIRECTORY" THEN at ELSE None

\* create_node with allocate_node
CreateNode(fs, path, type, perms) ==
  LET parent == ResolveParent(fs, path)
      free   == {i \in NodeIds \ {0} : ~fs.nodes[i].used}
  IN  IF parent = None THEN Result("BAD_ARGUMENT", fs, None)
      ELSE IF ChildNamed(fs, parent, LastName(path)) # None THEN Result("EXISTS", fs, None)
      ELSE IF free = {} THEN Result("NO_SPACE", fs, None)
      ELSE Result("OK", [fs EXCEPT !.nodes[Min(free)] = Node(parent, type, perms, LastName(path))],
                  Min(free))

OpMkdir(fs, path, perms) == CreateNode(fs, path, "DIRECTORY", perms)

\* The end of op_open, for a node that was found or has just been made.
OpenNode(fs, n, flags) ==
  LET node == fs.nodes[n]
      free == {h \in Opens : ~fs.open[h].used}
      cut  == IF {"TRUNC", "WRITE"} \subseteq flags THEN [fs EXCEPT !.nodes[n].size = 0] ELSE fs
  IN  IF node.type # "FILE" THEN Result("IS_DIRECTORY", fs, None)
      ELSE IF (flags \cap {"READ", "WRITE"}) \ node.permissions # {}
      THEN Result("PERMISSION", fs, None)
      ELSE IF free = {} THEN Result("NO_SPACE", fs, None)
      ELSE Result("OK", [cut EXCEPT !.open[Min(free)] =
                           [used |-> TRUE, node |-> n, flags |-> flags, offset |-> 0]],
                  Min(free))

\* op_open
OpOpen(fs, path, flags) ==
  LET n    == ResolveNode(fs, path)
      made == IF n = None /\ "CREATE" \in flags
              THEN CreateNode(fs, path, "FILE", {"READ", "WRITE"})
              ELSE Result("OK", fs, n)
  IN  IF made.status # "OK" THEN made
      ELSE IF made.out = None THEN Result("NOT_FOUND", fs, None)
      ELSE OpenNode(made.fs, made.out, flags)

\* op_close.  What a closed slot holds is never looked at.
OpClose(fs, h) ==
  IF ~fs.open[h].used THEN Result("BAD_HANDLE", fs, None)
  ELSE Result("OK", [fs EXCEPT !.open[h] = Closed], None)

\* op_read returns the bytes that it has copied.
OpRead(fs, h, length) ==
  LET open == fs.open[h]
      node == fs.nodes[open.node]
      take == IF open.offset >= node.size THEN 0 ELSE Min({length, node.size - open.offset})
  IN  IF ~open.used THEN Result("BAD_HANDLE", fs, <<>>)
      ELSE IF "READ" \notin open.flags THEN Result("PERMISSION", fs, <<>>)
      ELSE Result("OK", [fs EXCEPT !.open[h].offset = @ + take],
                  SubSeq(node.data, open.offset + 1, open.offset + take))

\* op_write: all of the bytes or none.
OpWrite(fs, h, bytes) ==
  LET open == fs.open[h]
      end  == open.offset + Len(bytes)
  IN  IF ~open.used THEN Result("BAD_HANDLE", fs, 0)
      ELSE IF "WRITE" \notin open.flags THEN Result("PERMISSION", fs, 0)
      ELSE IF end > Capacity THEN Result("NO_SPACE", fs, 0)
      ELSE Result("OK",
             [fs EXCEPT !.open[h].offset = end,
                        !.nodes[open.node].size = Max({@, end}),
                        !.nodes[open.node].data =
                          [i \in DOMAIN @ |-> IF i > open.offset /\ i <= end
                                              THEN bytes[i - open.offset] ELSE @[i]]],
             Len(bytes))

OpSeek(fs, h, offset) ==
  IF ~fs.open[h].used THEN Result("BAD_HANDLE", fs, None)
  ELSE IF offset > Capacity THEN Result("BAD_ARGUMENT", fs, None)
  ELSE Result("OK", [fs EXCEPT !.open[h].offset = offset], None)

\* tmpfs_set_permissions
SetPermissions(fs, path, perms) ==
  LET n == ResolveNode(fs, path)
  IN  IF n = None THEN Result("NOT_FOUND", fs, None)
      ELSE Result("OK", [fs EXCEPT !.nodes[n].permissions = perms], None)
=============================================================================
