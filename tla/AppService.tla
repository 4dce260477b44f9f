----------------------------- MODULE AppService -----------------------------
(***************************************************************************)
(* Installing and removing an application in network-control.py.  A        *)
(* request runs in a thread of its own and consists of programs that are   *)
(* run and files that are written, one after the other.  Each program may  *)
(* fail after part of its work.  When it times out, run() kills runuser    *)
(* only: the program that runuser has started may go on after the request  *)
(* was answered.  The service may be restarted at any moment.  Nothing     *)
(* keeps two requests apart.                                               *)
(*                                                                         *)
(* One application of the catalog, of either runtime: a Windows one with   *)
(* its Wine prefix (the directory, the program in it and the marker) and   *)
(* its launcher, or a Flatpak one with its remote and ref.  Requests that  *)
(* are refused for their arguments or by the catalog change nothing and    *)
(* are left out.                                                           *)
(***************************************************************************)
CONSTANTS Threads,
          Patient,   \* the threads whose user repeats the installation
          MayFail,   \* steps may fail
          MayCrash   \* the service may be restarted

ASSUME ServiceAssumption ==
  Patient \subseteq Threads /\ MayFail \in BOOLEAN /\ MayCrash \in BOOLEAN

VARIABLES runtime, \* of the application: "wine" or "flatpak"
          files,   \* what exists: parts of the prefix, launcher, Flatpak remote, ref
          pc,      \* next step of each thread's request
          code,    \* result of the thread's program that is reported at the end
          late,    \* programs that go on after the request that ran them
          reply,   \* last reply: what was done and whether it was reported done
          mixed    \* ghost: an installation and a removal have overlapped

vars == <<runtime, files, pc, code, late, reply, mixed>>

Prefix == {"prefix", "program", "marker"}
Wine == Prefix \cup {"launcher"}

\* The programs run by the two kinds of request, and their steps.
InstallPrograms == {"wineboot", "installer", "marker", "remote-add", "flatpak"}
RemovePrograms == {"rm", "unflatpak"}
InstallSteps == InstallPrograms \cup {"verify", "launcher"}
RemoveSteps == RemovePrograms \cup {"unlink"}

NoReply == [what |-> "none", ok |-> FALSE]

UnderWay(steps) == late \cap steps # {} \/ \E t \in Threads : pc[t] \in steps

\* A request begins: mixed becomes true when one of the other kind is under way,
\* and false once nothing of an earlier overlap is.
Starts(t, step, own, other) ==
  /\ pc[t] = "idle"
  /\ pc' = [pc EXCEPT ![t] = step]
  /\ reply' = NoReply
  /\ mixed' = (UnderWay(other) \/ (mixed /\ UnderWay(own)))
  /\ UNCHANGED <<runtime, files, code, late>>

Go(t, step) ==
  /\ pc' = [pc EXCEPT ![t] = step]
  /\ UNCHANGED <<runtime, code, reply, mixed>>

Reply(t, what, ok) ==
  /\ pc' = [pc EXCEPT ![t] = "idle"]
  /\ code' = [code EXCEPT ![t] = FALSE]
  /\ reply' = [what |-> what, ok |-> ok]
  /\ UNCHANGED <<runtime, mixed>>

-----------------------------------------------------------------------------
\* The files that each program of an installation makes; Wine makes a prefix
\* that is missing, and touch needs the directory.
Made(program) ==
  CASE program = "wineboot" -> {"prefix"}
    [] program = "installer" -> {"prefix", "program"}
    [] program = "marker" -> IF "prefix" \in files THEN {"marker"} ELSE {}
    [] program = "remote-add" -> {"remote"}
    [] program = "flatpak" -> {"ref"}

\* The files there may be when a program has done part of its work, or all of it.
\* rm removes the directory last.
Results(program) ==
  CASE program = "rm" ->
         {files \ gone : gone \in
            {g \in SUBSET Prefix : "prefix" \in g => files \cap Prefix \subseteq g}}
    [] program = "unflatpak" -> {files, files \ {"ref"}}
    [] OTHER -> {files \cup made : made \in
                   {m \in SUBSET Made(program) : "program" \in m => "prefix" \in m}}

\* A program of an installation succeeds and the request goes on.
Makes(t, program, next) ==
  /\ pc[t] = program
  /\ files' = files \cup Made(program)
  /\ UNCHANGED late
  /\ Go(t, next)

\* A program fails, or runs out of time and may go on by itself; the request is over.
Fails(t, program, what) ==
  /\ MayFail /\ pc[t] = program
  /\ files' \in Results(program)
  /\ late' \in {late, late \cup {program}}
  /\ Reply(t, what, FALSE)

\* A program that was left to itself does some more, and may end.
GoesOn(program) ==
  /\ program \in late
  /\ files' \in Results(program)
  /\ late' \in {late, late \ {program}}
  /\ UNCHANGED <<runtime, pc, code, reply, mixed>>

-----------------------------------------------------------------------------
(* install_windows_app *)

\* Faulty variant: a prefix that is there already is taken for an installation.
InstallOnlyFresh(t) ==
  /\ runtime = "wine" /\ "prefix" \notin files
  /\ Starts(t, "wineboot", InstallSteps, RemoveSteps)

InstallWindows(t) ==
  /\ runtime = "wine"
  /\ Starts(t, "wineboot", InstallSteps, RemoveSteps)

Wineboot(t) == Makes(t, "wineboot", "installer")
WinebootFails(t) == Fails(t, "wineboot", "install")

Installer(t) == Makes(t, "installer", "verify")
InstallerFails(t) == Fails(t, "installer", "install")

\* The executable that the user named is looked for; the user may have named one
\* that the installer has not made.
Verify(t) ==
  /\ pc[t] = "verify"
  /\ \/ "program" \in files /\ Go(t, "launcher")
     \/ ("program" \notin files \/ MayFail) /\ Reply(t, "install", FALSE)
  /\ UNCHANGED <<files, late>>

\* An exception while the launcher is written ends the request without a reply.
WriteLauncher(t) ==
  /\ pc[t] = "launcher"
  /\ files' = files \cup {"launcher"}
  /\ UNCHANGED late
  /\ Go(t, "marker")
WriteLauncherFails(t) ==
  /\ MayFail /\ pc[t] = "launcher"
  /\ files' \in {files, files \cup {"launcher"}}
  /\ UNCHANGED late
  /\ Reply(t, "install", FALSE)

Marker(t) ==
  /\ pc[t] = "marker"
  /\ files' = files \cup Made("marker")
  /\ UNCHANGED late
  /\ Reply(t, "install", "prefix" \in files)
MarkerFails(t) == Fails(t, "marker", "install")

-----------------------------------------------------------------------------
(* uninstall_app, of a Windows application *)

UninstallWindows(t) ==
  /\ runtime = "wine" /\ "prefix" \in files
  /\ Starts(t, "rm", RemoveSteps, InstallSteps)

\* rm -rf, whose result is reported after the launcher is gone.
Rm(t) ==
  /\ pc[t] = "rm"
  /\ files' = files \ Prefix
  /\ pc' = [pc EXCEPT ![t] = "unlink"]
  /\ code' = [code EXCEPT ![t] = TRUE]
  /\ UNCHANGED <<runtime, late, reply, mixed>>
RmFails(t) ==
  /\ MayFail /\ pc[t] = "rm"
  /\ files' \in Results("rm")
  /\ late' \in {late, late \cup {"rm"}}
  /\ pc' = [pc EXCEPT ![t] = "unlink"]
  /\ code' = [code EXCEPT ![t] = FALSE]
  /\ UNCHANGED <<runtime, reply, mixed>>

\* Faulty variant: the launcher is left.
UnlinkNothing(t) ==
  /\ pc[t] = "unlink"
  /\ UNCHANGED <<files, late>>
  /\ Reply(t, "remove", code[t])

\* The launcher goes whatever rm has reported.
Unlink(t) ==
  /\ pc[t] = "unlink"
  /\ files' = files \ {"launcher"}
  /\ UNCHANGED late
  /\ Reply(t, "remove", code[t])

-----------------------------------------------------------------------------
(* Flatpak: install_app and uninstall_app; Flatpak makes its own steps atomic. *)

InstallFlatpak(t) ==
  /\ runtime = "flatpak"
  /\ Starts(t, "remote-add", InstallSteps, RemoveSteps)

RemoteAdd(t) == Makes(t, "remote-add", "flatpak")
RemoteAddFails(t) == Fails(t, "remote-add", "flatpak")

FlatpakInstall(t) ==
  /\ pc[t] = "flatpak"
  /\ files' = files \cup Made("flatpak")
  /\ UNCHANGED late
  /\ Reply(t, "flatpak", TRUE)
FlatpakInstallFails(t) == Fails(t, "flatpak", "flatpak")

UninstallFlatpak(t) ==
  /\ runtime = "flatpak"
  /\ Starts(t, "unflatpak", RemoveSteps, InstallSteps)

\* Removing what is not installed is an error of Flatpak's.
FlatpakUninstall(t) ==
  /\ pc[t] = "unflatpak"
  /\ files' = files \ {"ref"}
  /\ UNCHANGED late
  /\ Reply(t, "unflatpak", "ref" \in files)
FlatpakUninstallFails(t) == Fails(t, "unflatpak", "unflatpak")

-----------------------------------------------------------------------------
\* The service is restarted: the threads are gone, the files stay, and programs
\* that were running may go on.
Crash ==
  /\ MayCrash
  /\ pc' = [t \in Threads |-> "idle"]
  /\ code' = [t \in Threads |-> FALSE]
  /\ late' \in SUBSET (late \cup
       {p \in InstallPrograms \cup RemovePrograms : \E t \in Threads : pc[t] = p})
  /\ reply' = NoReply
  /\ UNCHANGED <<runtime, files, mixed>>

Init ==
  /\ runtime \in {"wine", "flatpak"}
  /\ files = {}
  /\ pc = [t \in Threads |-> "idle"]
  /\ code = [t \in Threads |-> FALSE]
  /\ late = {}
  /\ reply = NoReply
  /\ mixed = FALSE

Request(t) ==
  InstallWindows(t) \/ InstallFlatpak(t) \/ UninstallWindows(t) \/ UninstallFlatpak(t)

Step(t) ==
  \/ Wineboot(t) \/ Installer(t) \/ Verify(t) \/ WriteLauncher(t) \/ Marker(t)
  \/ RemoteAdd(t) \/ FlatpakInstall(t)
  \/ Rm(t) \/ Unlink(t) \/ FlatpakUninstall(t)

Failure(t) ==
  \/ WinebootFails(t) \/ InstallerFails(t) \/ WriteLauncherFails(t) \/ MarkerFails(t)
  \/ RemoteAddFails(t) \/ FlatpakInstallFails(t)
  \/ RmFails(t) \/ FlatpakUninstallFails(t)

Next ==
  \/ \E t \in Threads : Request(t) \/ Step(t) \/ Failure(t)
  \/ \E p \in InstallPrograms \cup RemovePrograms : GoesOn(p)
  \/ Crash

Spec == Init /\ [][Next]_vars

\* Every request ends, as each of its programs has a time limit.  A patient user
\* goes on asking for the installation, and no step of it fails for ever.
Retrying ==
  /\ Spec
  /\ \A t \in Patient :
       /\ WF_vars(Step(t) \/ Failure(t))
       /\ SF_vars(InstallWindows(t) \/ InstallFlatpak(t))
       /\ SF_vars(Wineboot(t) \/ RemoteAdd(t)) /\ SF_vars(Installer(t) \/ FlatpakInstall(t))
       /\ SF_vars(Verify(t) /\ pc'[t] = "launcher")
       /\ SF_vars(WriteLauncher(t)) /\ SF_vars(Marker(t))

-----------------------------------------------------------------------------
(* Properties. *)

Installed ==
  IF runtime = "wine" THEN Wine \subseteq files ELSE {"remote", "ref"} \subseteq files

\* A reply that reports success tells the truth: the application is complete, or
\* nothing of it is left, whatever earlier failures, time-outs and restarts have
\* left behind and whatever other requests of the same kind do meanwhile
\* (network-control.py:209-315).  It fails when an installation and a removal
\* overlap, be it that a program of the one has only timed out: nothing
\* keeps them apart.
SuccessIsComplete ==
  reply.ok /\ ~mixed =>
    /\ reply.what = "install" => Wine \subseteq files
    /\ reply.what = "remove" => files \cap Wine = {}
    /\ reply.what = "flatpak" => {"remote", "ref"} \subseteq files
    /\ reply.what = "unflatpak" => "ref" \notin files

\* Nothing that a failed or interrupted request leaves behind keeps a repeated
\* installation from succeeding, unless removals go on overlapping it
\* (network-control.py:209-294).
InstallResumes == []<>Installed \/ []<>mixed

\* While no request and no program is under way the application is either
\* launchable and listed as installed, or neither: no installation is left
\* half done.
InstallIsTransactional ==
  (late = {} /\ \A t \in Threads : pc[t] = "idle")
    => ("launcher" \in files <=> "marker" \in files)
=============================================================================
