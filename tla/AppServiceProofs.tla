-------------------------- MODULE AppServiceProofs --------------------------
(***************************************************************************)
(* Proof that the service reports success only when it is true, for every  *)
(* number of requests at a time, whether or not steps fail, time out and   *)
(* leave their program running, and whether or not the service is          *)
(* restarted, as long as no installation overlaps a removal.               *)
(***************************************************************************)
EXTENDS AppService, TLAPS

Programs == InstallPrograms \cup RemovePrograms
Steps == InstallSteps \cup RemoveSteps \cup {"idle"}
Files == Wine \cup {"remote", "ref"}
Replies == [what : {"none", "install", "remove", "flatpak", "unflatpak"}, ok : BOOLEAN]

TypeOK ==
  /\ files \in SUBSET Files
  /\ pc \in [Threads -> Steps]
  /\ code \in [Threads -> BOOLEAN]
  /\ late \in SUBSET Programs
  /\ reply \in Replies
  /\ mixed \in BOOLEAN

\* The program never outlives its prefix.
PrefixInv == files \cap Prefix # {} => "prefix" \in files

\* What a request has established by the time it is at its last steps.
Reached(t) ==
  /\ pc[t] \in {"launcher", "marker"} => "program" \in files
  /\ pc[t] = "marker" => "launcher" \in files
  /\ pc[t] = "unlink" /\ code[t] => files \cap Prefix = {}
  /\ pc[t] = "flatpak" => "remote" \in files

\* A reply of success stands as long as nothing undoes what it reports.
Stands ==
  reply.ok =>
    /\ reply.what \in {"install", "flatpak"} => ~UnderWay(RemoveSteps)
    /\ reply.what \in {"remove", "unflatpak"} => ~UnderWay(InstallSteps)

\* Installations and removals apart, each request finds what it has established.
Apart ==
  /\ ~(UnderWay(InstallSteps) /\ UnderWay(RemoveSteps))
  /\ \A t \in Threads : Reached(t)
  /\ Stands

IInv == TypeOK /\ PrefixInv /\ (~mixed => Apart) /\ SuccessIsComplete

-----------------------------------------------------------------------------
\* The two kinds of steps have nothing in common.
LEMMA StepKinds ==
  /\ InstallSteps \cap RemoveSteps = {} /\ "idle" \notin InstallSteps \cup RemoveSteps
  /\ InstallPrograms \subseteq InstallSteps /\ RemovePrograms \subseteq RemoveSteps
  /\ InstallPrograms \cap RemovePrograms = {} /\ "idle" \in Steps
BY DEF InstallSteps, RemoveSteps, InstallPrograms, RemovePrograms, Steps

\* What a program has done, in part or in full: one of an installation adds
\* files, one of a removal takes some away, and the prefix is never missing
\* under what is in it.
LEMMA ResultsFacts ==
  ASSUME TypeOK, PrefixInv, NEW p \in Programs, NEW f \in Results(p)
  PROVE  /\ f \in SUBSET Files /\ (f \cap Prefix # {} => "prefix" \in f)
         /\ p \in InstallPrograms => files \subseteq f
         /\ p \in RemovePrograms => f \subseteq files
<1>1. CASE p = "rm"
  <2>1. PICK g \in SUBSET Prefix : /\ "prefix" \in g => files \cap Prefix \subseteq g
                                   /\ f = files \ g
    BY <1>1 DEF Results
  <2> QED BY <1>1, <2>1 DEF TypeOK, PrefixInv, InstallPrograms
<1>2. CASE p = "unflatpak"
  <2>1. f = files \/ f = files \ {"ref"}
    BY <1>2 DEF Results
  <2> QED BY <1>2, <2>1 DEF TypeOK, PrefixInv, InstallPrograms, Prefix
<1>3. CASE p \in InstallPrograms
  <2>1. p # "rm" /\ p # "unflatpak" /\ p \notin RemovePrograms
    BY <1>3, StepKinds DEF RemovePrograms, InstallPrograms
  <2>2. PICK m \in SUBSET Made(p) : ("program" \in m => "prefix" \in m) /\ f = files \cup m
    BY <2>1 DEF Results
  <2>3. m \subseteq Files /\ ("marker" \in m => "prefix" \in files)
    BY <1>3, <2>2 DEF InstallPrograms, Made, Files, Wine, Prefix
  <2> QED BY <2>1, <2>2, <2>3 DEF TypeOK, PrefixInv, Prefix
<1> QED BY <1>1, <1>2, <1>3 DEF Programs, RemovePrograms

\* A program that succeeds has done a part of its work, the whole.
LEMMA MadeFacts ==
  ASSUME NEW p \in InstallPrograms
  PROVE  files \cup Made(p) \in Results(p)
<1>1. p # "rm" /\ p # "unflatpak"
  BY DEF InstallPrograms
<1>2. "program" \in Made(p) => "prefix" \in Made(p)
  BY DEF InstallPrograms, Made
<1> QED BY <1>1, <1>2 DEF Results

\* A step of an installation, or of a program of one: it adds files and leaves
\* the other requests where they are.
LEMMA Grows ==
  ASSUME IInv, TypeOK', PrefixInv', files \subseteq files', mixed' = mixed,
         UnderWay(InstallSteps), late' \subseteq late \cup InstallPrograms,
         \A u \in Threads :
            \/ pc'[u] = pc[u] /\ code'[u] = code[u]
            \/ pc'[u] \in InstallSteps \cup {"idle"} /\ (~mixed => Reached(u)'),
         ~mixed => \/ reply' = reply \/ ~reply'.ok
                   \/ reply'.what = "install" /\ Wine \subseteq files'
                   \/ reply'.what = "flatpak" /\ {"remote", "ref"} \subseteq files'
  PROVE  IInv'
<1>1. CASE mixed
  BY <1>1 DEF IInv, SuccessIsComplete
<1>2. CASE ~mixed
  <2>1. Apart /\ ~UnderWay(RemoveSteps)
    BY <1>2 DEF IInv, Apart
  <2>2. ~UnderWay(RemoveSteps)'
    BY <2>1, StepKinds DEF UnderWay
  <2>3. \A u \in Threads : Reached(u)'
    <3> TAKE u \in Threads
    <3>1. CASE pc'[u] = pc[u] /\ code'[u] = code[u]
      <4>1. pc[u] # "unlink"
        BY <2>1 DEF UnderWay, RemoveSteps
      <4> QED BY <2>1, <3>1, <4>1 DEF Apart, Reached
    <3> QED BY <1>2, <3>1
  <2>4. reply.ok => reply.what \in {"none", "install", "flatpak"}
    BY <2>1 DEF Apart, Stands, IInv, TypeOK, Replies
  <2>5. Stands'
    BY <1>2, <2>2, <2>4 DEF Stands
  <2>6. SuccessIsComplete'
    BY <1>2, <2>4 DEF IInv, SuccessIsComplete
  <2> QED BY <2>2, <2>3, <2>5, <2>6 DEF IInv, Apart
<1> QED BY <1>1, <1>2

\* A step of a removal, or of a program of one: it takes files away.
LEMMA Shrinks ==
  ASSUME IInv, TypeOK', PrefixInv', files' \subseteq files, mixed' = mixed,
         UnderWay(RemoveSteps), late' \subseteq late \cup RemovePrograms,
         \A u \in Threads :
            \/ pc'[u] = pc[u] /\ code'[u] = code[u]
            \/ pc'[u] \in RemoveSteps \cup {"idle"} /\ (~mixed => Reached(u)'),
         ~mixed => \/ reply' = reply \/ ~reply'.ok
                   \/ reply'.what = "remove" /\ files' \cap Wine = {}
                   \/ reply'.what = "unflatpak" /\ "ref" \notin files'
  PROVE  IInv'
<1>1. CASE mixed
  BY <1>1 DEF IInv, SuccessIsComplete
<1>2. CASE ~mixed
  <2>1. Apart /\ ~UnderWay(InstallSteps)
    BY <1>2 DEF IInv, Apart
  <2>2. ~UnderWay(InstallSteps)'
    BY <2>1, StepKinds DEF UnderWay
  <2>3. \A u \in Threads : Reached(u)'
    <3> TAKE u \in Threads
    <3>1. CASE pc'[u] = pc[u] /\ code'[u] = code[u]
      <4>1. pc[u] \notin {"launcher", "marker", "flatpak"}
        BY <2>1 DEF UnderWay, InstallSteps, InstallPrograms
      <4> QED BY <2>1, <3>1, <4>1 DEF Apart, Reached
    <3> QED BY <1>2, <3>1
  <2>4. reply.ok => reply.what \in {"none", "remove", "unflatpak"}
    BY <2>1 DEF Apart, Stands, IInv, TypeOK, Replies
  <2>5. Stands'
    BY <1>2, <2>2, <2>4 DEF Stands
  <2>6. SuccessIsComplete'
    BY <1>2, <2>4 DEF IInv, SuccessIsComplete
  <2> QED BY <2>2, <2>3, <2>5, <2>6 DEF IInv, Apart
<1> QED BY <1>1, <1>2

\* A request begins: it is taken for unmixed when none of the other kind is
\* under way and those of its own kind have met none.
LEMMA StartsIInv ==
  ASSUME IInv, NEW t \in Threads, NEW step, NEW own, NEW other, Starts(t, step, own, other),
         \/ own = InstallSteps /\ other = RemoveSteps /\ step \in {"wineboot", "remote-add"}
         \/ own = RemoveSteps /\ other = InstallSteps /\ step \in {"rm", "unflatpak"}
  PROVE  IInv'
<1>1. /\ step \in own /\ step \notin other /\ step \in Steps
      /\ step \notin {"launcher", "marker", "unlink", "flatpak"}
      /\ Steps = own \cup other \cup {"idle"}
  BY DEF Steps, InstallSteps, RemoveSteps, InstallPrograms, RemovePrograms
<1>2. /\ files \in SUBSET Files /\ pc \in [Threads -> Steps] /\ code \in [Threads -> BOOLEAN]
      /\ late \in SUBSET Programs /\ PrefixInv /\ (~mixed => Apart)
  BY DEF IInv, TypeOK
<1>3. /\ pc' = [pc EXCEPT ![t] = step] /\ reply' = [what |-> "none", ok |-> FALSE]
      /\ files' = files /\ code' = code /\ late' = late
      /\ mixed' = (UnderWay(other) \/ (mixed /\ UnderWay(own)))
  BY DEF Starts, NoReply
<1>4. TypeOK'
  <2>1. pc' \in [Threads -> Steps]
    BY <1>1, <1>2, <1>3
  <2>2. reply' \in Replies
    BY <1>3 DEF Replies
  <2>3. mixed' \in BOOLEAN
    BY <1>3, Zenon
  <2> QED BY <1>2, <1>3, <2>1, <2>2, <2>3 DEF TypeOK
<1>5. PrefixInv' /\ Stands' /\ SuccessIsComplete'
  BY <1>2, <1>3 DEF PrefixInv, Stands, SuccessIsComplete
<1>6. ASSUME ~mixed' PROVE Apart'
  <2>1. ~UnderWay(other) /\ (~mixed \/ ~UnderWay(own))
    BY <1>3, <1>6, Zenon
  <2>2. \A u \in Threads : pc'[u] = IF u = t THEN step ELSE pc[u]
    BY <1>2, <1>3
  <2>3. ~UnderWay(other)'
    BY <1>1, <1>3, <2>1, <2>2 DEF UnderWay
  <2>4. \A u \in Threads : Reached(u)'
    <3> TAKE u \in Threads
    <3>1. CASE u = t
      BY <1>1, <2>2, <3>1 DEF Reached
    <3>2. CASE u # t /\ ~mixed
      BY <1>2, <1>3, <2>2, <3>2 DEF Apart, Reached
    <3>3. CASE u # t /\ ~UnderWay(own)
      <4>1. pc[u] = "idle"
        BY <1>1, <1>2, <2>1, <3>3 DEF UnderWay
      <4> QED BY <2>2, <3>3, <4>1 DEF Reached
    <3> QED BY <2>1, <3>1, <3>2, <3>3
  <2> QED BY <1>5, <2>3, <2>4 DEF Apart
<1> QED BY <1>4, <1>5, <1>6 DEF IInv

\* The four requests.
LEMMA RequestIInv == ASSUME IInv, NEW t \in Threads, Request(t) PROVE IInv'
<1>1. CASE InstallWindows(t) \/ InstallFlatpak(t)
  BY <1>1, StartsIInv DEF InstallWindows, InstallFlatpak
<1>2. CASE UninstallWindows(t) \/ UninstallFlatpak(t)
  BY <1>2, StartsIInv DEF UninstallWindows, UninstallFlatpak
<1> QED BY <1>1, <1>2 DEF Request

-----------------------------------------------------------------------------
\* A thread whose request ends or goes on to another step: the others stay.
LEMMA OneThread ==
  ASSUME TypeOK, NEW t \in Threads, NEW s \in Steps, pc' = [pc EXCEPT ![t] = s],
         NEW c \in BOOLEAN, code' = code \/ code' = [code EXCEPT ![t] = c]
  PROVE  /\ pc' \in [Threads -> Steps] /\ code' \in [Threads -> BOOLEAN]
         /\ pc'[t] = s
         /\ \A u \in Threads \ {t} : pc'[u] = pc[u] /\ code'[u] = code[u]
BY DEF TypeOK

\* A step of an installation that adds the files there are then.
LEMMA InstallStepIInv ==
  ASSUME IInv, NEW t \in Threads, pc[t] \in InstallSteps,
         NEW s \in InstallSteps \cup {"idle"}, pc' = [pc EXCEPT ![t] = s],
         code' = code \/ code' = [code EXCEPT ![t] = FALSE],
         files' \in SUBSET Files, files \subseteq files', PrefixInv',
         late' \subseteq late \cup InstallPrograms, mixed' = mixed,
         reply' = reply \/ reply' \in Replies,
         ~mixed => /\ Reached(t)'
                   /\ \/ reply' = reply \/ ~reply'.ok
                      \/ reply'.what = "install" /\ Wine \subseteq files'
                      \/ reply'.what = "flatpak" /\ {"remote", "ref"} \subseteq files'
  PROVE  IInv'
<1>1. s \in Steps
  BY DEF Steps
<1>2. /\ pc' \in [Threads -> Steps] /\ code' \in [Threads -> BOOLEAN] /\ pc'[t] = s
      /\ \A u \in Threads \ {t} : pc'[u] = pc[u] /\ code'[u] = code[u]
  BY <1>1, OneThread, Zenon DEF IInv
<1>3. TypeOK'
  BY <1>2 DEF IInv, TypeOK, Programs
<1>4. UnderWay(InstallSteps)
  BY DEF UnderWay
<1>5. \A u \in Threads :
        \/ pc'[u] = pc[u] /\ code'[u] = code[u]
        \/ pc'[u] \in InstallSteps \cup {"idle"} /\ (~mixed => Reached(u)')
  BY <1>2
<1> QED BY <1>3, <1>4, <1>5, Grows

\* A step of a removal.
LEMMA RemoveStepIInv ==
  ASSUME IInv, NEW t \in Threads, pc[t] \in RemoveSteps,
         NEW s \in RemoveSteps \cup {"idle"}, pc' = [pc EXCEPT ![t] = s],
         NEW c \in BOOLEAN, code' = [code EXCEPT ![t] = c],
         files' \subseteq files, PrefixInv',
         late' \subseteq late \cup RemovePrograms, mixed' = mixed,
         reply' = reply \/ reply' \in Replies,
         ~mixed => /\ Reached(t)'
                   /\ \/ reply' = reply \/ ~reply'.ok
                      \/ reply'.what = "remove" /\ files' \cap Wine = {}
                      \/ reply'.what = "unflatpak" /\ "ref" \notin files'
  PROVE  IInv'
<1>1. s \in Steps
  BY DEF Steps
<1>2. /\ pc' \in [Threads -> Steps] /\ code' \in [Threads -> BOOLEAN] /\ pc'[t] = s
      /\ \A u \in Threads \ {t} : pc'[u] = pc[u] /\ code'[u] = code[u]
  BY <1>1, OneThread, Zenon DEF IInv
<1>3. TypeOK'
  BY <1>2 DEF IInv, TypeOK, Programs
<1>4. UnderWay(RemoveSteps)
  BY DEF UnderWay
<1>5. \A u \in Threads :
        \/ pc'[u] = pc[u] /\ code'[u] = code[u]
        \/ pc'[u] \in RemoveSteps \cup {"idle"} /\ (~mixed => Reached(u)')
  BY <1>2
<1> QED BY <1>3, <1>4, <1>5, Shrinks

-----------------------------------------------------------------------------
\* What a request that goes on, ends, or fails does to the rest of the state.
LEMMA ReplyFacts ==
  ASSUME NEW t, NEW what \in {"install", "remove", "flatpak", "unflatpak"},
         NEW ok \in BOOLEAN, Reply(t, what, ok)
  PROVE  /\ pc' = [pc EXCEPT ![t] = "idle"] /\ code' = [code EXCEPT ![t] = FALSE]
         /\ mixed' = mixed /\ reply' \in Replies /\ reply'.what = what /\ reply'.ok = ok
<1>1. reply' = [what |-> what, ok |-> ok]
  BY DEF Reply
<1>2. [what |-> what, ok |-> ok] \in Replies
  BY Zenon DEF Replies
<1> QED BY <1>1, <1>2 DEF Reply

LEMMA ReachedWhenIdle ==
  ASSUME TypeOK, NEW t \in Threads, pc' = [pc EXCEPT ![t] = "idle"]
  PROVE  Reached(t)'
BY DEF TypeOK, Reached

\* A program of an installation fails.
LEMMA InstallFails ==
  ASSUME IInv, NEW t \in Threads, NEW p \in InstallPrograms,
         NEW what \in {"install", "flatpak"}, Fails(t, p, what)
  PROVE  IInv'
<1>1. /\ pc[t] = p /\ files' \in Results(p) /\ late' \in {late, late \cup {p}}
      /\ Reply(t, what, FALSE)
  BY Zenon DEF Fails
<1>2. /\ pc' = [pc EXCEPT ![t] = "idle"] /\ code' = [code EXCEPT ![t] = FALSE]
      /\ mixed' = mixed /\ reply' \in Replies /\ reply'.ok = FALSE
  BY <1>1, ReplyFacts, Zenon
<1>3. files' \in SUBSET Files /\ files \subseteq files' /\ PrefixInv'
  BY <1>1, ResultsFacts DEF IInv, Programs, PrefixInv
<1>4. Reached(t)'
  BY <1>2, ReachedWhenIdle, Zenon DEF IInv
<1>5. pc[t] \in InstallSteps /\ late' \subseteq late \cup InstallPrograms
  BY <1>1, StepKinds
<1> QED BY <1>2, <1>3, <1>4, <1>5, InstallStepIInv, Zenon

\* A program of an installation succeeds; what follows rests on it.
LEMMA InstallMakes ==
  ASSUME IInv, NEW t \in Threads, NEW p \in {"wineboot", "installer", "remote-add"},
         NEW next \in {"installer", "verify", "flatpak"}, Makes(t, p, next),
         next = "flatpak" => p = "remote-add"
  PROVE  IInv'
<1>1. /\ pc[t] = p /\ files' = files \cup Made(p) /\ late' = late
      /\ pc' = [pc EXCEPT ![t] = next] /\ code' = code /\ reply' = reply /\ mixed' = mixed
  BY DEF Makes, Go
<1>2. p \in InstallPrograms /\ next \in InstallSteps
  BY DEF InstallPrograms, InstallSteps
<1>3. files' \in SUBSET Files /\ files \subseteq files' /\ PrefixInv'
  BY <1>1, <1>2, MadeFacts, ResultsFacts DEF IInv, Programs, PrefixInv
<1>4. Reached(t)'
  <2>1. pc'[t] = next
    BY <1>1 DEF IInv, TypeOK
  <2>2. next = "flatpak" => "remote" \in files'
    BY <1>1 DEF Made
  <2> QED BY <2>1, <2>2 DEF Reached
<1>5. pc[t] \in InstallSteps
  BY <1>1, <1>2, StepKinds
<1> QED BY <1>1, <1>2, <1>3, <1>4, <1>5, InstallStepIInv, Zenon

\* The executable is looked for.
LEMMA VerifyIInv == ASSUME IInv, NEW t \in Threads, Verify(t) PROVE IInv'
<1>1. pc[t] \in InstallSteps /\ "launcher" \in InstallSteps /\ files' = files /\ late' = late
  BY DEF Verify, InstallSteps
<1>2. files' \in SUBSET Files /\ PrefixInv'
  BY <1>1 DEF IInv, TypeOK, PrefixInv
<1>3. CASE "program" \in files /\ Go(t, "launcher")
  <2>1. pc' = [pc EXCEPT ![t] = "launcher"] /\ code' = code /\ reply' = reply /\ mixed' = mixed
    BY <1>3 DEF Go
  <2>2. Reached(t)'
    BY <1>1, <1>3, <2>1 DEF IInv, TypeOK, Reached
  <2> QED BY <1>1, <1>2, <2>1, <2>2, InstallStepIInv, Zenon
<1>4. CASE Reply(t, "install", FALSE)
  <2>1. /\ pc' = [pc EXCEPT ![t] = "idle"] /\ code' = [code EXCEPT ![t] = FALSE]
        /\ mixed' = mixed /\ reply' \in Replies /\ reply'.ok = FALSE
    BY <1>4, ReplyFacts, Zenon
  <2>2. Reached(t)'
    BY <2>1, ReachedWhenIdle, Zenon DEF IInv
  <2> QED BY <1>1, <1>2, <2>1, <2>2, InstallStepIInv, Zenon
<1> QED BY <1>3, <1>4, Zenon DEF Verify

\* The launcher is written, or an exception ends the request.
LEMMA LauncherIInv ==
  ASSUME IInv, NEW t \in Threads, WriteLauncher(t) \/ WriteLauncherFails(t)
  PROVE  IInv'
<1>1. /\ pc[t] = "launcher" /\ late' = late /\ files \subseteq files'
      /\ files' \subseteq files \cup {"launcher"}
  BY Zenon DEF WriteLauncher, WriteLauncherFails
<1>2. pc[t] \in InstallSteps /\ "marker" \in InstallSteps
  BY <1>1 DEF InstallSteps, InstallPrograms
<1>3. files' \in SUBSET Files /\ PrefixInv'
  BY <1>1 DEF IInv, TypeOK, PrefixInv, Files, Wine, Prefix
<1>4. CASE WriteLauncher(t)
  <2>1. /\ pc' = [pc EXCEPT ![t] = "marker"] /\ code' = code /\ reply' = reply
        /\ mixed' = mixed /\ files' = files \cup {"launcher"}
    BY <1>4 DEF WriteLauncher, Go
  <2>2. ~mixed => Reached(t)'
    BY <1>1, <2>1 DEF IInv, TypeOK, Apart, Reached
  <2> QED BY <1>1, <1>2, <1>3, <2>1, <2>2, InstallStepIInv, Zenon
<1>5. CASE WriteLauncherFails(t)
  <2>1. /\ pc' = [pc EXCEPT ![t] = "idle"] /\ code' = [code EXCEPT ![t] = FALSE]
        /\ mixed' = mixed /\ reply' \in Replies /\ reply'.ok = FALSE
    BY <1>5, ReplyFacts, Zenon DEF WriteLauncherFails
  <2>2. Reached(t)'
    BY <2>1, ReachedWhenIdle, Zenon DEF IInv
  <2> QED BY <1>1, <1>2, <1>3, <2>1, <2>2, InstallStepIInv, Zenon
<1> QED BY <1>4, <1>5

\* The last steps of the installations, which report success.
LEMMA MarkerIInv == ASSUME IInv, NEW t \in Threads, Marker(t) PROVE IInv'
<1>1. /\ pc[t] = "marker" /\ late' = late /\ files' = files \cup Made("marker")
      /\ Reply(t, "install", "prefix" \in files)
  BY Zenon DEF Marker
<1>2. /\ pc' = [pc EXCEPT ![t] = "idle"] /\ code' = [code EXCEPT ![t] = FALSE]
      /\ mixed' = mixed /\ reply' \in Replies
      /\ reply'.what = "install" /\ reply'.ok = ("prefix" \in files)
  <2>1. ("prefix" \in files) \in BOOLEAN
    OBVIOUS
  <2> QED BY <1>1, <2>1, ReplyFacts, Zenon
<1>3. "marker" \in InstallPrograms /\ pc[t] \in InstallSteps
  BY <1>1 DEF InstallPrograms, InstallSteps
<1>4. files' \in SUBSET Files /\ files \subseteq files' /\ PrefixInv'
  BY <1>1, <1>3, MadeFacts, ResultsFacts DEF IInv, Programs, PrefixInv
<1>5. Reached(t)'
  BY <1>2, ReachedWhenIdle, Zenon DEF IInv
<1>6. ~mixed => ~reply'.ok \/ Wine \subseteq files'
  <2>1. "prefix" \in files => "marker" \in files'
    BY <1>1 DEF Made
  <2>2. ~mixed => "program" \in files /\ "launcher" \in files
    BY <1>1 DEF IInv, Apart, Reached
  <2>3. ~reply'.ok \/ "prefix" \in files
    BY <1>2, Zenon
  <2> QED BY <1>4, <2>1, <2>2, <2>3 DEF Wine, Prefix
<1> QED BY <1>1, <1>2, <1>3, <1>4, <1>5, <1>6, InstallStepIInv, Zenon

LEMMA FlatpakInstallIInv == ASSUME IInv, NEW t \in Threads, FlatpakInstall(t) PROVE IInv'
<1>1. /\ pc[t] = "flatpak" /\ late' = late /\ files' = files \cup Made("flatpak")
      /\ Reply(t, "flatpak", TRUE)
  BY Zenon DEF FlatpakInstall
<1>2. /\ pc' = [pc EXCEPT ![t] = "idle"] /\ code' = [code EXCEPT ![t] = FALSE]
      /\ mixed' = mixed /\ reply' \in Replies /\ reply'.what = "flatpak"
  BY <1>1, ReplyFacts, Zenon
<1>3. "flatpak" \in InstallPrograms /\ pc[t] \in InstallSteps
  BY <1>1 DEF InstallPrograms, InstallSteps
<1>4. files' \in SUBSET Files /\ files \subseteq files' /\ PrefixInv'
  BY <1>1, <1>3, MadeFacts, ResultsFacts DEF IInv, Programs, PrefixInv
<1>5. Reached(t)'
  BY <1>2, ReachedWhenIdle, Zenon DEF IInv
<1>6. ~mixed => {"remote", "ref"} \subseteq files'
  BY <1>1 DEF IInv, Apart, Reached, Made
<1> QED BY <1>1, <1>2, <1>3, <1>4, <1>5, <1>6, InstallStepIInv, Zenon

-----------------------------------------------------------------------------
\* rm, whether it succeeds or not; only success is remembered.
LEMMA RmIInv == ASSUME IInv, NEW t \in Threads, Rm(t) \/ RmFails(t) PROVE IInv'
<1>1. "rm" \in RemovePrograms /\ "rm" \in RemoveSteps /\ "unlink" \in RemoveSteps
  BY DEF RemovePrograms, RemoveSteps
<1>2. CASE Rm(t)
  <2>1. /\ pc[t] = "rm" /\ files' = files \ Prefix /\ late' = late /\ reply' = reply
        /\ mixed' = mixed /\ pc' = [pc EXCEPT ![t] = "unlink"]
        /\ code' = [code EXCEPT ![t] = TRUE]
    BY <1>2, Zenon DEF Rm
  <2>2. files' \subseteq files /\ PrefixInv' /\ files' \cap Prefix = {}
    BY <2>1 DEF PrefixInv
  <2>3. Reached(t)'
    BY <2>1, <2>2 DEF IInv, TypeOK, Reached
  <2> QED BY <1>1, <2>1, <2>2, <2>3, RemoveStepIInv, Zenon
<1>3. CASE RmFails(t)
  <2>1. /\ pc[t] = "rm" /\ files' \in Results("rm") /\ late' \subseteq late \cup {"rm"}
        /\ reply' = reply /\ mixed' = mixed /\ pc' = [pc EXCEPT ![t] = "unlink"]
        /\ code' = [code EXCEPT ![t] = FALSE]
    BY <1>3, Zenon DEF RmFails
  <2>2. files' \subseteq files /\ PrefixInv'
    BY <1>1, <2>1, ResultsFacts DEF IInv, Programs, PrefixInv
  <2>3. Reached(t)'
    BY <2>1 DEF IInv, TypeOK, Reached
  <2>4. late' \subseteq late \cup RemovePrograms
    BY <1>1, <2>1
  <2> QED BY <1>1, <2>1, <2>2, <2>3, <2>4, RemoveStepIInv, Zenon
<1> QED BY <1>2, <1>3

\* The last steps of the removals, which report success.
LEMMA UnlinkIInv == ASSUME IInv, NEW t \in Threads, Unlink(t) PROVE IInv'
<1>1. /\ pc[t] = "unlink" /\ late' = late /\ files' = files \ {"launcher"}
      /\ Reply(t, "remove", code[t])
  BY Zenon DEF Unlink
<1>2. code[t] \in BOOLEAN
  BY DEF IInv, TypeOK
<1>3. /\ pc' = [pc EXCEPT ![t] = "idle"] /\ code' = [code EXCEPT ![t] = FALSE]
      /\ mixed' = mixed /\ reply' \in Replies /\ reply'.what = "remove" /\ reply'.ok = code[t]
  BY <1>1, <1>2, ReplyFacts, Zenon
<1>4. pc[t] \in RemoveSteps
  BY <1>1 DEF RemoveSteps
<1>5. files' \subseteq files /\ PrefixInv'
  BY <1>1 DEF IInv, PrefixInv, Prefix
<1>6. Reached(t)'
  BY <1>3, ReachedWhenIdle, Zenon DEF IInv
<1>7. ~mixed => ~reply'.ok \/ files' \cap Wine = {}
  <2>1. ~mixed /\ code[t] => files \cap Prefix = {}
    BY <1>1, Zenon DEF IInv, Apart, Reached
  <2>2. files \cap Prefix = {} => files' \cap Wine = {}
    BY <1>1 DEF Wine
  <2> QED BY <1>3, <2>1, <2>2, Zenon
<1> QED BY <1>1, <1>3, <1>4, <1>5, <1>6, <1>7, RemoveStepIInv, Zenon

LEMMA FlatpakUninstallIInv ==
  ASSUME IInv, NEW t \in Threads, FlatpakUninstall(t) \/ FlatpakUninstallFails(t)
  PROVE  IInv'
<1>1. "unflatpak" \in RemovePrograms /\ "unflatpak" \in RemoveSteps
  BY DEF RemovePrograms, RemoveSteps
<1>2. CASE FlatpakUninstall(t)
  <2>1. /\ pc[t] = "unflatpak" /\ late' = late /\ files' = files \ {"ref"}
        /\ Reply(t, "unflatpak", "ref" \in files)
    BY <1>2, Zenon DEF FlatpakUninstall
  <2>2. ("ref" \in files) \in BOOLEAN
    OBVIOUS
  <2>3. /\ pc' = [pc EXCEPT ![t] = "idle"] /\ code' = [code EXCEPT ![t] = FALSE]
        /\ mixed' = mixed /\ reply' \in Replies /\ reply'.what = "unflatpak"
    BY <2>1, <2>2, ReplyFacts, Zenon
  <2>4. files' \subseteq files /\ PrefixInv' /\ "ref" \notin files'
    BY <2>1 DEF IInv, PrefixInv, Prefix
  <2>5. Reached(t)'
    BY <2>3, ReachedWhenIdle, Zenon DEF IInv
  <2> QED BY <1>1, <2>1, <2>3, <2>4, <2>5, RemoveStepIInv, Zenon
<1>3. CASE FlatpakUninstallFails(t)
  <2>1. /\ pc[t] = "unflatpak" /\ files' \in Results("unflatpak")
        /\ late' \in {late, late \cup {"unflatpak"}} /\ Reply(t, "unflatpak", FALSE)
    BY <1>3, Zenon DEF FlatpakUninstallFails, Fails
  <2>2. /\ pc' = [pc EXCEPT ![t] = "idle"] /\ code' = [code EXCEPT ![t] = FALSE]
        /\ mixed' = mixed /\ reply' \in Replies /\ reply'.ok = FALSE
    BY <2>1, ReplyFacts, Zenon
  <2>3. files' \subseteq files /\ PrefixInv'
    BY <1>1, <2>1, ResultsFacts DEF IInv, Programs, PrefixInv
  <2>4. Reached(t)'
    BY <2>2, ReachedWhenIdle, Zenon DEF IInv
  <2>5. late' \subseteq late \cup RemovePrograms
    BY <1>1, <2>1
  <2> QED BY <1>1, <2>1, <2>2, <2>3, <2>4, <2>5, RemoveStepIInv, Zenon
<1> QED BY <1>2, <1>3

-----------------------------------------------------------------------------
\* A program that was left to itself does what its kind of request does.
LEMMA GoesOnIInv == ASSUME IInv, NEW p \in Programs, GoesOn(p) PROVE IInv'
<1>1. /\ p \in late /\ files' \in Results(p) /\ late' \subseteq late
      /\ pc' = pc /\ code' = code /\ reply' = reply /\ mixed' = mixed
  BY DEF GoesOn
<1>2. /\ files' \in SUBSET Files /\ PrefixInv'
      /\ p \in InstallPrograms => files \subseteq files'
      /\ p \in RemovePrograms => files' \subseteq files
  BY <1>1, ResultsFacts DEF IInv, PrefixInv
<1>3. TypeOK'
  BY <1>1, <1>2 DEF IInv, TypeOK
<1>4. CASE p \in InstallPrograms
  <2>1. UnderWay(InstallSteps)
    BY <1>1, <1>4, StepKinds DEF UnderWay
  <2> QED BY <1>1, <1>2, <1>3, <1>4, <2>1, Grows
<1>5. CASE p \in RemovePrograms
  <2>1. UnderWay(RemoveSteps)
    BY <1>1, <1>5, StepKinds DEF UnderWay
  <2> QED BY <1>1, <1>2, <1>3, <1>5, <2>1, Shrinks
<1> QED BY <1>4, <1>5 DEF Programs

\* After a restart only programs are under way that were so before.
LEMMA CrashIInv == ASSUME IInv, Crash PROVE IInv'
<1>1. /\ pc' = [t \in Threads |-> "idle"] /\ code' = [t \in Threads |-> FALSE]
      /\ reply' = [what |-> "none", ok |-> FALSE] /\ files' = files /\ mixed' = mixed
      /\ late' \subseteq late \cup {p \in Programs : \E t \in Threads : pc[t] = p}
  BY DEF Crash, NoReply, Programs
<1>2. TypeOK'
  BY <1>1, StepKinds DEF IInv, TypeOK, Replies
<1>3. PrefixInv' /\ Stands' /\ SuccessIsComplete'
  BY <1>1 DEF IInv, PrefixInv, Stands, SuccessIsComplete
<1>4. \A t \in Threads : Reached(t)'
  BY <1>1 DEF Reached
<1>5. /\ UnderWay(InstallSteps)' => UnderWay(InstallSteps)
      /\ UnderWay(RemoveSteps)' => UnderWay(RemoveSteps)
  BY <1>1, StepKinds DEF UnderWay
<1> QED BY <1>1, <1>2, <1>3, <1>4, <1>5 DEF IInv, Apart

\* The initial state satisfies the invariant: no file, no request, no reply.
LEMMA InitIInv == Init => IInv
<1> SUFFICES ASSUME Init PROVE IInv
  OBVIOUS
<1>1. TypeOK
  BY StepKinds DEF Init, TypeOK, NoReply, Replies
<1>2. PrefixInv /\ SuccessIsComplete /\ Stands
  BY DEF Init, PrefixInv, SuccessIsComplete, Stands, NoReply
<1>3. \A t \in Threads : Reached(t)
  BY DEF Init, Reached
<1>4. ~UnderWay(InstallSteps)
  BY StepKinds DEF Init, UnderWay
<1> QED BY <1>1, <1>2, <1>3, <1>4 DEF IInv, Apart

\* Every step of the service keeps the invariant.
LEMMA NextIInv == ASSUME IInv, [Next]_vars PROVE IInv'
<1>1. CASE UNCHANGED vars
  BY <1>1 DEF vars, IInv, TypeOK, PrefixInv, Apart, Stands, Reached, UnderWay, SuccessIsComplete
<1>2. ASSUME NEW t \in Threads, Step(t) PROVE IInv'
  <2>1. CASE Wineboot(t) \/ Installer(t) \/ RemoteAdd(t)
    BY <2>1, InstallMakes DEF Wineboot, Installer, RemoteAdd
  <2> QED BY <1>2, <2>1, VerifyIInv, LauncherIInv, MarkerIInv, FlatpakInstallIInv, RmIInv,
             UnlinkIInv, FlatpakUninstallIInv, Zenon DEF Step
<1>3. ASSUME NEW t \in Threads, Failure(t) PROVE IInv'
  <2>1. {"wineboot", "installer", "marker", "remote-add", "flatpak"} = InstallPrograms
    BY DEF InstallPrograms
  <2>2. CASE \/ WinebootFails(t) \/ InstallerFails(t) \/ MarkerFails(t)
             \/ RemoteAddFails(t) \/ FlatpakInstallFails(t)
    BY <2>1, <2>2, InstallFails
       DEF WinebootFails, InstallerFails, MarkerFails, RemoteAddFails, FlatpakInstallFails
  <2> QED BY <1>3, <2>2, LauncherIInv, RmIInv, FlatpakUninstallIInv, Zenon DEF Failure
<1> QED BY <1>1, <1>2, <1>3, RequestIInv, GoesOnIInv, CrashIInv, Zenon DEF Next, Programs

\* Whatever number of requests the service serves at a time, and for every
\* pattern of failures, time-outs, programs that go on and restarts, it reports
\* an application as installed only when all of it is there, and as removed only
\* when nothing is, unless an installation and a removal overlapped
\* (network-control.py:209-315).
THEOREM SuccessIsTrue == Spec => []SuccessIsComplete
<1>1. Init => IInv
  BY InitIInv
<1>2. IInv /\ [Next]_vars => IInv'
  BY NextIInv
<1>3. IInv => SuccessIsComplete
  BY DEF IInv
<1> QED BY <1>1, <1>2, <1>3, PTL DEF Spec
=============================================================================
