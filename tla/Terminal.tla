------------------------------ MODULE Terminal ------------------------------
(***************************************************************************)
(* The terminal application of shell/apps.js and the service behind it,    *)
(* exec_terminal in network-control.py: tabs with a working directory and  *)
(* a profile, commands that are answered later and in any order, and tabs  *)
(* that are switched or closed in between.                                 *)
(*                                                                         *)
(* A command is its kind and, for a change of directory, where it leads.   *)
(* Of a tab's content only the prompt of its input row is kept: the output *)
(* and the commands answered on the spot (clear, help, about, apps) change *)
(* nothing else.                                                           *)
(***************************************************************************)
EXTENDS Integers, Sequences, SequencesExt

CONSTANTS Home, Dirs,  \* the directories at first, Home one of them
          Missing,     \* a path that is no directory
          Profiles, Default,
          MaxTabs,     \* bound on the tabs created
          MaxCommands  \* bound on the commands sent

TerminalAssumption ==
  /\ Home \in Dirs /\ Missing \notin Dirs /\ Default \in Profiles
  /\ MaxTabs \in Nat \ {0} /\ MaxCommands \in Nat

VARIABLES tab,       \* the tab objects in the order of their ids, closed ones too
          tabs,      \* ids of the open tabs, in the order of the tab bar
          activeTab,
          shown,     \* tab whose content the viewport holds
          requests,  \* commands sent whose answer has not been received
          sent,      \* commands sent so far
          dirs       \* directories that exist

vars == <<tab, tabs, activeTab, shown, requests, sent, dirs>>

\* renderInputRow: the prompt of a tab's only input row.
Prompt(t) == [cwd |-> t.cwd, profile |-> t.profile]
renderInputRow(t) == [t EXCEPT !.row = Prompt(t)]

\* `last` and `arrived` are for the properties: the latest command that was a
\* successful cd, and the directory it led to.
NewTab(profile) ==
  [cwd |-> Home, profile |-> profile, row |-> [cwd |-> Home, profile |-> profile],
   last |-> 0, arrived |-> Home]

-----------------------------------------------------------------------------
(* The service. *)

\* exec_terminal: the directory it answers with, which the tab takes over. A
\* directory that is gone is replaced by home before anything else.
exec_terminal(r) ==
  IF r.kind = "cd" /\ r.target \in dirs THEN r.target
  ELSE IF r.cwd \in dirs THEN r.cwd ELSE Home

\* A thread of the service executes a command, in any order with the others,
\* and sends its answer. The command may remove a directory.
Execute(r) ==
  /\ r.answer = <<>>
  /\ requests' = (requests \ {r}) \cup {[r EXCEPT !.answer = <<exec_terminal(r)>>]}
  /\ \/ UNCHANGED dirs
     \/ r.kind = "run" /\ \E d \in dirs \ {Home} : dirs' = dirs \ {d}
  /\ UNCHANGED <<tab, tabs, activeTab, shown, sent>>

-----------------------------------------------------------------------------
(* The tab bar. *)

\* selectTab, for the tab objects ts as they are by then.
selectTab(ts, t) ==
  /\ activeTab' = t
  /\ shown' = t
  /\ tab' = [ts EXCEPT ![t] = renderInputRow(@)]

createTab ==
  /\ Len(tab) < MaxTabs
  /\ tabs' = Append(tabs, Len(tab) + 1)
  /\ selectTab(Append(tab, NewTab(Default)), Len(tab) + 1)
  /\ UNCHANGED <<requests, sent, dirs>>

SelectClick(t) ==
  /\ Contains(tabs, t)
  /\ selectTab(tab, t)
  /\ UNCHANGED <<tabs, requests, sent, dirs>>

\* The close button is there while there are several tabs. After the active tab
\* comes the one to its right, else the one to its left.
closeTab(t) ==
  /\ Contains(tabs, t) /\ Len(tabs) > 1
  /\ tabs' = Remove(tabs, t)
  /\ \/ /\ activeTab = t
        /\ \E i \in {j \in DOMAIN tabs : tabs[j] = t} :
             selectTab(tab, IF i < Len(tabs) THEN tabs[i + 1] ELSE tabs[i - 1])
     \/ activeTab # t /\ UNCHANGED <<tab, activeTab, shown>>
  /\ UNCHANGED <<requests, sent, dirs>>

\* A profile button, or the profile command typed in the shown tab.
setTabProfile(profile) ==
  /\ selectTab([tab EXCEPT ![activeTab].profile = profile], activeTab)
  /\ UNCHANGED <<tabs, requests, sent, dirs>>

-----------------------------------------------------------------------------
(* Commands. *)

\* executeCommand for a command of the service, typed into the shown tab: the
\* directory it starts in is read now.
executeCommand(kind, target) ==
  /\ sent < MaxCommands
  /\ sent' = sent + 1
  /\ requests' = requests \cup {[id |-> sent + 1, tab |-> shown, kind |-> kind,
                                  target |-> target, cwd |-> tab[shown].cwd,
                                  answer |-> <<>>]}
  /\ UNCHANGED <<tab, tabs, activeTab, shown, dirs>>

\* Faulty variant: the row keeps the prompt of the time the command was typed.
TakesOverOld(t, cwd) == [t EXCEPT !.cwd = cwd]

\* The client's part of an answer.
TakesOver(t, cwd) == renderInputRow([t EXCEPT !.cwd = cwd])

\* The successful cd that was typed last.
Noted(t, r) ==
  IF r.kind = "cd" /\ r.answer = <<r.target>> /\ r.id > t.last
  THEN [t EXCEPT !.last = r.id, !.arrived = r.target] ELSE t

\* An answer is received and goes to the tab its command was typed in, shown or
\* not, open or not.
Answer(r) ==
  /\ r.answer # <<>>
  /\ tab' = [tab EXCEPT ![r.tab] = TakesOver(Noted(@, r), r.answer[1])]
  /\ requests' = requests \ {r}
  /\ UNCHANGED <<tabs, activeTab, shown, sent, dirs>>

\* No service, or its answer is lost: runLocalFallback prints and leaves the
\* directory alone.
Unreachable(r) ==
  /\ tab' = [tab EXCEPT ![r.tab] = renderInputRow(@)]
  /\ requests' = requests \ {r}
  /\ UNCHANGED <<tabs, activeTab, shown, sent, dirs>>

-----------------------------------------------------------------------------
Init ==
  /\ tab = <<NewTab(Default)>> /\ tabs = <<1>>
  /\ activeTab = 1 /\ shown = 1
  /\ requests = {} /\ sent = 0 /\ dirs = Dirs

Next ==
  \/ createTab
  \/ \E t \in 1..MaxTabs : SelectClick(t) \/ closeTab(t)
  \/ \E p \in Profiles : setTabProfile(p)
  \/ executeCommand("run", Home)
  \/ \E target \in Dirs \cup {Missing} : executeCommand("cd", target)
  \/ \E r \in requests : Execute(r) \/ Answer(r) \/ Unreachable(r)

Spec == Init /\ [][Next]_vars

-----------------------------------------------------------------------------
(* Properties. *)

\* The tab on the screen is the active one and is open, and the prompt of every
\* open tab shows the directory and the profile that its next command will run
\* with, whichever tab was on the screen when an answer came in or a neighbour
\* was closed (apps.js:347-378, 527-538).
PromptIsCurrent ==
  /\ Contains(tabs, activeTab) /\ shown = activeTab
  /\ \A i \in DOMAIN tabs : tab[tabs[i]].row = Prompt(tab[tabs[i]])

\* When every command has been answered, a tab is in the directory that the last
\* cd typed in it has led to, if that still exists (apps.js:519-532).
CdChangesDirectory ==
  requests = {} => \A i \in DOMAIN tabs :
    tab[tabs[i]].arrived \in dirs => tab[tabs[i]].cwd = tab[tabs[i]].arrived
=============================================================================
