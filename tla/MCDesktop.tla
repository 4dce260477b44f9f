----------------------------- MODULE MCDesktop -----------------------------
(***************************************************************************)
(* The desktop shell for TLC: its window system and its terminal.  The two *)
(* share no state and each property is about one of them: `part` names the *)
(* one that a behaviour runs, and the other stays as it began.             *)
(***************************************************************************)
EXTENDS DesktopShell, TLC

CONSTANTS home, projects, missing,     \* directories
          winterm, gnome               \* profiles

VARIABLES part,
          tab, tabs, activeTab, shown, requests, sent, dirs

terminalVars == <<tab, tabs, activeTab, shown, requests, sent, dirs>>
all == <<part, vars, terminalVars>>

\* Three tabs and two commands, so that answers overtake each other while
\* tabs are switched and closed.
Terminal == INSTANCE Terminal WITH
  Home <- home, Dirs <- {home, projects}, Missing <- missing,
  Profiles <- {winterm, gnome}, Default <- winterm, MaxTabs <- 3, MaxCommands <- 2

\* The applications that boot does not open are interchangeable.
AppSymmetry == Permutations(Apps \ {First})

ASSUME TabsAssumption == Terminal!TerminalAssumption

-----------------------------------------------------------------------------
DesktopInit == part \in {"windows", "terminal"} /\ Init /\ Terminal!Init

DesktopNext ==
  \/ part = "windows" /\ Next /\ UNCHANGED <<part, terminalVars>>
  \/ part = "terminal" /\ Terminal!Next /\ UNCHANGED <<part, vars>>

DesktopSpec == DesktopInit /\ [][DesktopNext]_all

-----------------------------------------------------------------------------
\* Prompts show where the next command will run, and the tab on the screen is
\* the active one, in whatever order answers come in.
PromptIsCurrent == Terminal!PromptIsCurrent
=============================================================================
