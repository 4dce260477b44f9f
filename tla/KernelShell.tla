---------------------------- MODULE KernelShell ----------------------------
(***************************************************************************)
(* The line shell of the native kernel, kernel/src/shell.c: a line editor, *)
(* the commands, and a scrollback of MaxLines lines.  Drawing is left out. *)
(* A character is an element of Printable, "newline", "backspace" or any   *)
(* other key; upper and lower case are told apart, as the commands ignore  *)
(* case and the echo does not.  A scrollback line is <<"echo", text>> or   *)
(* <<command, k>>, the k-th line that the command prints.                  *)
(***************************************************************************)
EXTENDS Naturals, Sequences, SequencesExt

CONSTANTS MaxLines,     \* MAX_LINES
          MaxInput,     \* MAX_INPUT, the terminating zero included
          Printable,    \* the characters 32..126 that are explored
          Lower(_),     \* lower
          CommandText,  \* CommandText[c]: the word that names command c
          EchoPrefix    \* "echo "

VARIABLES lines, input, rebooting

shellVars == <<lines, input, rebooting>>

-----------------------------------------------------------------------------

LowerText(text) == [i \in DOMAIN text |-> Lower(text[i])]

\* Faulty variant: drops the oldest line one line early.
PushDropsEarly(ls, line) ==
  Append(IF Len(ls) = MaxLines - 1 THEN Tail(ls) ELSE ls, line)

\* push: a full scrollback loses its oldest line.
Push(ls, line) ==
  Append(IF Len(ls) = MaxLines THEN Tail(ls) ELSE ls, line)

PushAll(ls, new) == FoldLeft(Push, ls, new)

\* How many lines each command prints.
Output == [help |-> 6, about |-> 3, mem |-> 1, reboot |-> 1]

Printed(c) == [k \in 1..Output[c] |-> <<c, k>>]

IsCommand(c) == LowerText(input) = CommandText[c]

IsEcho ==
  /\ Len(input) >= Len(EchoPrefix)
  /\ LowerText(SubSeq(input, 1, Len(EchoPrefix))) = EchoPrefix

InitShell ==
  /\ lines = <<<<"banner", 1>>, <<"banner", 2>>, <<"banner", 3>>>>
  /\ input = <<>>
  /\ rebooting = FALSE

-----------------------------------------------------------------------------

Echoed == Push(lines, <<"echo", input>>)

\* The commands of execute, in the order in which it tests for them.
RunBlank ==
  /\ input = <<>>
  /\ lines' = Echoed
  /\ UNCHANGED rebooting

RunPrinting ==
  /\ input # <<>>
  /\ \E c \in {"help", "about", "mem"} :
       IsCommand(c) /\ lines' = PushAll(Echoed, Printed(c))
  /\ UNCHANGED rebooting

RunClear ==
  /\ IsCommand("clear")
  /\ lines' = <<>>
  /\ UNCHANGED rebooting

\* keyboard_reboot disables interrupts and never returns.
RunReboot ==
  /\ IsCommand("reboot")
  /\ lines' = PushAll(Echoed, Printed("reboot"))
  /\ rebooting' = TRUE

RunEcho ==
  /\ IsEcho
  /\ lines' = Push(Echoed, <<"said", SubSeq(input, Len(EchoPrefix) + 1, Len(input))>>)
  /\ UNCHANGED rebooting

RunUnknown ==
  /\ input # <<>>
  /\ \A c \in DOMAIN CommandText : ~IsCommand(c)
  /\ ~IsEcho
  /\ lines' = Push(Echoed, <<"unknown", 1>>)
  /\ UNCHANGED rebooting

\* execute: the line is consumed unless the machine is rebooting.
Execute ==
  /\ RunBlank \/ RunPrinting \/ RunClear \/ RunReboot \/ RunEcho \/ RunUnknown
  /\ input' = IF rebooting' THEN input ELSE <<>>

TypeChar(key) ==
  /\ key \in Printable
  /\ input' = IF Len(input) < MaxInput - 1 THEN Append(input, key) ELSE input
  /\ UNCHANGED <<lines, rebooting>>

Erase ==
  /\ input' = IF input = <<>> THEN <<>> ELSE Front(input)
  /\ UNCHANGED <<lines, rebooting>>

\* shell_handle_key.
HandleKey(key) ==
  /\ ~rebooting
  /\ CASE key = "newline" -> Execute
       [] key = "backspace" -> Erase
       [] key \in Printable -> TypeChar(key)
       [] OTHER -> UNCHANGED shellVars

-----------------------------------------------------------------------------

\* A command's whole answer is on the screen when it returns: no line of it, nor
\* the line that was typed, has been pushed out by the lines that follow it.
AnswerStaysVisible ==
  [][\A c \in {"help", "about", "mem"} :
       input # <<>> /\ IsCommand(c) /\ input' = <<>> /\ lines' # lines =>
         IsSuffix(<<<<"echo", input>>>> \o Printed(c), lines')]_shellVars
=============================================================================
