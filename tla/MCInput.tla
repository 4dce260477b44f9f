------------------------------ MODULE MCInput ------------------------------
(***************************************************************************)
(* The way of a key for TLC: the interrupts and the keyboard controller    *)
(* as the kernel brings them up, the event ring with its accesses one by   *)
(* one, the console built on the queue that the ring implements, and the   *)
(* line shell on its own, with more words than the console can afford.     *)
(* Each property is about one of them: `part` names the one that a         *)
(* behaviour runs, and the others stay as they began.                      *)
(***************************************************************************)
EXTENDS InputRing, Integers

CONSTANTS MaxCommands,  \* bound on the commands given to the shell on its own
          None

VARIABLES
  part,
  buffer, lost, popped, lines, input, rebooting, wire, held, modifiers, extended,
  mpc, handled,
  shell_lines, shell_input, shell_rebooting, executed,
  platform, boot, regs, lapic, handlers, iflag, cpu, timer, ps2, smp, seen

consoleVars == <<buffer, lost, popped, lines, input, rebooting, wire, held,
                 modifiers, extended, mpc, handled>>
shellVars == <<shell_lines, shell_input, shell_rebooting, executed>>
irqVars == <<platform, boot, regs, lapic, handlers, iflag, cpu, timer, ps2, smp, seen>>
all == <<part, vars, consoleVars, shellVars, irqVars>>

-----------------------------------------------------------------------------
\* A letter, enter and an extended modifier; a line of one letter is the
\* command reboot.  A queue of one event, so that releases are dropped.
PhysicalKeys ==
  [letter |-> [code |-> "letter", extended |-> FALSE],
   enter  |-> [code |-> "enter", extended |-> FALSE],
   rctrl  |-> [code |-> "ctrl", extended |-> TRUE]]
OneLetter(c) == "x"
LetterWords == [help |-> <<"h">>, about |-> <<"a">>, mem |-> <<"m">>,
                clear |-> <<"c">>, reboot |-> <<"x">>]

Console == INSTANCE Console WITH
  dropped <- lost, answer <- popped,
  Bound <- 1, MaxDropped <- 1, MaxLines <- 3, MaxInput <- 2,
  Printable <- {"x", "X"}, Lower <- OneLetter,
  CommandText <- LetterWords, EchoPrefix <- <<"e">>, KeyBytes <- PhysicalKeys

\* Words of at most two letters, and commands enough for the scrollback to
\* overflow more than once.
Letters == {"h", "a", "e", "H"}
LowerCase(c) == IF c = "H" THEN "h" ELSE c
Words == [help |-> <<"h">>, about |-> <<"a">>, mem |-> <<"h", "a">>,
          clear |-> <<"a", "h">>, reboot |-> <<"h", "h">>]

Shell == INSTANCE KernelShell WITH
  lines <- shell_lines, input <- shell_input, rebooting <- shell_rebooting,
  MaxLines <- 7, MaxInput <- 3, Printable <- Letters, Lower <- LowerCase,
  CommandText <- Words, EchoPrefix <- <<"e">>

ShellKey(key) ==
  /\ key = "newline" => executed < MaxCommands
  /\ Shell!HandleKey(key)
  /\ executed' = IF key = "newline" THEN executed + 1 ELSE executed

-----------------------------------------------------------------------------
\* The usual platform, I/O APICs in reverse order, a level-triggered keyboard,
\* and the ones that the code refuses.
BootCpu == 1
IoApic(base, count) == [gsi_base |-> base, count |-> count, aligned |-> TRUE]
Override(irq, gsi, polarity, trigger) ==
    [irq |-> irq, gsi |-> gsi, flags |-> [polarity |-> polarity, trigger |-> trigger]]
Line0And1(a, b) == [irq \in {0, 1} |-> IF irq = 0 THEN a ELSE b]

Usual ==
    [has_apic |-> TRUE, ioapics |-> <<IoApic(0, 3)>>,
     overrides |-> <<Override(0, 2, 0, 0), Override(0, 0, 0, 0)>>,
     cpus |-> <<BootCpu, 0>>, wire |-> Line0And1(2, 1)]
Reversed ==
    [has_apic |-> TRUE, ioapics |-> <<IoApic(1, 2), IoApic(0, 1)>>,
     overrides |-> <<>>, cpus |-> <<0, BootCpu>>, wire |-> Line0And1(0, 1)]
LevelKeyboard == [Usual EXCEPT !.overrides = @ \o <<Override(1, 1, 3, 3)>>]
ReservedFlags == [Usual EXCEPT !.overrides = @ \o <<Override(1, 1, 0, 2)>>]
NoPin == [Usual EXCEPT !.ioapics = <<IoApic(0, 2)>>]
TwinCpus == [Usual EXCEPT !.cpus = <<BootCpu, BootCpu>>]
NoIoApic == [Usual EXCEPT !.ioapics = <<>>]

Platforms ==
    {Usual, Reversed, LevelKeyboard, ReservedFlags, NoPin, TwinCpus, NoIoApic}

\* Two bytes from the keyboard; a clock that saturates soon.
Irq == INSTANCE Interrupts WITH
  LapicId <- BootCpu, SMP_MAX_CPUS <- 2, TickNs <- 2, SleepNs <- 3, MaxNs <- 9,
  MaxKeys <- 2

ASSUME ClockAssumption == Irq!NumbersAssumption

-----------------------------------------------------------------------------
InputInit ==
  /\ part \in {"ring", "console", "shell", "interrupts"}
  /\ Init /\ Console!Init /\ Irq!Init
  /\ Shell!InitShell /\ executed = 0
  /\ part # "interrupts" =>
       platform = Usual /\ ps2.out = None /\ ~ps2.irq1 /\ ~ps2.disabled

InputNext ==
  \/ part = "ring" /\ Next /\ UNCHANGED <<part, consoleVars, shellVars, irqVars>>
  \/ part = "console" /\ Console!Next /\ UNCHANGED <<part, vars, shellVars, irqVars>>
  \/ /\ part = "shell"
     /\ \E key \in Letters \cup {"newline", "backspace", "escape"} : ShellKey(key)
     /\ UNCHANGED <<part, vars, consoleVars, irqVars>>
  \/ part = "interrupts" /\ Irq!Next /\ UNCHANGED <<part, vars, consoleVars, shellVars>>

\* The fairness of Console and of Interrupts.
InputSpec ==
  /\ InputInit /\ [][InputNext]_all
  /\ WF_consoleVars(part = "console" /\ Console!Main)
  /\ WF_consoleVars(part = "console" /\ Console!TimerInterrupt)
  /\ WF_consoleVars(part = "console" /\ Console!KeyboardInterrupt)
  /\ SF_irqVars(part = "interrupts" /\ Irq!BootStep)
  /\ WF_irqVars(part = "interrupts" /\ Irq!CpuStep)
  /\ WF_irqVars(part = "interrupts" /\ Irq!PitTick)
  /\ WF_irqVars(part = "interrupts" /\ Irq!ControllerTakes)
  /\ WF_irqVars(part = "interrupts" /\ Irq!LevelAsserted)

-----------------------------------------------------------------------------
\* An event in the ring reaches the main loop, although the loop may halt
\* with events waiting.
KeysAreHandled == Console!KeysAreHandled

\* The whole answer to a command is on the screen when shell_handle_key
\* returns.
AnswerStaysVisible == Shell!AnswerStaysVisible

\* An interrupt is sent to the boot processor only, under a vector that has a
\* handler, however it falls between the register writes of route_gsi.
InterruptsReachTheirHandler == Irq!InterruptsReachTheirHandler

\* When the keyboard's line was low as its pin was opened, no byte is ever
\* left in the controller without an interrupt that will fetch it.
NoByteForgotten == Irq!NoByteForgotten

\* timer_sleep_ms ends, although it tests the clock and then halts.
SleepEnds == Irq!SleepEnds

\* docs/KERNEL_ROADMAP.md: the driver "enables IRQ1 in the 8042, routes it
\* through the IOAPIC, decodes ... events and pushes them into that queue".
KeysAreFetched == Irq!KeysAreFetched
=============================================================================
