------------------------------ MODULE Console ------------------------------
(***************************************************************************)
(* The interactive path of the native kernel, composed of its parts: the   *)
(* keyboard controller, the keyboard interrupt (keyboard.c) with its       *)
(* decoder, the event ring, the main loop that drains the ring into the    *)
(* line shell and halts when there is nothing to do (the end of            *)
(* kernel_after_paging in main.c), and the timer whose interrupt also ends *)
(* a halt (timer.c).                                                       *)
(*                                                                         *)
(* Interrupts are enabled from interrupts_enable until keyboard_reboot and *)
(* may come between any two steps of the main loop.  The controller and    *)
(* the keyboard are external: they deliver the bytes of a key in order,    *)
(* one interrupt per byte, and the next key only once those are read.      *)
(* e1000_poll touches none of this state and is left out.  The ring is     *)
(* represented by the bounded queue that InputRing is proved to implement. *)
(***************************************************************************)
EXTENDS Naturals, Sequences, KeyboardDecode

CONSTANTS Bound, Busy, Empty,     \* see BoundedFifo; Bound is Capacity - 1
          MaxDropped,             \* bound on the drops explored
          MaxLines, MaxInput, Printable, Lower(_),    \* see KernelShell
          CommandText, EchoPrefix,
          KeyBytes      \* KeyBytes[k]: [code, extended] of physical key k

VARIABLES buffer, dropped, answer,      \* the event ring and its consumer
          lines, input, rebooting,      \* the shell
          wire,         \* bytes sent by the keyboard and not yet read
          held,         \* the keys that are physically down
          modifiers, extended,      \* decode_state
          mpc, handled              \* the main loop

Keys == DOMAIN KeyBytes

KeyEvents ==
  {EventFor(mods, ext, [code |-> KeyBytes[k].code, released |-> rel]) :
     mods \in SUBSET Modifiers, ext \in BOOLEAN, k \in Keys, rel \in BOOLEAN}

Ring == INSTANCE BoundedFifo WITH Events <- KeyEvents
Shell == INSTANCE KernelShell

ringVars == <<buffer, dropped, answer>>
shellVars == <<lines, input, rebooting>>
keyVars == <<wire, held, modifiers, extended>>
mainVars == <<mpc, handled>>
vars == <<ringVars, shellVars, keyVars, mainVars>>

Init ==
  /\ Ring!Init
  /\ Shell!InitShell
  /\ wire = <<>> /\ held = {}
  /\ modifiers = {} /\ extended = FALSE
  /\ mpc = "top" /\ handled = FALSE

-----------------------------------------------------------------------------

\* The bytes of a press (or of its automatic repetition) or of a release.
BytesOf(k, rel) ==
  LET byte == [code |-> KeyBytes[k].code, released |-> rel]
  IN  IF KeyBytes[k].extended
      THEN <<[code |-> "e0", released |-> FALSE], byte>>
      ELSE <<byte>>

\* External: somebody presses or holds a key, or releases one that is down.
UserKey(k, rel) ==
  /\ rel => k \in held
  /\ wire = <<>>
  /\ wire' = BytesOf(k, rel)
  /\ held' = IF rel THEN held \ {k} ELSE held \cup {k}
  /\ UNCHANGED <<ringVars, shellVars, modifiers, extended, mainVars>>

\* hlt ends with the next interrupt, and the loop starts over.
Awake == IF mpc = "halted" THEN "top" ELSE mpc

\* input_push_isr.
Push(e) == Ring!Put(e) \/ (dropped < MaxDropped /\ Ring!Drop)

\* keyboard_interrupt: one byte is read and decoded, and its event pushed.
KeyboardInterrupt ==
  /\ ~rebooting
  /\ wire # <<>>
  /\ LET byte == Head(wire)
     IN  /\ modifiers' = NextModifiers(modifiers, byte)
         /\ extended' = NextExtended(byte)
         /\ IF HasEvent(byte) THEN Push(EventFor(modifiers, extended, byte))
            ELSE UNCHANGED ringVars
  /\ wire' = Tail(wire)
  /\ mpc' = Awake
  /\ UNCHANGED <<held, handled, shellVars>>

\* Faulty variant: the timer is masked.
TimerMasked == FALSE

\* timer_interrupt matters to this path only when it ends a halt.
TimerInterrupt ==
  /\ ~rebooting
  /\ mpc = "halted"
  /\ mpc' = Awake
  /\ UNCHANGED <<ringVars, shellVars, keyVars, handled>>

-----------------------------------------------------------------------------

LoopTop ==
  /\ mpc = "top"
  /\ handled' = FALSE
  /\ mpc' = "drain"
  /\ UNCHANGED <<ringVars, shellVars, keyVars>>

\* input_pop: the call and its answer.
PopCall ==
  /\ mpc = "drain"
  /\ Ring!Request
  /\ mpc' = "popping"
  /\ UNCHANGED <<shellVars, keyVars, handled>>

PopReturn ==
  /\ mpc = "popping"
  /\ Ring!Take \/ Ring!Refuse
  /\ mpc' = "popped"
  /\ UNCHANGED <<shellVars, keyVars, handled>>

HandleEvent ==
  /\ mpc = "popped"
  /\ answer # Empty
  /\ handled' = TRUE
  /\ IF answer.pressed /\ answer.character # NoChar
     THEN Shell!HandleKey(answer.character)
     ELSE UNCHANGED shellVars
  /\ mpc' = IF rebooting' THEN "off" ELSE "drain"
  /\ UNCHANGED <<ringVars, keyVars>>

\* The ring was empty.  Between this decision and the hlt instruction an
\* interrupt may still push an event.
Drained ==
  /\ mpc = "popped"
  /\ answer = Empty
  /\ mpc' = IF handled THEN "top" ELSE "hlt"
  /\ UNCHANGED <<ringVars, shellVars, keyVars, handled>>

Halt ==
  /\ mpc = "hlt"
  /\ mpc' = "halted"
  /\ UNCHANGED <<ringVars, shellVars, keyVars, handled>>

Main == LoopTop \/ PopCall \/ PopReturn \/ HandleEvent \/ Drained \/ Halt

Next ==
  \/ \E k \in Keys, rel \in BOOLEAN : UserKey(k, rel)
  \/ KeyboardInterrupt
  \/ TimerInterrupt
  \/ Main

Spec == Init /\ [][Next]_vars

\* The processor keeps executing the main loop, the PIT keeps ticking, and the
\* controller's pending interrupt is delivered.
FairSpec ==
  Spec /\ WF_vars(Main) /\ WF_vars(TimerInterrupt) /\ WF_vars(KeyboardInterrupt)

-----------------------------------------------------------------------------

\* Typing reaches the shell: while events wait in the ring the main loop gets to
\* the next one, although an interrupt between the last failed input_pop and hlt
\* leaves it halted with events waiting.  FIFO order makes it every event.
KeysAreHandled ==
  buffer # <<>> ~> (mpc = "popped" /\ answer # Empty) \/ rebooting
=============================================================================
