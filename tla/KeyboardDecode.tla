-------------------------- MODULE KeyboardDecode --------------------------
(***************************************************************************)
(* The scan code decoder, kernel/src/keyboard_decode.c, as operators on    *)
(* its state: the modifiers that are down and the pending E0 prefix.  A    *)
(* byte is a prefix or a key code with its release bit.  Both shift keys   *)
(* have the class "shift"; so have the two controls and the two alts.  The *)
(* translation tables are reduced to one letter, the two editing keys and  *)
(* keys without a character.                                               *)
(***************************************************************************)
EXTENDS Naturals

Prefixes  == {"e0", "e1"}
Modifiers == {"shift", "ctrl", "alt"}
Codes     == Modifiers \cup {"letter", "enter", "backspace"}
NoChar    == "none"

Byte == [code : Codes \cup Prefixes, released : BOOLEAN]

\* translate.
Translate(code, shift) ==
  CASE code = "letter" -> IF shift THEN "X" ELSE "x"
    [] code = "enter" -> "newline"
    [] code = "backspace" -> "backspace"
    [] OTHER -> NoChar

\* keyboard_decode_scancode returns 0, and no event, for a prefix.
HasEvent(byte) == byte.code \notin Prefixes

NextExtended(byte) == byte.code = "e0"

NextModifiers(modifiers, byte) ==
  IF byte.code \notin Modifiers THEN modifiers
  ELSE IF byte.released THEN modifiers \ {byte.code}
  ELSE modifiers \cup {byte.code}

\* The event for a byte that is not a prefix.
EventFor(modifiers, extended, byte) ==
  LET mods == NextModifiers(modifiers, byte)
  IN  [code |-> byte.code, extended |-> extended, modifiers |-> mods,
       pressed |-> ~byte.released,
       character |-> IF byte.released \/ extended THEN NoChar
                     ELSE Translate(byte.code, "shift" \in mods)]
=============================================================================
