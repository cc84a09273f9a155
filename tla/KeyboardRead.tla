----------------------------- MODULE KeyboardRead -----------------------------
(***************************************************************************)
(* keyboard_read() of keyboard.c: the TTY task turns the scan codes that   *)
(* wait in the keyboard buffer into keys with modifiers and passes them to *)
(* in_process().  A key may send several bytes, which arrive one by one    *)
(* and of which a full buffer loses the newest (theorem QueueTheorem of    *)
(* KbBufferProofs); in the middle of a key keyboard_read() waits.          *)
(*                                                                         *)
(* The keyboard is modelled from the table of scan codes in keymap.h.      *)
(***************************************************************************)
EXTENDS Integers, Sequences, FiniteSets

CONSTANTS
  Key,          \* the keys of the keyboard
  KB_IN_BYTES,  \* the size of the keyboard buffer
  MaxDown,      \* how many keys the user holds down at once
  MaxLost       \* how many bytes are lost before the user slows down

ASSUME KeyboardReadAssumption ==
  /\ Key \subseteq {"A", "L_SHFT", "R_SHFT", "R_CTRL", "L_ALT", "R_ALT", "U_ARROW",
                    "KP_8", "F1", "ENTER", "PRTSCRN", "PAUSE", "POWER"}
  /\ KB_IN_BYTES \in Nat \ {0}
  /\ MaxDown \in Nat \ {0}
  /\ MaxLost \in Nat

VARIABLES
  pressed,      \* the keys that are down
  wire,         \* bytes of the last key event that the keyboard still sends
  kb_in,        \* the keyboard buffer
  pc,           \* where keyboard_read() is
  scan_code, key, code_with_E0,     \* its variables
  modifiers,    \* those of shift_l, shift_r, ... ctrl_r that are set
  expected,     \* ghost: the keys typed that in_process() is still to see
  dropped,      \* ghost: the keys typed that it never will see
  lost          \* how many bytes have been lost

keyboard == <<pressed, wire>>
locals   == <<scan_code, key, code_with_E0>>
vars     == <<keyboard, kb_in, pc, locals, modifiers, expected, dropped, lost>>

-----------------------------------------------------------------------------
(* The keyboard.                                                           *)

Code == [A |-> 30, L_SHFT |-> 42, R_SHFT |-> 54, R_CTRL |-> 29, L_ALT |-> 56,
         R_ALT |-> 56, U_ARROW |-> 72, KP_8 |-> 72, F1 |-> 59, ENTER |-> 28,
         POWER |-> 94]

E0 == 224
E1 == 225
FLAG_BREAK == 128

Extended == {"R_CTRL", "R_ALT", "U_ARROW", "POWER"}

Make(k) ==
  CASE k = "PRTSCRN"    -> <<E0, 42, E0, 55>>
    [] k = "PAUSE"      -> <<E1, 29, 69, E1, 157, 197>>
    [] k \in Extended   -> <<E0, Code[k]>>
    [] OTHER            -> <<Code[k]>>

Break(k) ==
  CASE k = "PRTSCRN"    -> <<E0, 183, E0, 170>>
    [] k = "PAUSE"      -> <<>>
    [] k \in Extended   -> <<E0, Code[k] + FLAG_BREAK>>
    [] OTHER            -> <<Code[k] + FLAG_BREAK>>

\* What in_process() should get for a key that goes down while others are.
Flag == [L_SHFT |-> "SHIFT_L", R_SHFT |-> "SHIFT_R", R_CTRL |-> "CTRL_R",
         L_ALT |-> "ALT_L", R_ALT |-> "ALT_R"]

Flags(down) == {Flag[k] : k \in down \intersect DOMAIN Flag}

Meaning(k, down) ==
  LET shift == Flags(down) \intersect {"SHIFT_L", "SHIFT_R"} /= {} IN
  CASE k = "A"           -> IF shift THEN "A" ELSE "a"
    [] k = "KP_8"        -> IF shift THEN "8" ELSE "PAD_UP"
    [] k \in DOMAIN Flag -> Flag[k]
    [] k = "U_ARROW"     -> "UP"
    [] k = "PRTSCRN"     -> "PRINTSCREEN"
    [] k = "PAUSE"       -> "PAUSEBREAK"
    [] OTHER             -> k

Init ==
  /\ pressed = {}
  /\ wire = <<>>
  /\ kb_in = <<>>
  /\ pc = "poll"
  /\ scan_code = 0 /\ key = "none" /\ code_with_E0 = FALSE
  /\ modifiers = {}
  /\ expected = <<>>
  /\ dropped = {}
  /\ lost = 0

\* A key goes down, or repeats; the keyboard sends one event at a time.
Press ==
  /\ wire = <<>>
  /\ \E k \in Key :
       LET down == IF k = "PAUSE" THEN pressed ELSE pressed \union {k} IN
       /\ Cardinality(down) <= MaxDown
       /\ pressed' = down
       /\ wire' = Make(k)
       /\ expected' = IF lost > 0 THEN <<>>
                      ELSE Append(expected, [key |-> Meaning(k, down), flags |-> Flags(down)])
  /\ UNCHANGED <<kb_in, lost, pc, locals, modifiers, dropped>>

Release ==
  /\ wire = <<>>
  /\ \E k \in pressed :
       /\ pressed' = pressed \ {k}
       /\ wire' = Break(k)
  /\ UNCHANGED <<kb_in, lost, pc, locals, modifiers, expected, dropped>>

\* The interrupt for the next byte: a full buffer loses it.
Arrive ==
  /\ wire /= <<>>
  /\ Len(kb_in) < KB_IN_BYTES \/ lost < MaxLost
  /\ wire' = Tail(wire)
  /\ IF Len(kb_in) < KB_IN_BYTES
     THEN kb_in' = Append(kb_in, Head(wire)) /\ UNCHANGED <<lost, expected>>
     ELSE lost' = lost + 1 /\ expected' = <<>> /\ UNCHANGED kb_in
  /\ UNCHANGED <<pressed, pc, locals, modifiers, dropped>>

-----------------------------------------------------------------------------
(* keyboard_read().                                                        *)

\* get_byte_from_kb_buf() waits for a byte.
Byte == Head(kb_in)

\* What is local to keyboard_read() dies when it returns, or goes on to
\* in_process() with the key.
Finish(make, k) ==
  /\ pc' = IF make THEN "process" ELSE "poll"
  /\ key' = IF make THEN k ELSE "none"
  /\ scan_code' = 0

GetByte(at) ==
  /\ pc = at
  /\ kb_in /= <<>>
  /\ kb_in' = Tail(kb_in)
  /\ UNCHANGED <<keyboard, modifiers, expected, dropped, lost>>

\* (Wrong: code_with_E0 stays from the key before.)
FirstByteKeepsE0 ==
  /\ GetByte("poll")
  /\ scan_code' = Byte
  /\ key' = "none"
  /\ pc' = CASE Byte = E1 -> "pause1" [] Byte = E0 -> "e0" [] OTHER -> "decode"
  /\ UNCHANGED code_with_E0

FirstByte ==
  /\ GetByte("poll")
  /\ scan_code' = Byte
  /\ key' = "none"
  /\ code_with_E0' = FALSE
  /\ pc' = CASE Byte = E1 -> "pause1" [] Byte = E0 -> "e0" [] OTHER -> "decode"

\* The rest of Pause, up to the first byte that differs.
PauseCode == <<29, 69, E1, 157, 197>>
PausePc   == <<"pause1", "pause2", "pause3", "pause4", "pause5">>

\* (Wrong: a byte that differs is skipped.)
PauseByteSkips ==
  \E i \in 1 .. 5 :
    /\ GetByte(PausePc[i])
    /\ pc' = IF Byte /= PauseCode[i] THEN pc ELSE IF i < 5 THEN PausePc[i + 1] ELSE "decode"
    /\ key' = IF Byte = PauseCode[i] /\ i = 5 THEN "PAUSEBREAK" ELSE key
    /\ UNCHANGED <<scan_code, code_with_E0>>

PauseByte ==
  \E i \in 1 .. 5 :
    /\ GetByte(PausePc[i])
    /\ pc' = IF Byte = PauseCode[i] /\ i < 5 THEN PausePc[i + 1] ELSE "decode"
    /\ key' = IF Byte = PauseCode[i] /\ i = 5 THEN "PAUSEBREAK" ELSE key
    /\ UNCHANGED <<scan_code, code_with_E0>>

\* (Wrong: every sequence with E0 is taken to be one of PrintScreen's.)
SecondByteWaits ==
  /\ GetByte("e0")
  /\ scan_code' = Byte
  /\ pc' = "print1"
  /\ UNCHANGED <<key, code_with_E0>>

SecondByte ==
  /\ GetByte("e0")
  /\ scan_code' = Byte
  /\ IF Byte \in {42, 183}
     THEN pc' = "print1" /\ UNCHANGED code_with_E0
     ELSE pc' = "decode" /\ code_with_E0' = TRUE
  /\ UNCHANGED key

\* The rest of PrintScreen: E0, then 37 when it goes down and AA when it is
\* released.
PrintScreenByte ==
  /\ \/ /\ GetByte("print1") /\ Byte = E0
        /\ pc' = "print2"
        /\ UNCHANGED <<key, code_with_E0>>
     \/ /\ GetByte("print2") /\ Byte = IF scan_code = 42 THEN 55 ELSE 170
        /\ pc' = "decode" /\ key' = "PRINTSCREEN"
        /\ UNCHANGED code_with_E0
     \/ /\ \/ GetByte("print1") /\ Byte /= E0
           \/ GetByte("print2") /\ Byte /= IF scan_code = 42 THEN 55 ELSE 170
        /\ pc' = "decode" /\ code_with_E0' = TRUE
        /\ UNCHANGED key
  /\ UNCHANGED scan_code

\* The rows of keymap[] that these keys can reach, broken sequences included.
keymap(row) ==
  CASE row = 28 -> <<"ENTER", "ENTER", "PAD_ENTER">>
    [] row = 29 -> <<"CTRL_L", "CTRL_L", "CTRL_R">>
    [] row = 30 -> <<"a", "A", "none">>
    [] row = 42 -> <<"SHIFT_L", "SHIFT_L", "none">>
    [] row = 54 -> <<"SHIFT_R", "SHIFT_R", "none">>
    [] row = 55 -> <<"*", "*", "none">>
    [] row = 56 -> <<"ALT_L", "ALT_L", "ALT_R">>
    [] row = 59 -> <<"F1", "F1", "none">>
    [] row = 69 -> <<"NUM_LOCK", "NUM_LOCK", "none">>
    [] row = 72 -> <<"PAD_UP", "8", "UP">>
    [] OTHER    -> <<"none", "none", "none">>

Column ==
  IF code_with_E0 THEN 3 ELSE IF modifiers \intersect {"SHIFT_L", "SHIFT_R"} /= {} THEN 2 ELSE 1

ModifierKey == {"SHIFT_L", "SHIFT_R", "CTRL_L", "CTRL_R", "ALT_L", "ALT_R"}

\* (Wrong: a modifier is set when it goes down and never reset.)
DecodeSticky ==
  /\ pc = "decode"
  /\ key = "none"
  /\ LET make == scan_code < FLAG_BREAK
         k    == keymap(scan_code % FLAG_BREAK)[Column]
     IN /\ Finish(make, k)
        /\ modifiers' = IF k \in ModifierKey THEN modifiers \union {k} ELSE modifiers
  /\ UNCHANGED <<keyboard, kb_in, code_with_E0, expected, dropped, lost>>

Decode ==
  /\ pc = "decode"
  /\ key = "none"
  /\ LET make == scan_code < FLAG_BREAK
         k    == keymap(scan_code % FLAG_BREAK)[Column]
     IN /\ Finish(make, k)
        /\ modifiers' = IF k \in ModifierKey
                        THEN IF make THEN modifiers \union {k} ELSE modifiers \ {k}
                        ELSE modifiers
  /\ UNCHANGED <<keyboard, kb_in, code_with_E0, expected, dropped, lost>>

\* Pause and PrintScreen have been recognised by their bytes.  make was set
\* for PrintScreen and never for Pause, where it may hold anything: a Pause
\* for which it holds 0 is dropped.
DecodeSpecial ==
  /\ pc = "decode"
  /\ key /= "none"
  /\ \E make \in IF key = "PAUSEBREAK" THEN BOOLEAN ELSE {scan_code = 42} :
       /\ Finish(make, key)
       /\ IF key = "PAUSEBREAK" /\ ~make /\ expected /= <<>>
          THEN expected' = Tail(expected) /\ dropped' = dropped \union {Head(expected).key}
          ELSE UNCHANGED <<expected, dropped>>
  /\ UNCHANGED <<keyboard, kb_in, code_with_E0, modifiers, lost>>

\* The call of in_process() with key and the flags in modifiers.
InProcess ==
  /\ pc = "process"
  /\ pc' = "poll"
  /\ key' = "none"
  /\ expected' = IF expected = <<>> THEN <<>> ELSE Tail(expected)
  /\ UNCHANGED <<keyboard, kb_in, scan_code, code_with_E0, modifiers, dropped, lost>>

keyboard_read ==
  \/ FirstByte
  \/ PauseByte
  \/ SecondByte
  \/ PrintScreenByte
  \/ Decode
  \/ DecodeSpecial
  \/ InProcess

Next == Press \/ Release \/ Arrive \/ keyboard_read

Spec == Init /\ [][Next]_vars

\* The TTY task polls for ever, and the keyboard finishes what it sends.
FairSpec == Spec /\ WF_vars(keyboard_read) /\ WF_vars(Arrive)

-----------------------------------------------------------------------------
(* Properties.                                                             *)

\* While no byte is lost, in_process() gets the keys that were typed, but for
\* those that are dropped, in the order in which they were typed, with the
\* modifiers that were down then.
DecodedInOrder ==
  lost = 0 /\ pc = "process" =>
    /\ expected /= <<>>
    /\ Head(expected) = [key |-> key, flags |-> modifiers]

Quiet == wire = <<>> /\ kb_in = <<>> /\ pc = "poll"

\* And it gets all of them but Pause: when everything has been read, no other
\* key that was typed is missing and the modifiers are those that are down.
NothingForgotten ==
  lost = 0 /\ Quiet =>
    expected = <<>> /\ dropped \subseteq {"PAUSEBREAK"} /\ modifiers = Flags(pressed)

\* keyboard_read() waits in the middle of a key only while the rest of the
\* key is on its way; after the loss of a byte it may wait, and the consoles
\* with it, until the next key.
WaitsOnlyForTheRest ==
  lost = 0 /\ pc \notin {"poll", "decode", "process"} => wire /= <<>> \/ kb_in /= <<>>

\* A lost byte may leave keyboard_read() waiting in the middle of a key, but
\* it does so only until the user types on: it gets through in the end, out of
\* whatever bytes.
LossIsNotForEver == []<>(wire /= <<>>) => (pc /= "poll" ~> pc = "poll")
=============================================================================
