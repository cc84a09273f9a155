-------------------------------- MODULE Tty --------------------------------
(***************************************************************************)
(* tty.c: the TTY task.  After it has initialised the keyboard, the TTYs   *)
(* and the consoles it polls them in turn for ever: it reads one key for   *)
(* the TTY of the current console, and prints one character of each TTY's  *)
(* buffer.  A key is queued to be echoed, selects a console or scrolls.    *)
(*                                                                         *)
(* The keyboard below is the one keyboard_read() makes of the scan codes   *)
(* (DecodedInOrder of KeyboardRead): keys with modifiers in the order in   *)
(* which they are typed, of which the last one's bytes may not all have    *)
(* come.  out_char() and scroll_screen() are those of Console; here they   *)
(* are recorded.                                                           *)
(***************************************************************************)
EXTENDS Integers, Sequences

CONSTANTS
  NR_CONSOLES,
  TTY_IN_BYTES,   \* the size of a TTY's buffer
  UserKey,        \* the keys the user types, as keyboard_read() decodes them
  MaxKeys         \* bound: how many keys are typed

\* ext is FLAG_EXT; fn is the number of a function key, from 0.
KeyRecord(code, fn, ext, modifiers) ==
  [code |-> code, fn |-> fn, ext |-> ext, modifiers |-> modifiers]

ASSUME TtyAssumption ==
  /\ NR_CONSOLES \in Nat \ {0}
  /\ TTY_IN_BYTES \in Nat \ {0}
  /\ MaxKeys \in Nat
  /\ \A k \in UserKey : k.fn \in Nat /\ k.ext \in BOOLEAN

VARIABLES
  in_buf, p_inbuf_head, p_inbuf_tail, in_count,   \* tty_table, by TTY
  nr_current_console,
  stage, i,       \* the statement of tty_task(), and its loop variable
  kb,             \* the keys that keyboard_read() has not taken
  partial,        \* is the last of them still on its way?
  typed,          \* ghost: every key typed
  output          \* ghost: what the consoles were told, in order

ring     == <<in_buf, p_inbuf_head, p_inbuf_tail, in_count>>
keys     == <<kb, partial, typed>>
control  == <<stage, i>>
tty_vars == <<ring, nr_current_console, control, keys, output>>

TtyId == 0 .. NR_CONSOLES - 1
Slot  == 0 .. TTY_IN_BYTES - 1
Unset == -1
NoKey == KeyRecord("", 0, FALSE, {})

TtyInit ==
  /\ in_buf = [t \in TtyId |-> [s \in Slot |-> NoKey]]
  /\ p_inbuf_head = [t \in TtyId |-> Unset]
  /\ p_inbuf_tail = [t \in TtyId |-> Unset]
  /\ in_count = [t \in TtyId |-> Unset]
  /\ nr_current_console = 0
  /\ stage = "init_tty" /\ i = 0
  /\ kb = <<>> /\ partial = FALSE /\ typed = <<>>
  /\ output = <<>>

-----------------------------------------------------------------------------
(* The user.                                                               *)

Type(k) ==
  /\ ~partial /\ Len(typed) < MaxKeys
  /\ kb' = Append(kb, k)
  /\ typed' = Append(typed, k)
  /\ partial' \in BOOLEAN
  /\ UNCHANGED <<ring, nr_current_console, control, output>>

LastByte ==
  /\ partial
  /\ partial' = FALSE
  /\ UNCHANGED <<kb, typed, ring, nr_current_console, control, output>>

-----------------------------------------------------------------------------
(* The buffer of a TTY.                                                    *)

Wrap(s) == IF s = TTY_IN_BYTES THEN 0 ELSE s

put_key(t, k) ==
  IF in_count[t] < TTY_IN_BYTES
  THEN /\ in_buf' = [in_buf EXCEPT ![t][p_inbuf_head[t]] = k]
       /\ p_inbuf_head' = [p_inbuf_head EXCEPT ![t] = Wrap(@ + 1)]
       /\ in_count' = [in_count EXCEPT ![t] = @ + 1]
       /\ UNCHANGED p_inbuf_tail
  ELSE UNCHANGED ring

-----------------------------------------------------------------------------
(* Consoles: what tty.c calls.  A stored key is printed as a char, so that *)
(* its modifiers are cut off.                                              *)

Tell(c, what) == output' = Append(output, <<c, what>>)

\* (Wrong: one console too many.)
SelectConsoleBeyond(n) ==
  nr_current_console' = IF n \in 0 .. NR_CONSOLES THEN n ELSE nr_current_console

SelectConsole(n) ==
  nr_current_console' = IF n \in TtyId THEN n ELSE nr_current_console

-----------------------------------------------------------------------------
(* tty_task().                                                             *)

InitTty ==
  /\ stage = "init_tty"
  /\ in_count' = [in_count EXCEPT ![i] = 0]
  /\ p_inbuf_head' = [p_inbuf_head EXCEPT ![i] = 0]
  /\ p_inbuf_tail' = [p_inbuf_tail EXCEPT ![i] = 0]
  /\ IF i + 1 \in TtyId
     THEN i' = i + 1 /\ UNCHANGED <<stage, nr_current_console>>
     ELSE i' = 0 /\ stage' = "tty_do_read" /\ SelectConsole(0)
  /\ UNCHANGED <<in_buf, keys, output>>

\* (Wrong: the keyboard is read for every TTY.)
TtyDoReadAny ==
  /\ stage = "tty_do_read"
  /\ stage' = IF kb /= <<>> THEN "keyboard_read" ELSE "tty_do_write"
  /\ UNCHANGED <<ring, nr_current_console, i, keys, output>>

\* keyboard_read() returns at once when there is nothing to read, and waits
\* for the rest of a key that has begun.
TtyDoRead ==
  /\ stage = "tty_do_read"
  /\ stage' = IF nr_current_console = i /\ kb /= <<>> THEN "keyboard_read" ELSE "tty_do_write"
  /\ UNCHANGED <<ring, nr_current_console, i, keys, output>>

Alt(k)   == k.modifiers \intersect {"ALT_L", "ALT_R"} /= {}
Shift(k) == k.modifiers \intersect {"SHIFT_L", "SHIFT_R"} /= {}
Text(k)  == ~k.ext \/ k.code \in {"ENTER", "BACKSPACE"}
Scroll(k) == k.ext /\ k.code \in {"UP", "DOWN"} /\ Shift(k)
Choice(k) == k.ext /\ k.code = "F" /\ Alt(k)

in_process(t, k) ==
  \/ /\ Text(k)
     /\ put_key(t, k)
     /\ UNCHANGED <<nr_current_console, output>>
  \/ /\ Choice(k)
     /\ SelectConsole(k.fn)
     /\ UNCHANGED <<ring, output>>
  \/ /\ Scroll(k)
     /\ Tell(t, k.code)
     /\ UNCHANGED <<ring, nr_current_console>>
  \/ /\ ~Text(k) /\ ~Choice(k) /\ ~Scroll(k)
     /\ UNCHANGED <<ring, nr_current_console, output>>

KeyboardRead ==
  /\ stage = "keyboard_read"
  /\ Len(kb) > 1 \/ ~partial
  /\ kb' = Tail(kb)
  /\ in_process(i, Head(kb))
  /\ stage' = "tty_do_write"
  /\ UNCHANGED <<i, partial, typed>>

Waiting(t) == in_count[t] > 0

TtyDoWrite ==
  /\ stage = "tty_do_write"
  /\ IF Waiting(i)
     THEN /\ p_inbuf_tail' = [p_inbuf_tail EXCEPT ![i] = Wrap(@ + 1)]
          /\ in_count' = [in_count EXCEPT ![i] = @ - 1]
          /\ Tell(i, in_buf[i][p_inbuf_tail[i]].code)
          /\ UNCHANGED <<in_buf, p_inbuf_head>>
     ELSE UNCHANGED <<ring, output>>
  /\ i' = IF i + 1 \in TtyId THEN i + 1 ELSE 0
  /\ stage' = "tty_do_read"
  /\ UNCHANGED <<nr_current_console, keys>>

TtyTask == InitTty \/ TtyDoRead \/ KeyboardRead \/ TtyDoWrite

TtyNext == TtyTask \/ LastByte \/ \E k \in UserKey : Type(k)

TtySpec == TtyInit /\ [][TtyNext]_tty_vars

\* The scheduler gives the TTY task the processor again and again
\* (EveryoneRuns of Kernel), and a keyboard sends its codes to the end.
TtyFairSpec == TtySpec /\ WF_tty_vars(TtyTask) /\ WF_tty_vars(LastByte)

-----------------------------------------------------------------------------
TypeOK ==
  /\ stage \in {"init_tty", "tty_do_read", "keyboard_read", "tty_do_write"}
  /\ i \in TtyId
  /\ nr_current_console \in TtyId
  /\ \A t \in TtyId :
       (stage /= "init_tty" \/ t < i) =>
         /\ p_inbuf_head[t] \in Slot
         /\ p_inbuf_tail[t] \in Slot
         /\ in_count[t] \in 0 .. TTY_IN_BYTES
  /\ kb \in Seq(UserKey) /\ typed \in Seq(UserKey)
  /\ partial \in BOOLEAN

\* What a user expects who types the keys s on the console that she sees:
\* every effect goes to the console chosen by the last Alt+Fn typed before.
Effect(seen, k) ==
  CASE Choice(k) /\ k.fn \in TtyId -> [seen EXCEPT !.console = k.fn]
    [] Text(k) \/ Scroll(k) -> [seen EXCEPT !.output = Append(@, <<seen.console, k.code>>)]
    [] OTHER -> seen

Expected(s) ==
  LET seen[n \in 0 .. Len(s)] ==
        IF n = 0 THEN [console |-> 0, output |-> <<>>] ELSE Effect(seen[n - 1], s[n])
  IN  seen[Len(s)]

Handled == SubSeq(typed, 1, Len(typed) - Len(kb))

\* Whenever tty_task() looks for a key, everything typed before has had its
\* effect, once, in the order of typing and on the console that was current
\* when the key was typed: no echo is left in a buffer by a change of
\* consoles, and no scrolling overtakes a character.
EchoedInOrder ==
  stage = "tty_do_read" =>
    [console |-> nr_current_console, output |-> output] = Expected(Handled)

\* put_key() never drops a character: a TTY's buffer is empty whenever a key
\* is read for it, since tty_do_write() prints as fast as tty_do_read() reads.
NothingDropped ==
  stage \in {"tty_do_read", "keyboard_read"} => \A t \in TtyId : in_count[t] = 0

\* However the user switches consoles, every key typed is read in the end.
EveryKeyIsRead ==
  \A n \in 1 .. MaxKeys : Len(typed) >= n ~> Len(Handled) >= n
=============================================================================
