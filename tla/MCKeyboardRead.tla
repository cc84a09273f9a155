--------------------------- MODULE MCKeyboardRead ---------------------------
(* Instances of KeyboardRead for TLC.                                      *)
EXTENDS KeyboardRead

\* Sequences of one byte, two, and more; modifiers that share a scan code, and
\* keys that depend on them.
SomeKeys == {"A", "L_SHFT", "L_ALT", "R_ALT", "U_ARROW", "KP_8", "PRTSCRN", "PAUSE"}
=============================================================================
