-------------------------------- MODULE MCTty --------------------------------
(* Two consoles, buffers of two characters, and keys of every kind that     *)
(* in_process() tells apart, Alt+F3 being the first one beyond the consoles. *)
EXTENDS Tty

SomeKeys ==
  { KeyRecord("a", 0, FALSE, {}),
    KeyRecord("A", 0, FALSE, {"SHIFT_L"}),
    KeyRecord("BACKSPACE", 0, TRUE, {}),
    KeyRecord("F", 0, TRUE, {"ALT_L"}),
    KeyRecord("F", 1, TRUE, {"ALT_R"}),
    KeyRecord("F", 2, TRUE, {"ALT_L"}),
    KeyRecord("F", 1, TRUE, {}),
    KeyRecord("UP", 0, TRUE, {"SHIFT_R"}) }
=============================================================================
