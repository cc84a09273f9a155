------------------------------ MODULE MCConsole ------------------------------
(* Instances of Console for TLC: as in the code, the region is not a whole  *)
(* number of rows, the last window reaches past its end, and a sys_write()  *)
(* prints less than a row.                                                  *)
EXTENDS Console

AllChars   == {"x", "newline", "backspace"}
BootLines  == {0, 4}
SomeCells  == {0, 2, 3}
NoCells    == {}
=============================================================================
