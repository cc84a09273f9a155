------------------------------ MODULE MCKernel ------------------------------
(* An instance of Kernel for TLC: one share longer than the others, as in    *)
(* main.c, and two processes of equal priority, for ties in schedule().      *)
EXTENDS Kernel

ThreePriorities == [p \in 0 .. 2 |-> IF p = 1 THEN 2 ELSE 1]
=============================================================================
