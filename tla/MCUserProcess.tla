--------------------------- MODULE MCUserProcess ---------------------------
(* The task table of main.c: the TTY task and one user process. The shares   *)
(* and stacks are small, and an int wraps during a delay.                    *)
EXTENDS UserProcess

Task(f, size, priority, type) ==
  [initial_eip |-> f, stack_size |-> size, priority |-> priority, type |-> type]

Tasks == [p \in 0 .. 1 |-> IF p = 0 THEN Task("tty_task", 2, 3, "TASK")
                                    ELSE Task("TestB", 3, 2, "USER")]
Delays == [TestB |-> 4]

\* What the theorem NeverLateTheorem assumes.
ASSUME TurnsAreShort
=============================================================================
