------------------------------- MODULE KbBuffer -------------------------------
(***************************************************************************)
(* The keyboard buffer kb_in of keyboard.c, instruction by instruction     *)
(* where two parties meet in it: keyboard_handler() fills it from the      *)
(* interrupt, get_byte_from_kb_buf() empties it from the TTY task, and     *)
(* only the pair disable_int()/enable_int() keeps them apart.              *)
(*                                                                         *)
(* keyboard_handler() is one step.  It is interrupted only by other lines, *)
(* and no interrupt that lands in the kernel returns to a process before   *)
(* the handler has (theorem ContextTheorem of KernelProofs), so the TTY    *)
(* task sees all of it or nothing.                                         *)
(*                                                                         *)
(* p_head and p_tail are the indexes in buf[] they point to.               *)
(***************************************************************************)
EXTENDS Integers, Sequences

CONSTANTS
  Byte,         \* the scan codes
  KB_IN_BYTES,  \* the size of the buffer
  Unset         \* what an uninitialised pointer holds

ASSUME KbBufferAssumption ==
  /\ KB_IN_BYTES \in Nat \ {0}
  /\ Unset \notin 0 .. KB_IN_BYTES
  /\ Byte # {}

VARIABLES
  buf, p_head, p_tail, count,   \* kb_in
  int_on,       \* the interrupt flag while the TTY task runs
  irq_on,       \* is the keyboard's line unmasked?
  pc,           \* where the TTY task is in this code
  n,            \* the register that holds count while it is decremented
  scan_code,    \* the local variable of get_byte_from_kb_buf()
  lost          \* ghost: has the handler thrown a scan code away?

vars == <<buf, p_head, p_tail, count, int_on, irq_on, pc, n, scan_code, lost>>

Slot == 0 .. KB_IN_BYTES - 1

Wrap(i) == IF i >= KB_IN_BYTES THEN i - KB_IN_BYTES ELSE i

Init ==
  /\ buf \in [Slot -> Byte]
  /\ p_head = Unset
  /\ p_tail = Unset
  /\ count = 0
  /\ int_on = TRUE
  /\ irq_on = FALSE
  /\ pc = "init"
  /\ n = 0
  /\ scan_code \in Byte
  /\ lost = FALSE

At(from, to) == pc = from /\ pc' = to

-----------------------------------------------------------------------------
(* init_keyboard().                                                        *)

InitBuffer ==
  /\ At("init", "enable")
  /\ count' = 0
  /\ p_head' = 0
  /\ p_tail' = 0
  /\ UNCHANGED <<buf, int_on, irq_on, n, scan_code, lost>>

EnableIrq ==
  /\ At("enable", "poll")
  /\ irq_on' = TRUE
  /\ UNCHANGED <<buf, p_head, p_tail, count, int_on, n, scan_code, lost>>

-----------------------------------------------------------------------------
(* keyboard_handler().                                                     *)

Room == count < KB_IN_BYTES

Store(b) ==
  /\ buf' = [buf EXCEPT ![p_head] = b]
  /\ p_head' = Wrap(p_head + 1)
  /\ count' = count + 1

KeyboardHandler(b) ==
  /\ int_on
  /\ irq_on
  /\ \/ /\ Room
        /\ Store(b)
        /\ UNCHANGED lost
     \/ /\ ~Room
        /\ lost' = TRUE
        /\ UNCHANGED <<buf, p_head, count>>
  /\ UNCHANGED <<p_tail, int_on, irq_on, pc, n, scan_code>>

-----------------------------------------------------------------------------
(* get_byte_from_kb_buf().                                                 *)

\* (Wrong: the wait is for a second byte.)
WaitForTwo ==
  /\ At("poll", "cli")
  /\ count > 1
  /\ UNCHANGED <<buf, p_head, p_tail, count, int_on, irq_on, n, scan_code, lost>>

Wait ==
  /\ At("poll", "cli")
  /\ count > 0
  /\ UNCHANGED <<buf, p_head, p_tail, count, int_on, irq_on, n, scan_code, lost>>

\* (Wrong: interrupts stay on.)
DisableIntNot ==
  /\ At("cli", "read")
  /\ UNCHANGED <<buf, p_head, p_tail, count, int_on, irq_on, n, scan_code, lost>>

DisableInt ==
  /\ At("cli", "read")
  /\ int_on' = FALSE
  /\ UNCHANGED <<buf, p_head, p_tail, count, irq_on, n, scan_code, lost>>

Read ==
  /\ At("read", "advance")
  /\ scan_code' = buf[p_tail]
  /\ UNCHANGED <<buf, p_head, p_tail, count, int_on, irq_on, n, lost>>

Advance ==
  /\ At("advance", "load")
  /\ p_tail' = Wrap(p_tail + 1)
  /\ UNCHANGED <<buf, p_head, count, int_on, irq_on, n, scan_code, lost>>

Load ==
  /\ At("load", "store")
  /\ n' = count
  /\ UNCHANGED <<buf, p_head, p_tail, count, int_on, irq_on, scan_code, lost>>

StoreCount ==
  /\ At("store", "sti")
  /\ count' = n - 1
  /\ UNCHANGED <<buf, p_head, p_tail, int_on, irq_on, n, scan_code, lost>>

EnableInt ==
  /\ At("sti", "poll")
  /\ int_on' = TRUE
  /\ UNCHANGED <<buf, p_head, p_tail, count, irq_on, n, scan_code, lost>>

GetByte ==
  \/ Wait
  \/ DisableInt
  \/ Read
  \/ Advance
  \/ Load
  \/ StoreCount
  \/ EnableInt

TtyTask == InitBuffer \/ EnableIrq \/ GetByte

Next == TtyTask \/ \E b \in Byte : KeyboardHandler(b)

Spec == Init /\ [][Next]_vars

\* The TTY task is scheduled again and again (EveryoneRuns of Kernel), and
\* keyboard_read() polls: it calls get_byte_from_kb_buf() whenever a byte is
\* there.  Nothing is assumed of the keyboard.
FairSpec == Spec /\ WF_vars(TtyTask)

-----------------------------------------------------------------------------
(* Properties.                                                             *)

\* Every variable keeps its type; in particular no pointer ever points past
\* the buffer, and the handler never stores through one that was not set.
TypeOK ==
  /\ buf \in [Slot -> Byte]
  /\ p_head \in Slot \union {Unset}
  /\ p_tail \in Slot \union {Unset}
  /\ count \in 0 .. KB_IN_BYTES
  /\ n \in 0 .. KB_IN_BYTES
  /\ int_on \in BOOLEAN
  /\ irq_on \in BOOLEAN
  /\ lost \in BOOLEAN
  /\ scan_code \in Byte
  /\ pc \in {"init", "enable", "poll", "cli", "read", "advance", "load", "store", "sti"}
  /\ irq_on => p_head \in Slot

Advanced == IF pc \in {"load", "store"} THEN 1 ELSE 0

\* The three ways to know how full the ring is agree whenever the handler
\* may look at it: the head is count places ahead of the tail, where the
\* byte that get_byte_from_kb_buf() is just taking out still counts.
RingConsistent ==
  irq_on => p_head = Wrap(p_tail + count - Advanced)

\* The bytes that wait, as keyboard_read() will see them: all of kb_in but
\* the byte that has already been read out of it.
Taken == IF pc \in {"advance", "load", "store"} THEN 1 ELSE 0

Waiting ==
  [i \in 1 .. count - Taken |-> buf[Wrap(p_tail + Taken - Advanced + i - 1)]]

BQ == INSTANCE ByteQueue WITH Capacity <- KB_IN_BYTES, queue <- Waiting, last <- scan_code

\* kb_in is a bounded first-in first-out queue, whatever the interleaving of
\* keyboard_handler() and get_byte_from_kb_buf(): no scan code is duplicated,
\* reordered, or lost while there is room for it.
ImplementsByteQueue == BQ!Spec

\* A scan code that has entered the buffer is taken out: the tail does not
\* stay where a byte waits.
EveryByteIsRead ==
  \A i \in Slot : (p_tail = i /\ count > 0) ~> (p_tail # i \/ count = 0)
=============================================================================
