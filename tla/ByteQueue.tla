------------------------------ MODULE ByteQueue ------------------------------
(***************************************************************************)
(* What the keyboard buffer of happyOS promises: the scan codes come out   *)
(* in the order in which the keyboard sent them, each one once, and one is *)
(* lost only when it arrives at a full buffer, in which case it is the     *)
(* newest that is lost and what waits is left alone.                       *)
(*                                                                         *)
(* KbBuffer.tla implements this specification with kb_in, its interrupt    *)
(* handler and get_byte_from_kb_buf().                                     *)
(***************************************************************************)
EXTENDS Naturals, Sequences

CONSTANTS
  Byte,         \* the scan codes
  Capacity      \* how many of them may wait

VARIABLES
  queue,        \* the scan codes that wait, oldest first
  last,         \* the scan code that was taken last
  lost          \* has a scan code ever been lost?

vars == <<queue, last, lost>>

Init ==
  /\ queue = <<>>
  /\ last \in Byte
  /\ lost = FALSE

Put(b) ==
  /\ Len(queue) < Capacity
  /\ queue' = Append(queue, b)
  /\ UNCHANGED <<last, lost>>

Lose ==
  /\ Len(queue) = Capacity
  /\ lost' = TRUE
  /\ UNCHANGED <<queue, last>>

Get ==
  /\ queue # <<>>
  /\ last' = Head(queue)
  /\ queue' = Tail(queue)
  /\ UNCHANGED lost

Next == (\E b \in Byte : Put(b)) \/ Lose \/ Get

Spec == Init /\ [][Next]_vars
=============================================================================
