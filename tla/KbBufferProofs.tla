---------------------------- MODULE KbBufferProofs ----------------------------
(***************************************************************************)
(* Proofs about KbBuffer, for every size of the buffer and every set of    *)
(* scan codes: the ring stays consistent, and kb_in implements the bounded *)
(* queue of ByteQueue.                                                     *)
(*                                                                         *)
(* The invariant ties the program counter to what may be relied on there:  *)
(* from disable_int() to enable_int() the handler is kept out, so that     *)
(* count, once loaded, is still what is in memory when it is stored; and   *)
(* from the wait on, count is positive, since the handler only adds to it. *)
(***************************************************************************)
EXTENDS KbBuffer, TLAPS, SequenceTheorems

Critical == {"read", "advance", "load", "store", "sti"}

InterruptsOff == int_on <=> pc \notin Critical

LineOpen == irq_on <=> pc \notin {"init", "enable"}

PointersSet == pc # "init" => p_head \in Slot /\ p_tail \in Slot

EmptyAtFirst ==
  /\ pc = "init" => count = 0
  /\ pc = "enable" => count = 0 /\ p_head = p_tail

ByteIsThere == pc \in {"cli", "read", "advance", "load", "store"} => count > 0

CountLoaded == pc = "store" => n = count

IInv ==
  /\ TypeOK
  /\ InterruptsOff
  /\ LineOpen
  /\ PointersSet
  /\ EmptyAtFirst
  /\ ByteIsThere
  /\ CountLoaded
  /\ RingConsistent

-----------------------------------------------------------------------------
LEMMA WrapInSlot ==
  \A i \in 0 .. 2 * KB_IN_BYTES - 1 : Wrap(i) \in Slot
BY KbBufferAssumption DEF Wrap, Slot

LEMMA InitInv == Init => IInv
<1> SUFFICES ASSUME Init PROVE IInv
  OBVIOUS
<1>1. TypeOK
  <2>1. int_on \in BOOLEAN /\ irq_on \in BOOLEAN /\ lost \in BOOLEAN
    BY DEF Init
  <2>2. count \in 0 .. KB_IN_BYTES /\ n \in 0 .. KB_IN_BYTES
    BY KbBufferAssumption DEF Init
  <2>3. irq_on => p_head \in Slot
    BY DEF Init
  <2> QED
    BY <2>1, <2>2, <2>3 DEF Init, TypeOK
<1>2. InterruptsOff /\ LineOpen /\ PointersSet /\ EmptyAtFirst /\ ByteIsThere /\ CountLoaded
  BY DEF Init, InterruptsOff, LineOpen, PointersSet, EmptyAtFirst, ByteIsThere,
     CountLoaded, Critical
<1>3. RingConsistent
  BY DEF Init, RingConsistent
<1> QED
  BY <1>1, <1>2, <1>3 DEF IInv

\* What the handler does to a buffer with room keeps the ring: the head moves
\* on by one place and count with it.
LEMMA StoreKeepsRing ==
  ASSUME IInv, NEW b \in Byte, KeyboardHandler(b), Room
  PROVE  /\ buf' \in [Slot -> Byte]
         /\ p_head' \in Slot
         /\ count' \in 1 .. KB_IN_BYTES
         /\ count' = count + 1
         /\ RingConsistent'
<1>1. /\ p_head \in Slot /\ p_tail \in Slot
      /\ count \in 0 .. KB_IN_BYTES - 1
      /\ pc \notin Critical
      /\ irq_on
  BY KbBufferAssumption DEF IInv, TypeOK, PointersSet, LineOpen, InterruptsOff,
     KeyboardHandler, Room
<1>2. /\ buf' = [buf EXCEPT ![p_head] = b]
      /\ p_head' = Wrap(p_head + 1)
      /\ count' = count + 1
      /\ p_tail' = p_tail /\ pc' = pc
  BY DEF KeyboardHandler, Store, Room
<1>3. p_head = Wrap(p_tail + count)
  BY <1>1 DEF IInv, RingConsistent, Advanced, Critical, Slot
<1>4. p_head' = Wrap(p_tail + (count + 1))
  BY <1>1, <1>2, <1>3, KbBufferAssumption DEF Wrap, Slot
<1>5. RingConsistent'
  BY <1>1, <1>2, <1>4 DEF RingConsistent, Advanced, Critical, Slot
<1>6. p_head' \in Slot
  BY <1>1, <1>2, KbBufferAssumption DEF Wrap, Slot
<1>7. buf' \in [Slot -> Byte]
  BY <1>1, <1>2 DEF IInv, TypeOK
<1> QED
  BY <1>1, <1>2, <1>5, <1>6, <1>7, KbBufferAssumption

\* The invariant is inductive.
LEMMA NextInv == IInv /\ [Next]_vars => IInv'
<1> SUFFICES ASSUME IInv, [Next]_vars PROVE IInv'
  OBVIOUS
<1> USE KbBufferAssumption
<1>1. CASE InitBuffer
  BY <1>1 DEF InitBuffer, At, IInv, TypeOK, InterruptsOff, LineOpen, PointersSet,
     EmptyAtFirst, ByteIsThere, CountLoaded, RingConsistent, Critical, Slot
<1>2. CASE EnableIrq
  <2>1. RingConsistent'
    BY <1>2 DEF EnableIrq, At, IInv, EmptyAtFirst, PointersSet, RingConsistent,
       Advanced, Wrap, Slot
  <2> QED
    BY <1>2, <2>1 DEF EnableIrq, At, IInv, TypeOK, InterruptsOff, LineOpen,
       PointersSet, EmptyAtFirst, ByteIsThere, CountLoaded, Critical
<1>3. ASSUME NEW b \in Byte, KeyboardHandler(b) PROVE IInv'
  <2>1. CASE Room
    <3>1. /\ UNCHANGED <<p_tail, int_on, irq_on, pc, n, scan_code, lost>>
          /\ int_on /\ irq_on
      BY <1>3, <2>1 DEF KeyboardHandler
    <3> QED
      BY <1>3, <2>1, <3>1, StoreKeepsRing DEF IInv, TypeOK, InterruptsOff, LineOpen,
         PointersSet, EmptyAtFirst, ByteIsThere, CountLoaded, Critical
  <2>2. CASE ~Room
    BY <1>3, <2>2 DEF KeyboardHandler, IInv, TypeOK, InterruptsOff, LineOpen,
       PointersSet, EmptyAtFirst, ByteIsThere, CountLoaded, RingConsistent, Advanced
  <2> QED
    BY <2>1, <2>2
<1>4. CASE Wait
  BY <1>4 DEF Wait, At, IInv, TypeOK, InterruptsOff, LineOpen, PointersSet,
     EmptyAtFirst, ByteIsThere, CountLoaded, RingConsistent, Advanced, Critical
<1>5. CASE DisableInt
  BY <1>5 DEF DisableInt, At, IInv, TypeOK, InterruptsOff, LineOpen, PointersSet,
     EmptyAtFirst, ByteIsThere, CountLoaded, RingConsistent, Advanced, Critical
<1>6. CASE Read
  <2>1. scan_code' \in Byte
    BY <1>6 DEF Read, At, IInv, TypeOK, PointersSet
  <2> QED
    BY <1>6, <2>1 DEF Read, At, IInv, TypeOK, InterruptsOff, LineOpen, PointersSet,
       EmptyAtFirst, ByteIsThere, CountLoaded, RingConsistent, Advanced, Critical
<1>7. CASE Advance
  <2>1. p_tail' \in Slot
    BY <1>7 DEF Advance, At, IInv, PointersSet, Wrap, Slot
  <2>2. RingConsistent'
    BY <1>7 DEF Advance, At, IInv, TypeOK, PointersSet, ByteIsThere, LineOpen,
       RingConsistent, Advanced, Wrap, Slot
  <2> QED
    BY <1>7, <2>1, <2>2 DEF Advance, At, IInv, TypeOK, InterruptsOff, LineOpen,
       PointersSet, EmptyAtFirst, ByteIsThere, CountLoaded, Critical
<1>8. CASE Load
  BY <1>8 DEF Load, At, IInv, TypeOK, InterruptsOff, LineOpen, PointersSet,
     EmptyAtFirst, ByteIsThere, CountLoaded, RingConsistent, Advanced, Critical
<1>9. CASE StoreCount
  <2>1. count' \in 0 .. KB_IN_BYTES
    BY <1>9 DEF StoreCount, At, IInv, TypeOK, ByteIsThere, CountLoaded
  <2>2. RingConsistent'
    BY <1>9 DEF StoreCount, At, IInv, TypeOK, PointersSet, CountLoaded, LineOpen,
       RingConsistent, Advanced, Wrap, Slot
  <2> QED
    BY <1>9, <2>1, <2>2 DEF StoreCount, At, IInv, TypeOK, InterruptsOff, LineOpen,
       PointersSet, EmptyAtFirst, ByteIsThere, CountLoaded, Critical
<1>10. CASE EnableInt
  BY <1>10 DEF EnableInt, At, IInv, TypeOK, InterruptsOff, LineOpen, PointersSet,
     EmptyAtFirst, ByteIsThere, CountLoaded, RingConsistent, Advanced, Critical
<1>11. CASE UNCHANGED vars
  BY <1>11 DEF vars, IInv, TypeOK, InterruptsOff, LineOpen, PointersSet,
     EmptyAtFirst, ByteIsThere, CountLoaded, RingConsistent, Advanced, Critical
<1> QED
  BY <1>1, <1>2, <1>3, <1>4, <1>5, <1>6, <1>7, <1>8, <1>9, <1>10, <1>11
     DEF Next, TtyTask, GetByte

THEOREM Invariance == Spec => []IInv
BY InitInv, NextInv, PTL DEF Spec

\* Every variable of the keyboard buffer keeps its type: no pointer passes the
\* end of kb_in.buf and keyboard_handler() never stores through a null one.
THEOREM TypeCorrect == Spec => []TypeOK
<1>1. IInv => TypeOK
  BY DEF IInv
<1> QED
  BY <1>1, Invariance, PTL

\* The head of the ring is always count places ahead of its tail when the
\* keyboard's interrupt may look at it.
THEOREM RingTheorem == Spec => []RingConsistent
<1>1. IInv => RingConsistent
  BY DEF IInv
<1> QED
  BY <1>1, Invariance, PTL

-----------------------------------------------------------------------------
(* kb_in implements ByteQueue.                                             *)

\* The i-th scan code that waits.
WaitingAt(i) == buf[Wrap(p_tail + Taken - Advanced + i - 1)]

WaitingLen == count - Taken

\* Waiting is a sequence of scan codes of the length the pointers say.
WaitingOK ==
  /\ WaitingLen \in 0 .. KB_IN_BYTES
  /\ Waiting \in Seq(Byte)
  /\ Len(Waiting) = WaitingLen
  /\ \A i \in 1 .. WaitingLen : Waiting[i] = WaitingAt(i)

LEMMA WaitingSeq == IInv => WaitingOK
<1> SUFFICES ASSUME IInv PROVE WaitingOK
  OBVIOUS
<1>1. WaitingLen \in 0 .. KB_IN_BYTES
  BY KbBufferAssumption DEF IInv, TypeOK, ByteIsThere, WaitingLen, Taken
<1>2. ASSUME NEW i \in 1 .. WaitingLen PROVE WaitingAt(i) \in Byte
  <2>1. p_tail \in Slot
    BY <1>2 DEF IInv, PointersSet, EmptyAtFirst, WaitingLen, Taken
  <2>2. p_tail + Taken - Advanced + i - 1 \in 0 .. 2 * KB_IN_BYTES - 1
    BY <1>1, <1>2, <2>1, KbBufferAssumption DEF IInv, TypeOK, WaitingLen, Taken, Advanced, Slot
  <2> QED
    BY <2>2, WrapInSlot DEF WaitingAt, IInv, TypeOK
<1>3. Waiting = [i \in 1 .. WaitingLen |-> WaitingAt(i)]
  BY DEF Waiting, WaitingLen, WaitingAt
<1> QED
  BY <1>1, <1>2, <1>3 DEF WaitingOK

LEMMA WaitingSeqNext == IInv' => WaitingOK'
BY WaitingSeq, PTL

\* The queue does not change if its length and its elements do not.
LEMMA SameWaiting ==
  ASSUME IInv, IInv',
         WaitingLen' = WaitingLen,
         \A i \in 1 .. WaitingLen : WaitingAt(i)' = WaitingAt(i)
  PROVE  Waiting' = Waiting
<1>1. WaitingOK /\ WaitingOK'
  BY WaitingSeq, WaitingSeqNext
<1>2. /\ Waiting \in Seq(Byte)
      /\ Waiting' \in Seq(Byte)
      /\ Len(Waiting) = Len(Waiting')
      /\ \A i \in 1 .. Len(Waiting) : Waiting[i] = Waiting'[i]
  BY <1>1 DEF WaitingOK
<1> QED
  BY <1>2, SeqEqual

LEMMA InitRefines == Init => BQ!Init
<1> SUFFICES ASSUME Init PROVE BQ!Init
  OBVIOUS
<1>1. Waiting = <<>>
  <2>1. WaitingLen = 0 /\ Waiting \in Seq(Byte) /\ Len(Waiting) = 0
    <3>1. WaitingOK
      BY InitInv, WaitingSeq
    <3>2. pc = "init" /\ count = 0
      BY DEF Init
    <3>3. Taken = 0
      BY <3>2 DEF Taken
    <3>4. WaitingLen = 0
      BY <3>2, <3>3 DEF WaitingLen
    <3> QED
      BY <3>1, <3>4 DEF WaitingOK
  <2> QED
    BY <2>1, EmptySeq
<1> QED
  BY <1>1 DEF Init, BQ!Init

\* The handler puts at the end of the queue, or loses into a full one.
LEMMA HandlerRefines ==
  ASSUME IInv, IInv', NEW b \in Byte, KeyboardHandler(b)
  PROVE  BQ!Next
<1>1. WaitingOK /\ WaitingOK'
  BY WaitingSeq, WaitingSeqNext
<1>2. /\ pc' = pc /\ p_tail' = p_tail /\ scan_code' = scan_code
      /\ pc \notin Critical
      /\ irq_on
      /\ p_head \in Slot /\ p_tail \in Slot
      /\ count \in 0 .. KB_IN_BYTES
  BY DEF KeyboardHandler, IInv, InterruptsOff, TypeOK, PointersSet, LineOpen
<1>3. /\ Taken = 0 /\ Advanced = 0 /\ Taken' = 0 /\ Advanced' = 0
      /\ WaitingLen = count
  BY <1>2 DEF Taken, Advanced, Critical, WaitingLen
<1>4. CASE Room
  <2>1. /\ buf' = [buf EXCEPT ![p_head] = b]
        /\ count' = count + 1
        /\ count < KB_IN_BYTES
        /\ lost' = lost
    BY <1>4 DEF KeyboardHandler, Store, Room
  <2>2. p_head = Wrap(p_tail + count)
    BY <1>2, <1>3 DEF IInv, RingConsistent
  <2>3. WaitingLen' = WaitingLen + 1
    BY <1>3, <2>1 DEF WaitingLen
  <2>4. ASSUME NEW i \in 1 .. count PROVE WaitingAt(i)' = WaitingAt(i)
    <3>1. /\ Wrap(p_tail + i - 1) \in Slot
          /\ Wrap(p_tail + i - 1) # p_head
      BY <1>2, <2>1, <2>2, <2>4, KbBufferAssumption DEF Wrap, Slot
    <3>2. /\ p_tail + Taken - Advanced + i - 1 = p_tail + i - 1
          /\ p_tail' + Taken' - Advanced' + i - 1 = p_tail + i - 1
      BY <1>2, <1>3 DEF Slot
    <3>3. WaitingAt(i) = buf[Wrap(p_tail + i - 1)]
      BY <3>2 DEF WaitingAt
    <3>4. WaitingAt(i)' = buf'[Wrap(p_tail + i - 1)]
      BY <3>2 DEF WaitingAt, Wrap
    <3> QED
      BY <2>1, <3>1, <3>3, <3>4 DEF IInv, TypeOK
  <2>5. ASSUME NEW i, i = count + 1 PROVE WaitingAt(i)' = b
    <3>1. p_tail' + Taken' - Advanced' + i - 1 = p_tail + count
      BY <1>2, <1>3, <2>5 DEF Slot
    <3>2. WaitingAt(i)' = buf'[p_head]
      BY <2>2, <3>1 DEF WaitingAt, Wrap
    <3> QED
      BY <1>2, <2>1, <3>2 DEF IInv, TypeOK
  <2>6. Waiting' = Append(Waiting, b)
    <3>1. /\ Append(Waiting, b) \in Seq(Byte)
          /\ Len(Append(Waiting, b)) = count + 1
          /\ \A i \in 1 .. count : Append(Waiting, b)[i] = Waiting[i]
          /\ Append(Waiting, b)[count + 1] = b
      BY <1>1, <1>3 DEF WaitingOK
    <3>2. /\ Waiting' \in Seq(Byte)
          /\ Len(Waiting') = count + 1
          /\ \A i \in 1 .. count + 1 : Waiting'[i] = WaitingAt(i)'
      BY <1>1, <1>3, <2>3 DEF WaitingOK
    <3>3. \A i \in 1 .. count : Waiting'[i] = Waiting[i]
      BY <1>1, <1>2, <1>3, <2>4, <3>2 DEF WaitingOK
    <3>4. \A i \in 1 .. count + 1 : i = count + 1 => Waiting'[i] = b
      BY <2>5, <3>2
    <3>5. \A i \in 1 .. Len(Waiting') : Waiting'[i] = Append(Waiting, b)[i]
      BY <1>2, <3>1, <3>2, <3>3, <3>4
    <3> QED
      BY <3>1, <3>2, <3>5, SeqEqual
  <2> QED
    BY <1>1, <1>2, <1>3, <2>1, <2>6 DEF BQ!Next, BQ!Put, WaitingOK
<1>5. CASE ~Room
  <2>1. /\ lost' = TRUE /\ buf' = buf /\ count' = count
        /\ count = KB_IN_BYTES
    BY <1>2, <1>5, KbBufferAssumption DEF KeyboardHandler, Room, Store
  <2>2. Waiting' = Waiting
    BY <1>2, <2>1 DEF Waiting, Taken, Advanced, Wrap
  <2> QED
    BY <1>1, <1>2, <1>3, <2>1, <2>2 DEF BQ!Next, BQ!Lose, WaitingOK
<1> QED
  BY <1>4, <1>5

\* The load of the byte takes the head of the queue.
LEMMA ReadRefines ==
  ASSUME IInv, IInv', Read
  PROVE  BQ!Next
<1>1. WaitingOK /\ WaitingOK'
  BY WaitingSeq, WaitingSeqNext
<1>2. /\ pc = "read" /\ pc' = "advance"
      /\ scan_code' = buf[p_tail]
      /\ buf' = buf /\ p_tail' = p_tail /\ count' = count /\ lost' = lost
      /\ p_tail \in Slot
      /\ count \in 1 .. KB_IN_BYTES
  BY DEF Read, At, IInv, PointersSet, ByteIsThere, TypeOK
<1>3. /\ Taken = 0 /\ Advanced = 0 /\ Taken' = 1 /\ Advanced' = 0
      /\ WaitingLen = count /\ WaitingLen' = count - 1
  BY <1>2 DEF Taken, Advanced, WaitingLen
<1>4. Waiting # <<>>
  BY <1>1, <1>2, <1>3 DEF WaitingOK
<1>5. Head(Waiting) = buf[p_tail]
  <2>1. Head(Waiting) = WaitingAt(1)
    BY <1>1, <1>2, <1>3, <1>4 DEF WaitingOK
  <2>2. Wrap(p_tail + Taken - Advanced + 1 - 1) = p_tail
    BY <1>2, <1>3, KbBufferAssumption DEF Wrap, Slot
  <2> QED
    BY <2>1, <2>2 DEF WaitingAt
<1>6. Waiting' = Tail(Waiting)
  <2>1. /\ Tail(Waiting) \in Seq(Byte)
        /\ Len(Tail(Waiting)) = count - 1
        /\ \A i \in 1 .. count - 1 : Tail(Waiting)[i] = Waiting[i + 1]
    BY <1>1, <1>3, <1>4, HeadTailProperties DEF WaitingOK
  <2>2. ASSUME NEW i \in 1 .. count - 1 PROVE WaitingAt(i)' = WaitingAt(i + 1)
    <3>1. p_tail' + Taken' - Advanced' + i - 1 = p_tail + Taken - Advanced + (i + 1) - 1
      BY <1>2, <1>3 DEF Slot
    <3> QED
      BY <1>2, <3>1 DEF WaitingAt, Wrap
  <2>3. \A i \in 1 .. count - 1 : Waiting'[i] = Tail(Waiting)[i]
    BY <1>1, <1>2, <1>3, <2>1, <2>2 DEF WaitingOK
  <2> QED
    BY <1>1, <1>3, <2>1, <2>3, SeqEqual DEF WaitingOK
<1> QED
  BY <1>2, <1>4, <1>5, <1>6 DEF BQ!Next, BQ!Get

\* Every other step of the TTY task leaves the queue as it is.
LEMMA OthersStutter ==
  ASSUME IInv, IInv', TtyTask, ~Read
  PROVE  UNCHANGED BQ!vars
<1>1. scan_code' = scan_code /\ lost' = lost /\ buf' = buf
  BY DEF TtyTask, GetByte, InitBuffer, EnableIrq, Wait, DisableInt, Advance, Load,
     StoreCount, EnableInt, Read
<1>2. WaitingLen' = WaitingLen
  <2>1. CASE InitBuffer
    BY <2>1 DEF InitBuffer, At, WaitingLen, Taken, IInv, EmptyAtFirst
  <2>2. CASE StoreCount
    BY <2>2 DEF StoreCount, At, WaitingLen, Taken, IInv, TypeOK, CountLoaded
  <2>3. CASE ~InitBuffer /\ ~StoreCount
    BY <2>3 DEF TtyTask, GetByte, EnableIrq, Wait, DisableInt, Advance, Load,
       EnableInt, At, WaitingLen, Taken
  <2> QED
    BY <2>1, <2>2, <2>3
<1>3. ASSUME NEW i \in 1 .. WaitingLen PROVE WaitingAt(i)' = WaitingAt(i)
  <2> DEFINE Index == Wrap(p_tail + Taken - Advanced + i - 1)
  <2>1. CASE Advance
    <3>1. /\ pc = "advance" /\ pc' = "load" /\ p_tail' = Wrap(p_tail + 1)
          /\ p_tail \in Slot
          /\ count \in 1 .. KB_IN_BYTES
      BY <2>1 DEF Advance, At, IInv, PointersSet, ByteIsThere, TypeOK
    <3>2. i \in 1 .. KB_IN_BYTES - 1
      BY <1>3, <3>1, KbBufferAssumption DEF WaitingLen, Taken
    <3>3. /\ Taken = 1 /\ Advanced = 0 /\ Taken' = 1 /\ Advanced' = 1
      BY <3>1 DEF Taken, Advanced
    <3>4. Index' = Index
      BY <3>1, <3>2, <3>3, KbBufferAssumption DEF Wrap, Slot
    <3> QED
      BY <1>1, <3>4 DEF WaitingAt
  <2>2. CASE ~Advance
    <3>1. /\ p_tail' = p_tail \/ pc = "init"
          /\ Taken' - Advanced' = Taken - Advanced
      BY <2>2 DEF TtyTask, GetByte, InitBuffer, EnableIrq, Wait, DisableInt, Load,
         StoreCount, EnableInt, Read, At, Taken, Advanced
    <3>2. pc # "init"
      BY <1>3 DEF IInv, EmptyAtFirst, WaitingLen, Taken
    <3>3. /\ p_tail \in Slot /\ Taken \in Int /\ Advanced \in Int
          /\ Taken' \in Int /\ Advanced' \in Int
      BY <3>2 DEF IInv, PointersSet, Taken, Advanced
    <3>4. p_tail' + Taken' - Advanced' + i - 1 = p_tail + Taken - Advanced + i - 1
      BY <3>1, <3>2, <3>3 DEF Slot
    <3> QED
      BY <1>1, <3>4 DEF WaitingAt, Wrap
  <2> QED
    BY <2>1, <2>2
<1> QED
  BY <1>1, <1>2, <1>3, SameWaiting DEF BQ!vars

\* kb_in is a bounded first-in first-out queue that loses nothing while it has
\* room, for every size of kb_in.buf and every interleaving of the handler
\* with get_byte_from_kb_buf().
THEOREM QueueTheorem == Spec => ImplementsByteQueue
<1>1. IInv /\ IInv' /\ [Next]_vars => [BQ!Next]_(BQ!vars)
  <2> SUFFICES ASSUME IInv, IInv', [Next]_vars PROVE [BQ!Next]_(BQ!vars)
    OBVIOUS
  <2>1. CASE TtyTask
    BY <2>1, ReadRefines, OthersStutter
  <2>2. CASE \E b \in Byte : KeyboardHandler(b)
    BY <2>2, HandlerRefines
  <2>3. CASE UNCHANGED vars
    BY <2>3 DEF vars, BQ!vars, Waiting, Taken, Advanced, Wrap
  <2> QED
    BY <2>1, <2>2, <2>3 DEF Next
<1> QED
  BY <1>1, InitRefines, Invariance, PTL DEF Spec, ImplementsByteQueue, BQ!Spec
===============================================================================
