------------------------------ MODULE FairShare ------------------------------
(***************************************************************************)
(* What the scheduler of happyOS promises, without the machinery that      *)
(* keeps the promise: the processor has one owner at a time, an owner is   *)
(* charged tick by tick, it keeps the processor until its share of the     *)
(* round is used up, the next owner is one with the most of its share      *)
(* left, and a new round starts only when every process has used its       *)
(* share.                                                                  *)
(*                                                                         *)
(* Kernel.tla implements this specification with proc_table[].ticks,       *)
(* clock_handler() and schedule().                                         *)
(***************************************************************************)
EXTENDS Integers

CONSTANTS
  Proc,         \* the processes
  Share,        \* Share[p]: ticks of p in one round
  None          \* no process: the scheduler is choosing

VARIABLES
  owner,        \* the process the processor belongs to, or None
  used          \* used[p]: ticks of its share p has used in this round

vars == <<owner, used>>

Left(p) == Share[p] - used[p]

Init ==
  /\ owner \in Proc
  /\ used = [p \in Proc |-> 0]

Charge ==
  /\ owner \in Proc
  /\ Left(owner) > 0
  /\ used' = [used EXCEPT ![owner] = @ + 1]
  /\ UNCHANGED owner

Deschedule ==
  /\ owner \in Proc
  /\ Left(owner) = 0
  /\ owner' = None
  /\ UNCHANGED used

NewRound ==
  /\ owner = None
  /\ \A p \in Proc : Left(p) = 0
  /\ used' = [p \in Proc |-> 0]
  /\ UNCHANGED owner

Dispatch(p) ==
  /\ owner = None
  /\ Left(p) > 0
  /\ \A q \in Proc : Left(q) <= Left(p)
  /\ owner' = p
  /\ UNCHANGED used

Next == Charge \/ Deschedule \/ NewRound \/ \E p \in Proc : Dispatch(p)

Spec == Init /\ [][Next]_vars
=============================================================================
