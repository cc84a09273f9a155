---------------------------- MODULE UserProcess ----------------------------
(***************************************************************************)
(* What the processes of happyOS do once the machine has started: the TTY  *)
(* task's initialisation, and user processes that print a number and wait  *)
(* (TestB() and TestA() of main.c, printf(), itoa() and milli_delay()).    *)
(*                                                                         *)
(* They run on the scheduler that Kernel is shown to implement: FairShare, *)
(* with the clock in it.  A tick that lands in a system call, or in        *)
(* keyboard_handler() while it runs over a process, is charged and does    *)
(* not schedule.  The processor executes at least SPEED of the steps       *)
(* below between two ticks: ten milliseconds are some hundred thousand     *)
(* instructions.                                                           *)
(***************************************************************************)
EXTENDS Startup

CONSTANTS
  NR_CONSOLES,
  WORD,          \* how many values an int has
  HZ,            \* ticks in a second
  SECOND,        \* milliseconds in a second: 1000
  Delay,         \* Delay[f]: the argument of milli_delay() in f
  RADIX, DIGITS, \* itoa(): 16, and how many such digits an int has
  SPEED,         \* how many steps there are at least between two ticks: those
                 \* of one pass of milli_delay()'s loop, or more
  MAX_OVERRUN,   \* bound: ticks in the kernel beyond a share
  FAULT_TICKS    \* bound: exceptions are raised while ticks is smaller

Tty     == 0
User    == Proc \ {Tty}
\* RADIX to the power of k: the value of the digit with k digits below it.
Power[k \in 0 .. DIGITS] == IF k = 0 THEN 1 ELSE RADIX * Power[k - 1]

TtyId   == 0 .. NR_CONSOLES - 1
Share   == [p \in Proc |-> task_table[p].priority]
NUMBERS == Power[DIGITS]
ms(p)   == Delay[task_table[p].initial_eip]

ASSUME UserProcessAssumption ==
  /\ task_table[Tty].initial_eip = "tty_task"
  /\ \A p \in User : task_table[p].initial_eip \in {"TestA", "TestB"}
  /\ NR_CONSOLES \in Nat \ {0}
  /\ SPEED * Share[Tty] > NR_CONSOLES + 1
  /\ HZ \in Nat \ {0} /\ SECOND \in Nat \ {0} /\ WORD \in Nat \ {0}
  /\ \A p \in User : ms(p) \in Nat \ {0} /\ 2 * (ms(p) * HZ + SECOND) < WORD
  /\ RADIX \in Nat \ {0, 1} /\ DIGITS \in Nat \ {0}
  /\ SPEED \in Nat /\ SPEED >= 3 /\ MAX_OVERRUN \in Nat /\ FAULT_TICKS \in Nat

VARIABLES
  owner, used,    \* FairShare's
  moved,          \* steps executed since the last tick, SPEED if more
  nested,         \* the last tick found keyboard_handler() at work, and no
                  \* step has been executed since
  overrun,        \* ticks since the share was used up
  at,             \* at[p]: where process p is
  p_console,      \* p_console[t]: tty_table[t].p_console
  i, t, eax,      \* the local variables of p, and what get_ticks() returned
  buf,            \* printf(): the digits to write
  written,        \* ghost: the digits that p has written last
  prints,         \* ghost: how many numbers p has printed, as an int
  since,          \* ghost: ticks since milli_delay() read the clock first
  raised, shown   \* ghost: an exception, and exception_handler()'s arguments

sched == <<owner, used>>
data  == <<p_console, i, t, eax, buf, written, prints>>
fault == <<raised, shown>>
vars  == <<pc, boot, ticks, sched, moved, nested, overrun, at, data, since, fault>>

FS == INSTANCE FairShare WITH None <- NoProc

Begin(p) == CASE task_table[p].initial_eip = "tty_task" -> "init_keyboard"
              [] task_table[p].initial_eip = "TestB"    -> "printf"
              [] OTHER                                  -> "milli_delay"

Init ==
  /\ StartupInit
  /\ owner = NoProc /\ used = [p \in Proc |-> 0]
  /\ moved = 0 /\ nested = FALSE /\ overrun = 0
  /\ at = [p \in Proc |-> Begin(p)]
  /\ p_console = [c \in TtyId |-> Junk]
  /\ i = [p \in User |-> 0] /\ t = [p \in User |-> 0] /\ eax = [p \in User |-> 0]
  /\ buf = [p \in User |-> <<>>] /\ written = [p \in User |-> <<>>]
  /\ prints = [p \in User |-> 0] /\ since = [p \in User |-> 0]
  /\ raised = -1 /\ shown = <<>>

Boot ==
  /\ StartupNext
  /\ UNCHANGED <<sched, moved, nested, overrun, at, data, since, fault>>

Restart ==
  /\ pc = "restart"
  /\ pc' = "run"
  /\ owner' = p_proc_ready
  /\ UNCHANGED <<boot, ticks, used, moved, nested, overrun, at, data, since, fault>>

-----------------------------------------------------------------------------
(* The clock and the scheduler.                                            *)

InSystem == {"sys_write", "sys_get_ticks", "sys_get_ticks_again"}
Waiting  == {"get_ticks", "sys_get_ticks_again", "test"}

\* The last tick found the owner in user mode, with nothing left, and
\* interrupted nothing else (k_reenter = 0).
MustSchedule ==
  /\ owner /= NoProc /\ moved = 0 /\ FS!Left(owner) = 0
  /\ at[owner] \notin InSystem /\ ~nested

\* hwint_master has interrupts on while keyboard_handler() runs, so that the
\* clock may interrupt it once init_keyboard() has enabled its line.
Tick ==
  /\ pc = "run" /\ moved = SPEED
  /\ nested' \in IF at[Tty] = "init_keyboard" THEN {FALSE} ELSE BOOLEAN
  /\ \/ FS!Charge /\ UNCHANGED overrun
     \/ /\ owner /= NoProc /\ FS!Left(owner) = 0
        /\ (nested' \/ at[owner] \in InSystem) => overrun < MAX_OVERRUN
        /\ overrun' = overrun + 1
        /\ UNCHANGED sched
  /\ ticks' = (ticks + 1) % WORD
  /\ moved' = 0
  /\ since' = [p \in User |-> IF at[p] \in Waiting THEN since[p] + 1 ELSE since[p]]
  /\ UNCHANGED <<pc, boot, at, data, fault>>

Schedule ==
  /\ pc = "run"
  /\ \/ MustSchedule /\ FS!Deschedule
     \/ FS!NewRound
     \/ \E p \in Proc : FS!Dispatch(p)
  /\ overrun' = 0
  /\ UNCHANGED <<pc, boot, ticks, moved, nested, at, data, since, fault>>

\* Process p executes what is at one of its labels.
Execute(p, from, to) ==
  /\ pc = "run" /\ owner = p /\ ~MustSchedule
  /\ at[p] = from
  /\ at' = [at EXCEPT ![p] = to]
  /\ moved' = IF moved < SPEED THEN moved + 1 ELSE moved
  /\ nested' = FALSE
  /\ UNCHANGED <<pc, ticks, sched, overrun, fault>>

-----------------------------------------------------------------------------
(* tty_task(): init_keyboard(), init_tty() of each TTY, select_console(),  *)
(* and the loop that Tty models.                                           *)

InitKeyboard ==
  /\ Execute(Tty, "init_keyboard", "init_tty")
  /\ n' = 0
  /\ UNCHANGED <<tables, lines, globals, data, since>>

\* (Wrong: the first TTY keeps the console it had.)
InitTtyOthers ==
  /\ Execute(Tty, "init_tty", IF n + 1 \in TtyId THEN "init_tty" ELSE "select_console")
  /\ p_console' = [p_console EXCEPT ![n] = IF n > 0 THEN n ELSE @]
  /\ n' = n + 1
  /\ UNCHANGED <<tables, lines, globals, i, t, eax, buf, written, prints, since>>

InitTty ==
  /\ Execute(Tty, "init_tty", IF n + 1 \in TtyId THEN "init_tty" ELSE "select_console")
  /\ p_console' = [p_console EXCEPT ![n] = n]
  /\ n' = n + 1
  /\ UNCHANGED <<tables, lines, globals, i, t, eax, buf, written, prints, since>>

TtyTask ==
  \/ InitKeyboard
  \/ InitTty
  \/ /\ Execute(Tty, "select_console", "loop") \/ Execute(Tty, "loop", "loop")
     /\ UNCHANGED <<boot, data, since>>

-----------------------------------------------------------------------------
(* printf("%x", i++).                                                      *)

Digit(num, k) == (num \div Power[k]) % RADIX

\* (Wrong: a digit is left out when it is zero, wherever it is.)
ItoaNonzero(num) ==
  IF num = 0 THEN <<0>>
  ELSE SelectSeq([k \in 1 .. DIGITS |-> Digit(num, DIGITS - k)], LAMBDA ch : ch > 0)

\* From the highest digit down, from the first that is not zero on.
itoa(num) ==
  LET str[k \in 0 .. DIGITS] ==
        IF k = 0 THEN <<>>
        ELSE LET ch == Digit(num, DIGITS - k)
             IN  IF str[k - 1] /= <<>> \/ ch > 0 THEN Append(str[k - 1], ch) ELSE <<>>
  IN  IF num = 0 THEN <<0>> ELSE str[DIGITS]

\* vsprintf() puts the digits of the argument in the place of "%x".
Printf(p) ==
  /\ Execute(p, "printf", "write")
  /\ buf' = [buf EXCEPT ![p] = itoa(i[p])]
  /\ i' = [i EXCEPT ![p] = (@ + 1) % NUMBERS]
  /\ UNCHANGED <<boot, p_console, t, eax, written, prints, since>>

\* int INT_VECTOR_SYS_CALL: from here on the process is in the kernel.
MayCall(p) == idt[INT_VECTOR_SYS_CALL].dpl >= proc_table[p].cs.rpl

Write(p) ==
  /\ Execute(p, "write", "sys_write")
  /\ MayCall(p)
  /\ UNCHANGED <<boot, data, since>>

\* out_char() of every digit, on the caller's TTY.
SysWrite(p) ==
  /\ Execute(p, "sys_write", "milli_delay")
  /\ written' = [written EXCEPT ![p] = buf[p]]
  /\ prints' = [prints EXCEPT ![p] = (@ + 1) % NUMBERS]
  /\ UNCHANGED <<boot, p_console, i, t, eax, buf, since>>

-----------------------------------------------------------------------------
(* milli_delay().                                                          *)

CallGetTicks(p) ==
  /\ \/ Execute(p, "milli_delay", "sys_get_ticks")
     \/ Execute(p, "get_ticks", "sys_get_ticks_again")
  /\ MayCall(p)
  /\ UNCHANGED <<boot, data, since>>

SysGetTicks(p) ==
  /\ Execute(p, "sys_get_ticks", "get_ticks")
  /\ t' = [t EXCEPT ![p] = ticks]
  /\ since' = [since EXCEPT ![p] = 0]
  /\ UNCHANGED <<boot, p_console, i, eax, buf, written, prints>>

SysGetTicksAgain(p) ==
  /\ Execute(p, "sys_get_ticks_again", "test")
  /\ eax' = [eax EXCEPT ![p] = ticks]
  /\ UNCHANGED <<boot, p_console, i, t, buf, written, prints, since>>

\* What an int makes of a number.
Int32(x) == IF 2 * (x % WORD) < WORD THEN x % WORD ELSE (x % WORD) - WORD

\* (Wrong: the tick under way is counted as a whole one.)
ElapsedInclusive(now, start) == Int32(Int32(now - start + 1) * SECOND) \div HZ

\* (Wrong: the difference does not wrap with the counter.)
ElapsedUnwrapped(now, start) == ((now - start) * SECOND) \div HZ

Elapsed(now, start) == Int32(Int32(now - start) * SECOND) \div HZ

DelayIsOver(p) == Elapsed(eax[p], t[p]) >= ms(p)

Test(p) ==
  /\ IF DelayIsOver(p)
     THEN /\ Execute(p, "test", Begin(p))
          /\ since' = [since EXCEPT ![p] = 0]
     ELSE Execute(p, "test", "get_ticks") /\ UNCHANGED since
  /\ UNCHANGED <<boot, data>>

UserStep(p) ==
  \/ Printf(p) \/ Write(p) \/ SysWrite(p)
  \/ CallGetTicks(p) \/ SysGetTicks(p) \/ SysGetTicksAgain(p) \/ Test(p)

\* An instruction of p raises exception v, which is shown; then hlt.
Exception(p, v) ==
  /\ pc = "run" /\ owner = p /\ ~MustSchedule
  /\ at[p] \notin InSystem
  /\ ticks < FAULT_TICKS
  /\ pc' = "halted"
  /\ raised' = v
  /\ shown' = Arguments(Taken(v, proc_table[p].cs.rpl))
  /\ UNCHANGED <<boot, ticks, sched, moved, nested, overrun, at, data, since>>

Halted == pc = "halted" /\ UNCHANGED vars

Next ==
  \/ Boot \/ Restart \/ Tick \/ Schedule \/ TtyTask
  \/ \E p \in User : UserStep(p)
  \/ \E p \in Proc, v \in ExceptionVector : Exception(p, v)
  \/ Halted

Spec == Init /\ [][Next]_vars

-----------------------------------------------------------------------------
\* sys_write() never follows a p_console that init_tty() has not set: nothing
\* but the priorities in task_table lets the TTY task finish with the consoles
\* before another process runs at all (happy_main, schedule, tty_task).
ConsoleBeforeWrite ==
  \A p \in User : at[p] = "sys_write" => p_console[proc_table[p].nr_tty] \in TtyId

\* milli_delay() does not return before its time by the clock, also when the
\* counter ticks wraps and whoever else runs between two looks at it.
NeverEarly ==
  \A p \in User : (at[p] = "test" /\ DelayIsOver(p)) => since[p] * SECOND >= ms(p) * HZ

\* Nor much later.  Between two looks at the clock every other process has at
\* most one turn, which is its share, the ticks beyond it that land in a system
\* call or in the keyboard's handler, and the tick that schedules.  (Two processes with one share may alternate, and a
\* share of one tick may end within one pass of the loop.)
Alone(p)   == Share[p] > 1 /\ \A q \in Proc \ {p} : Share[q] /= Share[p]
Turn(q)    == Share[q] + MAX_OVERRUN + 1
TurnsOf(Q) ==
  LET sum[q \in 0 .. NR_TASKS] ==
        IF q = 0 THEN 0 ELSE sum[q - 1] + IF q - 1 \in Q THEN Turn(q - 1) ELSE 0
  IN  sum[NR_TASKS]
MaxLate(p) == TurnsOf(Proc \ {p}) + 2

\* (A delay and the turns of the others fit into what an int counts.)
TurnsAreShort == \A p \in User : Alone(p) => 2 * (ms(p) * HZ + MaxLate(p) * SECOND) < WORD

NeverLate ==
  \A p \in User : Alone(p) /\ at[p] \in Waiting => (since[p] - MaxLate(p)) * SECOND < ms(p) * HZ

\* TestB() prints the numbers one after the other, none twice, none left out,
\* and the digits of each stand for it: i++, the buffer of printf() on the
\* process's stack and the system call are apart in time.
ValueOf(str) ==
  LET num[k \in 0 .. Len(str)] == IF k = 0 THEN 0 ELSE num[k - 1] * RADIX + str[k]
  IN  num[Len(str)]

PrintedInOrder ==
  \A p \in User : written[p] /= <<>> =>
    /\ (ValueOf(written[p]) + 1) % NUMBERS = prints[p]
    /\ Len(written[p]) > 1 => written[p][1] /= 0

\* exception_handler() is told the exception that was raised, its code if it
\* has one, and the eip, cs and eflags that the processor pushed: the gate, its
\* privilege and what the entry pushes agree with what the processor pushed.
ExceptionReported ==
  pc = "halted" =>
    shown = <<raised, IF raised \in CpuPushesCode THEN "code" ELSE "none", "eip", "cs", "eflags">>
=============================================================================
