-------------------------------- MODULE Kernel --------------------------------
(***************************************************************************)
(* The core of happyOS: how the processor gets into the kernel and out of  *)
(* it again (save, restart, restart_reenter, hwint_master and sys_call of  *)
(* kernel/kernel.asm), the interrupt masks of the 8259A, the clock handler *)
(* and schedule().                                                         *)
(*                                                                         *)
(* One processor executes everything.  It is in user mode (esp = 0) or it  *)
(* executes the topmost of the frames on the kernel stack.  Every IDT      *)
(* entry is an interrupt gate, so the code between an entry and its `sti', *)
(* and between the `cli' and the `iretd', is one step here; between the    *)
(* `sti' and the `cli' other interrupt lines may nest.                     *)
(*                                                                         *)
(* Abstractions.  A register file is represented by whose it is, and its   *)
(* eax by whose system call computed it.  A tick count of zero or less is  *)
(* only ever compared with zero: it is kept above -MAX_OVERRUN.  What the  *)
(* keyboard handler and sys_write do to their own data is in other modules;*)
(* here they take the time during which other things can happen.           *)
(***************************************************************************)
EXTENDS Integers

CONSTANTS
  NR_TASKS,     \* the number of processes (const.h)
  Priority,     \* Priority[p]: proc_table[p].priority, set from task_table
  WORD,         \* how many values the unsigned k_reenter has (2^32 in C)
  TICK_WORD,    \* how many values the counter ticks has
  MAX_OVERRUN,  \* bound: a process's ticks are kept at -MAX_OVERRUN or more
  MAX_WRITE     \* bound: the longest write()

Proc   == 0 .. NR_TASKS - 1     \* indices into proc_table
NoProc == -1
Tty    == 0                     \* proc_table[0] runs tty_task()

CLOCK_IRQ    == 0
KEYBOARD_IRQ == 1
IRQ          == {CLOCK_IRQ, KEYBOARD_IRQ}
NoIrq        == -1

\* One frame for every line that can be in service, and one system call.
MaxFrames == 3
Level     == 1 .. MaxFrames

ASSUME KernelAssumption ==
  /\ NR_TASKS \in Nat \ {0}
  /\ Priority \in [Proc -> Nat \ {0}]
  /\ WORD \in Nat /\ WORD > MaxFrames
  /\ TICK_WORD \in Nat \ {0}
  /\ MAX_OVERRUN \in Nat
  /\ MAX_WRITE \in Nat

Handler == {"clock_handler", "keyboard_handler", "spurious_irq"}
Pc      == {"none", "boot", "call", "test", "scan", "leave",
            "get_ticks", "write", "sysret"}
Label   == {"none", "restart", "restart_reenter"}

Context == [regs : Proc \union {NoProc}, eax : Proc \union {NoProc}]

Frame == [vec      : IRQ \union {NoIrq},    \* the line served, if it is one
          pc       : Pc,                    \* where the handler is
          ret      : Label,                 \* what save pushed to return to
          esi      : Proc \union {NoProc},  \* the PCB save filled, if one
          caller   : Proc \union {NoProc},  \* who executed the int instruction
          p_proc   : Proc \union {NoProc},  \* third argument of the system call
          len      : 0 .. MAX_WRITE,        \* characters left to write
          p        : 0 .. NR_TASKS,         \* schedule(): the loop's p
          greatest : Nat]                   \* schedule(): greatest_ticks

NoContext == [regs |-> NoProc, eax |-> NoProc]
Own(p)    == [regs |-> p, eax |-> p]
NoFrame   == [vec |-> NoIrq, pc |-> "none", ret |-> "none", esi |-> NoProc,
              caller |-> NoProc, p_proc |-> NoProc, len |-> 0, p |-> 0,
              greatest |-> 0]

BootFrame == [NoFrame EXCEPT !.pc = "boot", !.ret = "restart"]

VARIABLES
  ticks,         \* clock ticks since the start
  ticks_left,    \* ticks_left[p]: proc_table[p].ticks
  p_proc_ready,  \* the process restart will resume
  k_reenter,     \* the nesting counter of save and restart
  kstack,        \* the frames on the kernel stack
  esp,           \* how many of them are live; 0 in user mode
  tss_esp0,      \* the PCB whose frame area tss.esp0 points to
  pcb,           \* pcb[p]: the register file saved in proc_table[p]
  cpu,           \* the register file of the process in user mode
  int_on,        \* the interrupt flag of eflags
  imr,           \* lines masked at the 8259A
  irr,           \* lines whose request is latched at the 8259A
  irq_table,     \* the handler of each line
  tty_pc         \* where tty_task is in init_keyboard()

schedVars == <<ticks, ticks_left, p_proc_ready>>
picVars   == <<imr, irr, irq_table>>
vars      == <<schedVars, k_reenter, kstack, esp, tss_esp0, pcb, cpu, int_on,
               picVars, tty_pc>>

-----------------------------------------------------------------------------
(* happy_main() has built the PCBs and is about to execute restart.        *)

Init ==
  /\ ticks = 0
  /\ ticks_left = Priority
  /\ p_proc_ready = Tty
  /\ k_reenter = 0
  /\ kstack = [i \in Level |-> IF i = 1 THEN BootFrame ELSE NoFrame]
  /\ esp = 1
  /\ tss_esp0 = NoProc
  /\ pcb = [p \in Proc |-> Own(p)]
  /\ cpu = NoContext
  /\ int_on = FALSE
  /\ imr = IRQ \ {CLOCK_IRQ}
  /\ irr \in SUBSET IRQ
  /\ irq_table = [n \in IRQ |-> IF n = CLOCK_IRQ THEN "clock_handler"
                                                 ELSE "spurious_irq"]
  /\ tty_pc = "disable"

-----------------------------------------------------------------------------
(* Entering and leaving the kernel.                                        *)

InUser(p) == esp = 0 /\ cpu.regs = p
At(where) == esp > 0 /\ kstack[esp].pc = where
Top       == kstack[esp]

Inc(k) == IF k = WORD - 1 THEN 0 ELSE k + 1
Dec(k) == IF k = 0 THEN WORD - 1 ELSE k - 1

\* (Wrong: one level too many counts as outermost.)
ReturnToLate(k) == IF k <= 1 THEN "restart" ELSE "restart_reenter"

\* The label save pushes, chosen by the counter it has just incremented.
ReturnTo(k) == IF k = 0 THEN "restart" ELSE "restart_reenter"

\* save: from user mode the processor has switched to tss.esp0, so the
\* registers go to that PCB; from the kernel they go to the kernel stack.
Save(frame) ==
  LET k     == Inc(k_reenter)
      depth == IF k = 0 THEN 1 ELSE esp + 1
      where == IF esp = 0 THEN tss_esp0 ELSE NoProc
  IN  /\ k_reenter' = k
      /\ kstack' = [kstack EXCEPT ![depth] =
                      [frame EXCEPT !.ret = ReturnTo(k), !.esi = where]]
      /\ esp' = depth
      /\ pcb' = IF esp = 0 THEN [pcb EXCEPT ![tss_esp0] = cpu] ELSE pcb
      /\ cpu' = NoContext
      /\ int_on' = TRUE

\* (Wrong: tss.esp0 is not moved to the resumed process.)
RestartStaleTss(saved) ==
  /\ cpu' = saved[p_proc_ready]
  /\ pcb' = [saved EXCEPT ![p_proc_ready] = NoContext]
  /\ esp' = 0
  /\ UNCHANGED tss_esp0

\* restart: resume p_proc_ready and let tss.esp0 point to its PCB.  What the
\* PCB of a running process holds is out of date: NoContext.
Restart(saved) ==
  /\ tss_esp0' = p_proc_ready
  /\ cpu' = saved[p_proc_ready]
  /\ pcb' = [saved EXCEPT ![p_proc_ready] = NoContext]
  /\ esp' = 0

\* restart_reenter, come to directly: resume the interrupted kernel code.
RestartReenter(saved) ==
  /\ cpu' = IF esp = 1 THEN saved[Top.esi] ELSE cpu
  /\ pcb' = saved
  /\ esp' = esp - 1
  /\ UNCHANGED tss_esp0

\* The ret that ends hwint_master and sys_call, with the PCBs as the handler
\* leaves them, up to the iretd.
Return(saved) ==
  /\ k_reenter' = Dec(k_reenter)
  /\ kstack' = [kstack EXCEPT ![esp] = NoFrame]
  /\ int_on' = TRUE
  /\ IF Top.ret = "restart" THEN Restart(saved) ELSE RestartReenter(saved)

\* happy_main() calls restart: the first process starts.
Boot ==
  /\ At("boot")
  /\ Return(pcb)
  /\ UNCHANGED <<schedVars, picVars, tty_pc>>

-----------------------------------------------------------------------------
(* Interrupts.                                                             *)

\* (Wrong: the line stays open while its handler runs.)
MaskNothing(n) == imr

Mask(n)   == imr \union {n}
Unmask(n) == imr \ {n}

Deliverable == irr \ imr

\* A device raises its line; the 8259A latches one request per line.
RaiseIrq(n) ==
  /\ n \notin irr
  /\ irr' = irr \union {n}
  /\ UNCHANGED <<schedVars, k_reenter, kstack, esp, tss_esp0, pcb, cpu, int_on,
                 imr, irq_table, tty_pc>>

\* hwint_master up to its sti: save, mask the line, end of interrupt.  The
\* 8259A delivers the line with the lowest number first.
IrqEnter(n) ==
  /\ int_on
  /\ n \in Deliverable
  /\ \A m \in Deliverable : n <= m
  /\ irr' = irr \ {n}
  /\ imr' = Mask(n)
  /\ Save([NoFrame EXCEPT !.vec = n, !.pc = "call"])
  /\ UNCHANGED <<schedVars, tss_esp0, irq_table, tty_pc>>

\* The frame in execution becomes frame, or just goes on at where.
Become(frame) == kstack' = [kstack EXCEPT ![esp] = frame]
Goto(where)   == Become([Top EXCEPT !.pc = where])

kernelRest == <<k_reenter, esp, tss_esp0, pcb, cpu, int_on, picVars, tty_pc>>

\* call [irq_table + 4 * n] of a handler that leaves the kernel's state alone:
\* keyboard_handler() queues a byte, spurious_irq() displays the line.
DeviceHandler ==
  /\ At("call")
  /\ irq_table[Top.vec] \in {"keyboard_handler", "spurious_irq"}
  /\ Goto("leave")
  /\ UNCHANGED <<schedVars, kernelRest>>

Charged(t) == IF t > -MAX_OVERRUN THEN t - 1 ELSE t

\* clock_handler(): count the tick and charge it to p_proc_ready.
ClockCount ==
  /\ At("call")
  /\ irq_table[Top.vec] = "clock_handler"
  /\ ticks' = (ticks + 1) % TICK_WORD
  /\ ticks_left' = [ticks_left EXCEPT ![p_proc_ready] = Charged(@)]
  /\ Goto("test")
  /\ UNCHANGED <<p_proc_ready, kernelRest>>

\* (Wrong: the test of k_reenter is missing.)
MustScheduleNested == ticks_left[p_proc_ready] <= 0

\* (Wrong: the test of the ticks is missing.)
MustScheduleAlways == k_reenter = 0

\* (Wrong: ticks counted below zero inside the kernel are forgotten.)
MustScheduleAtZero == k_reenter = 0 /\ ticks_left[p_proc_ready] = 0

\* clock_handler() calls schedule() unless it interrupted the kernel or the
\* process has ticks left.
MustSchedule == k_reenter = 0 /\ ticks_left[p_proc_ready] <= 0

ClockTest ==
  /\ At("test")
  /\ Goto(IF MustSchedule THEN "scan" ELSE "leave")
  /\ UNCHANGED <<schedVars, kernelRest>>

Better(p, greatest) == ticks_left[p] > greatest

\* schedule(): one iteration of the search for the most ticks.
ScheduleScan ==
  /\ At("scan")
  /\ Top.p < NR_TASKS
  /\ IF Better(Top.p, Top.greatest)
       THEN /\ Become([Top EXCEPT !.p = Top.p + 1, !.greatest = ticks_left[Top.p]])
            /\ p_proc_ready' = Top.p
       ELSE /\ Become([Top EXCEPT !.p = Top.p + 1])
            /\ UNCHANGED p_proc_ready
  /\ UNCHANGED <<ticks, ticks_left, kernelRest>>

\* schedule(): nobody has a tick left, a new round begins.
ScheduleRefill ==
  /\ At("scan")
  /\ Top.p = NR_TASKS
  /\ Top.greatest = 0
  /\ ticks_left' = Priority
  /\ Become([Top EXCEPT !.p = 0])
  /\ UNCHANGED <<ticks, p_proc_ready, kernelRest>>

\* schedule(): the search found a process.
SchedulePicked ==
  /\ At("scan")
  /\ Top.p = NR_TASKS
  /\ Top.greatest /= 0
  /\ Become([Top EXCEPT !.pc = "leave", !.p = 0, !.greatest = 0])
  /\ UNCHANGED <<schedVars, kernelRest>>

\* hwint_master from its cli on: unmask the line, return.
IrqLeave ==
  /\ At("leave")
  /\ imr' = Unmask(Top.vec)
  /\ Return(pcb)
  /\ UNCHANGED <<schedVars, irr, irq_table, tty_pc>>

-----------------------------------------------------------------------------
(* System calls: the user processes make them, tty_task does not.          *)

SysEnter(call, len) ==
  /\ esp = 0
  /\ cpu.regs /= Tty
  /\ Save([NoFrame EXCEPT !.pc = call, !.len = len, !.caller = cpu.regs,
                          !.p_proc = p_proc_ready])
  /\ UNCHANGED <<schedVars, picVars, tss_esp0, tty_pc>>

SysGetTicks ==
  /\ At("get_ticks")
  /\ Goto("sysret")
  /\ UNCHANGED <<schedVars, kernelRest>>

\* sys_write() of p_proc: tty_write() puts one more character out.
SysWriteChar ==
  /\ At("write")
  /\ Top.len > 0
  /\ Become([Top EXCEPT !.len = Top.len - 1])
  /\ UNCHANGED <<schedVars, kernelRest>>

\* (Wrong: the loop tests for its last character, and misses an empty text.)
SysWriteDoneLate ==
  /\ At("write")
  /\ Top.len = 1
  /\ Goto("sysret")
  /\ UNCHANGED <<schedVars, kernelRest>>

SysWriteDone ==
  /\ At("write")
  /\ Top.len = 0
  /\ Goto("sysret")
  /\ UNCHANGED <<schedVars, kernelRest>>

\* mov [esi + EAXREG], eax; cli; ret.
SysReturn ==
  /\ At("sysret")
  /\ Return([pcb EXCEPT ![Top.esi].eax = Top.caller])
  /\ UNCHANGED <<schedVars, picVars, tty_pc>>

-----------------------------------------------------------------------------
(* What tty_task() does to the interrupt state, in user mode.              *)

ttyRest == <<schedVars, k_reenter, kstack, esp, tss_esp0, pcb, cpu, irr>>

\* (Wrong: put_irq_handler() leaves the table as it was.)
TtyDisableIrqOnly ==
  /\ InUser(Tty) /\ tty_pc = "disable"
  /\ imr' = Mask(KEYBOARD_IRQ)
  /\ tty_pc' = "enable"
  /\ UNCHANGED <<ttyRest, int_on, irq_table>>

\* init_keyboard(): put_irq_handler() disables the line and installs the
\* handler, enable_irq() opens the line; each mask access is under cli.
TtyDisableIrq ==
  /\ InUser(Tty) /\ tty_pc = "disable"
  /\ imr' = Mask(KEYBOARD_IRQ)
  /\ tty_pc' = "install"
  /\ UNCHANGED <<ttyRest, int_on, irq_table>>

TtyInstall ==
  /\ InUser(Tty) /\ tty_pc = "install"
  /\ irq_table' = [irq_table EXCEPT ![KEYBOARD_IRQ] = "keyboard_handler"]
  /\ tty_pc' = "enable"
  /\ UNCHANGED <<ttyRest, int_on, imr>>

TtyEnableIrq ==
  /\ InUser(Tty) /\ tty_pc = "enable"
  /\ imr' = Unmask(KEYBOARD_IRQ)
  /\ tty_pc' = "loop"
  /\ UNCHANGED <<ttyRest, int_on, irq_table>>

\* The cli and sti of get_byte_from_kb_buf(), set_cursor() and
\* set_video_start_addr().
TtyDisableInt ==
  /\ InUser(Tty) /\ tty_pc = "loop" /\ int_on
  /\ int_on' = FALSE
  /\ UNCHANGED <<ttyRest, imr, irq_table, tty_pc>>

TtyEnableInt ==
  /\ InUser(Tty) /\ ~int_on
  /\ int_on' = TRUE
  /\ UNCHANGED <<ttyRest, imr, irq_table, tty_pc>>

-----------------------------------------------------------------------------
KernelStep ==
  \/ DeviceHandler
  \/ ClockCount \/ ClockTest
  \/ ScheduleScan \/ ScheduleRefill \/ SchedulePicked
  \/ IrqLeave
  \/ SysGetTicks \/ SysWriteChar \/ SysWriteDone \/ SysReturn

TtyStep ==
  TtyDisableIrq \/ TtyInstall \/ TtyEnableIrq \/ TtyDisableInt \/ TtyEnableInt

Syscall ==
  \/ SysEnter("get_ticks", 0)
  \/ \E len \in 0 .. MAX_WRITE : SysEnter("write", len)

Next ==
  \/ Boot
  \/ \E n \in IRQ : RaiseIrq(n) \/ IrqEnter(n)
  \/ KernelStep
  \/ Syscall
  \/ TtyStep

Spec == Init /\ [][Next]_vars

\* The processor executes the frame it is in; interrupts come at a finite
\* rate, so every level of nesting gets its turn.
KernelFairness == \A i \in Level : SF_vars(esp = i /\ KernelStep)

\* The 8253 ticks for ever, a process is not always inside the kernel when it
\* does, and no process keeps interrupts off.
ClockFairness ==
  /\ WF_vars(Boot)
  /\ SF_vars(esp = 0 /\ RaiseIrq(CLOCK_IRQ))
  /\ SF_vars(esp = 0 /\ IrqEnter(CLOCK_IRQ))
  /\ WF_vars(TtyEnableInt)

FairSpec == Spec /\ KernelFairness /\ ClockFairness

-----------------------------------------------------------------------------
(* Properties.                                                             *)

Live == 1 .. esp

\* The frames of the interrupt that may replace p_proc_ready: the clock's, at
\* the bottom of the stack, once schedule() is being called or has returned.
Switching ==
  \E i \in Live : /\ kstack[i].vec = CLOCK_IRQ /\ i = 1
                  /\ kstack[i].pc \in {"scan", "leave"}

\* Every variable holds a value of its type.
TypeOK ==
  /\ ticks \in 0 .. TICK_WORD - 1
  /\ ticks_left \in [Proc -> Int]
  /\ \A p \in Proc : -MAX_OVERRUN <= ticks_left[p] /\ ticks_left[p] <= Priority[p]
  /\ p_proc_ready \in Proc
  /\ k_reenter \in 0 .. WORD - 1
  /\ kstack \in [Level -> Frame]
  /\ esp \in 0 .. MaxFrames
  /\ tss_esp0 \in Proc \union {NoProc}
  /\ pcb \in [Proc -> Context]
  /\ cpu \in Context
  /\ int_on \in BOOLEAN
  /\ imr \in SUBSET IRQ
  /\ irr \in SUBSET IRQ
  /\ irq_table \in [IRQ -> Handler]
  /\ tty_pc \in {"disable", "install", "enable", "loop"}

\* k_reenter, an unsigned counter that is "minus one" in user mode, always
\* tells how deep the kernel is nested, and exactly the outermost entry
\* returns through restart (save, restart and restart_reenter): a nested
\* return never reloads a PCB, an outermost one never pops the kernel stack.
ReenterCountsNesting ==
  /\ k_reenter = (IF esp = 0 THEN WORD - 1 ELSE esp - 1)
  /\ \A i \in Live :
       kstack[i].ret = (IF i = 1 THEN "restart" ELSE "restart_reenter")

\* A line is masked exactly while its handler is on the stack, and then once
\* (hwint_master masks before sti and unmasks after cli): no handler
\* interrupts itself and no line stays masked for ever.  The keyboard's line
\* counts from enable_irq() in init_keyboard() on.
MaskedIffInService ==
  /\ \A i, j \in Live :
       kstack[i].vec = kstack[j].vec => i = j \/ kstack[i].vec = NoIrq
  /\ \A n \in IRQ :
       \/ n \in imr <=> \E i \in Live : kstack[i].vec = n
       \/ n = KEYBOARD_IRQ /\ tty_pc /= "loop"

\* Until schedule() is called from the outermost clock interrupt,
\* p_proc_ready is the process that was interrupted: a tick is charged to the
\* process that was running, and a system call ends in the process that made
\* it, with the TTY of that process, however many interrupts it suffered.
NoSwitchInsideKernel ==
  /\ \A i \in Live : kstack[i].caller /= NoProc =>
       /\ i = 1
       /\ kstack[i].caller = kstack[i].esi
       /\ kstack[i].caller = kstack[i].p_proc
  /\ (esp > 0 /\ tss_esp0 /= NoProc) => kstack[1].esi = tss_esp0
  /\ (tss_esp0 /= NoProc /\ ~Switching) => p_proc_ready = tss_esp0

\* The registers of a process are its own: in user mode the processor holds
\* those of p_proc_ready, and the next interrupt will save them into its PCB;
\* every other PCB holds what was last saved for it (save, restart, and the
\* eax that sys_call writes through esi after the call).
ContextIntact ==
  /\ esp = 0 => cpu = Own(p_proc_ready) /\ tss_esp0 = p_proc_ready
  /\ \A p \in Proc : (esp > 0 \/ p /= tss_esp0) => pcb[p] = Own(p)

\* No interrupt reaches spurious_irq(): a line is opened only after its
\* handler is in irq_table (init_clock, init_keyboard, put_irq_handler).
NoSpuriousDispatch ==
  \A i \in Live : kstack[i].pc = "call" => irq_table[kstack[i].vec] /= "spurious_irq"

\* The scheduler is fair: clock_handler() and schedule() implement FairShare,
\* where a process owns the processor unless schedule() is choosing, and has
\* used the part of its priority that its ticks do not show any more.
Choosing == \E i \in Live : kstack[i].pc = "scan"
Owner    == IF Choosing THEN NoProc ELSE p_proc_ready
Used     == [p \in Proc |-> Priority[p] - (IF ticks_left[p] > 0 THEN ticks_left[p] ELSE 0)]

FS == INSTANCE FairShare WITH Share <- Priority, None <- NoProc,
                              owner <- Owner, used <- Used

ImplementsFairShare == FS!Spec

\* Every process gets the processor again and again (schedule, restart).
EveryoneRuns == \A p \in Proc : []<>InUser(p)

\* Every system call comes back to its caller in user mode (sys_call).
SyscallReturns ==
  \A p \in Proc : (esp > 0 /\ kstack[1].caller = p) ~> InUser(p)
=============================================================================
