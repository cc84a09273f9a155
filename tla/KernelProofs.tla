----------------------------- MODULE KernelProofs -----------------------------
(***************************************************************************)
(* Proofs about Kernel, for every number of processes, all priorities and  *)
(* all values of the bounds.  The safety properties hold because of one    *)
(* inductive invariant, IInv: the properties themselves and a description  *)
(* of what the frames on the kernel stack can look like.                   *)
(***************************************************************************)
EXTENDS Kernel, TLAPS

HandlerPc == {"call", "test", "scan", "leave"}
SyscallPc == {"get_ticks", "write", "sysret"}

\* The frames on the stack: interrupt handlers, at most one system call or
\* the boot at the bottom, and schedule() only at the bottom.
FrameShape ==
  \A i \in Live :
    /\ kstack[i].vec \in IRQ <=> kstack[i].pc \in HandlerPc
    /\ kstack[i].caller \in Proc <=> kstack[i].pc \in SyscallPc
    /\ kstack[i].pc \in {"test", "scan"} => kstack[i].vec = CLOCK_IRQ
    /\ kstack[i].pc = "scan" => i = 1
    /\ kstack[i].pc \in SyscallPc => i = 1
    /\ kstack[i].pc /= "none"

\* The boot frame is on the stack only until the first restart.
BootFirst ==
  /\ tss_esp0 = NoProc <=> esp > 0 /\ kstack[1].pc = "boot"
  /\ tss_esp0 = NoProc => esp = 1 /\ ~int_on
  /\ \A i \in Live : kstack[i].pc = "boot" => i = 1

\* Interrupts are off only until the first restart and in tty_task().
InterruptsOff == ~int_on => tss_esp0 = NoProc \/ InUser(Tty)

\* The keyboard's line is closed until its handler is installed.
HandlersInstalled ==
  /\ irq_table[CLOCK_IRQ] = "clock_handler"
  /\ irq_table[KEYBOARD_IRQ] /= "clock_handler"
  /\ tty_pc \in {"enable", "loop"} => irq_table[KEYBOARD_IRQ] = "keyboard_handler"
  /\ tty_pc /= "loop" => /\ KEYBOARD_IRQ \in imr
                         /\ \A i \in Live : kstack[i].vec /= KEYBOARD_IRQ

IInv ==
  /\ TypeOK
  /\ FrameShape
  /\ BootFirst
  /\ InterruptsOff
  /\ HandlersInstalled
  /\ ReenterCountsNesting
  /\ MaskedIffInService
  /\ NoSwitchInsideKernel
  /\ ContextIntact

-----------------------------------------------------------------------------
USE DEF Proc, NoProc, Tty, IRQ, CLOCK_IRQ, KEYBOARD_IRQ, NoIrq, MaxFrames, Level

LEMMA NoFrameType == NoFrame \in Frame
BY KernelAssumption DEF NoFrame, Frame, Pc, Label

LEMMA BootFrameType ==
  /\ BootFrame \in Frame
  /\ BootFrame.vec = NoIrq /\ BootFrame.pc = "boot"
  /\ BootFrame.ret = "restart" /\ BootFrame.caller = NoProc
<1>1. BootFrame \in Frame
  BY NoFrameType DEF BootFrame, Frame, Pc, Label
<1> QED
  BY <1>1 DEF BootFrame, NoFrame

THEOREM InitIInv == Init => IInv
<1> SUFFICES ASSUME Init PROVE IInv
  OBVIOUS
<1>1. /\ kstack \in [Level -> Frame]
      /\ kstack[1].vec = NoIrq /\ kstack[1].pc = "boot"
      /\ kstack[1].ret = "restart" /\ kstack[1].caller = NoProc
  BY NoFrameType, BootFrameType DEF Init
<1> USE KernelAssumption DEF Init
<1>2. Live = {1}
  BY DEF Live
<1>3. ticks_left \in [Proc -> Int]
      /\ \A p \in Proc : -MAX_OVERRUN <= ticks_left[p] /\ ticks_left[p] <= Priority[p]
  OBVIOUS
<1>4. pcb \in [Proc -> Context] /\ cpu \in Context
  BY DEF Context, NoContext, Own
<1>5. TypeOK
  <2>1. irq_table \in [IRQ -> Handler]
    BY DEF Handler
  <2>2. /\ ticks \in 0 .. TICK_WORD - 1 /\ k_reenter \in 0 .. WORD - 1
        /\ p_proc_ready \in Proc
    OBVIOUS
  <2>3. /\ esp \in 0 .. MaxFrames /\ tss_esp0 \in Proc \union {NoProc}
        /\ imr \in SUBSET IRQ /\ irr \in SUBSET IRQ
        /\ tty_pc \in {"disable", "install", "enable", "loop"}
    OBVIOUS
  <2>4. int_on \in BOOLEAN
    OBVIOUS
  <2> QED
    BY <1>1, <1>3, <1>4, <2>1, <2>2, <2>3, <2>4 DEF TypeOK
<1>6. FrameShape
  BY <1>1, <1>2 DEF FrameShape, HandlerPc, SyscallPc
<1>7. BootFirst /\ InterruptsOff
  BY <1>1, <1>2 DEF BootFirst, InterruptsOff
<1>8. HandlersInstalled
  BY <1>1, <1>2 DEF HandlersInstalled
<1>9. ReenterCountsNesting
  BY <1>1, <1>2 DEF ReenterCountsNesting
<1>10. MaskedIffInService
  BY <1>1, <1>2 DEF MaskedIffInService
<1>11. NoSwitchInsideKernel
  BY <1>1, <1>2 DEF NoSwitchInsideKernel
<1>12. ContextIntact
  BY DEF ContextIntact
<1> QED
  BY <1>5, <1>6, <1>7, <1>8, <1>9, <1>10, <1>11, <1>12 DEF IInv

-----------------------------------------------------------------------------
(* Steps of the frame in execution: the stack keeps its depth.             *)

\* The frame in execution is at w, and no frame is another one's.
SameFrames(w) ==
  \A i \in Level :
    /\ kstack'[i].pc = IF i = esp THEN w ELSE kstack[i].pc
    /\ kstack'[i].vec = kstack[i].vec
    /\ kstack'[i].ret = kstack[i].ret
    /\ kstack'[i].esi = kstack[i].esi
    /\ kstack'[i].caller = kstack[i].caller
    /\ kstack'[i].p_proc = kstack[i].p_proc

LEMMA TopType ==
  ASSUME TypeOK, esp \in Level
  PROVE  /\ Top \in Frame
         /\ Top.p \in 0 .. NR_TASKS
         /\ Top.greatest \in Nat
         /\ Top.len \in 0 .. MAX_WRITE
<1>1. Top \in Frame
  BY DEF TypeOK, Top
<1> QED
  BY <1>1 DEF Frame

LEMMA BecomeFrames ==
  ASSUME TypeOK, esp \in Level, NEW f \in Frame, Become(f),
         f.vec = Top.vec, f.ret = Top.ret, f.esi = Top.esi,
         f.caller = Top.caller, f.p_proc = Top.p_proc
  PROVE  kstack' \in [Level -> Frame] /\ SameFrames(f.pc)
BY DEF TypeOK, Become, SameFrames, Top

LEMMA GotoFrames ==
  ASSUME TypeOK, esp \in Level, NEW w \in Pc, Goto(w)
  PROVE  kstack' \in [Level -> Frame] /\ SameFrames(w)
<1> DEFINE f == [Top EXCEPT !.pc = w]
<1>1. f \in Frame /\ f.pc = w
      /\ f.vec = Top.vec /\ f.ret = Top.ret /\ f.esi = Top.esi
      /\ f.caller = Top.caller /\ f.p_proc = Top.p_proc
  BY TopType DEF Frame
<1>2. Become(f)
  BY DEF Goto
<1> HIDE DEF f
<1> QED
  BY <1>1, <1>2, BecomeFrames

\* A step of the topmost frame that stays within its handler or its system
\* call preserves the invariant; only schedule() may move p_proc_ready.
LEMMA InFrameStep ==
  ASSUME IInv, TypeOK', esp \in Level, UNCHANGED kernelRest,
         NEW w, SameFrames(w),
         w \in HandlerPc <=> Top.pc \in HandlerPc,
         w \in SyscallPc <=> Top.pc \in SyscallPc,
         w \notin {"none", "boot"}, Top.pc /= "boot",
         w \in {"test", "scan"} => Top.vec = CLOCK_IRQ,
         w = "scan" => esp = 1,
         Top.pc \in {"scan", "leave"} => w \in {"scan", "leave"},
         p_proc_ready' /= p_proc_ready => Top.pc = "scan"
  PROVE  IInv'
<1> USE DEF IInv, kernelRest, picVars
<1>1. Live' = Live /\ Live \subseteq Level /\ esp \in Live
  BY DEF Live, TypeOK
<1>2. FrameShape'
  BY <1>1 DEF FrameShape, SameFrames, HandlerPc, SyscallPc, Top
<1>3. BootFirst'
  BY <1>1 DEF BootFirst, SameFrames, Live, Top
<1>4. InterruptsOff'
  BY DEF InterruptsOff, InUser
<1>5. HandlersInstalled'
  BY <1>1 DEF HandlersInstalled, SameFrames
<1>6. ReenterCountsNesting'
  <2>1. k_reenter' = k_reenter /\ esp' = esp
    OBVIOUS
  <2>2. \A i \in Live' : i \in Live /\ kstack'[i].ret = kstack[i].ret
    BY <1>1 DEF SameFrames
  <2> QED
    BY <2>1, <2>2 DEF ReenterCountsNesting
<1>7. MaskedIffInService'
  BY <1>1 DEF MaskedIffInService, SameFrames
<1>8. NoSwitchInsideKernel'
  <2>1. Switching => Switching'
    BY <1>1 DEF Switching, SameFrames, Top
  <2>2. p_proc_ready' /= p_proc_ready => Switching'
    BY <1>1 DEF Switching, SameFrames, Top, FrameShape
  <2> QED
    BY <1>1, <2>1, <2>2 DEF NoSwitchInsideKernel, SameFrames, Live
<1>9. ContextIntact'
  BY <1>1 DEF ContextIntact, BootFirst
<1> QED
  BY <1>2, <1>3, <1>4, <1>5, <1>6, <1>7, <1>8, <1>9

LEMMA DeviceHandlerIInv == IInv /\ DeviceHandler => IInv'
<1> SUFFICES ASSUME IInv, DeviceHandler PROVE IInv'
  OBVIOUS
<1> USE DEF DeviceHandler, At, Top
<1>1. esp \in Level /\ "leave" \in Pc /\ TypeOK /\ Goto("leave")
  BY DEF IInv, TypeOK, Pc
<1>2. kstack' \in [Level -> Frame] /\ SameFrames("leave")
  BY <1>1, GotoFrames
<1>3. TypeOK'
  BY <1>1, <1>2 DEF TypeOK, kernelRest, schedVars, picVars
<1> QED
  BY <1>1, <1>2, <1>3, InFrameStep DEF HandlerPc, SyscallPc, schedVars

LEMMA ClockCountIInv == IInv /\ ClockCount => IInv'
<1> SUFFICES ASSUME IInv, ClockCount PROVE IInv'
  OBVIOUS
<1> USE DEF ClockCount, At, Top
<1>1. esp \in Level /\ "test" \in Pc /\ TypeOK /\ Goto("test")
  BY DEF IInv, TypeOK, Pc
<1>2. kstack' \in [Level -> Frame] /\ SameFrames("test")
  BY <1>1, GotoFrames
<1>3. ticks' \in 0 .. TICK_WORD - 1
  BY KernelAssumption, <1>1 DEF TypeOK
<1>4. /\ ticks_left' \in [Proc -> Int]
      /\ \A p \in Proc : -MAX_OVERRUN <= ticks_left'[p] /\ ticks_left'[p] <= Priority[p]
  BY KernelAssumption, <1>1 DEF TypeOK, Charged
<1>5. TypeOK'
  BY <1>1, <1>2, <1>3, <1>4 DEF TypeOK, kernelRest, picVars
<1>6. Top.vec = CLOCK_IRQ
  BY <1>1 DEF IInv, HandlersInstalled, FrameShape, Live, HandlerPc
<1> QED
  BY <1>1, <1>2, <1>5, <1>6, InFrameStep DEF HandlerPc, SyscallPc

LEMMA ClockTestIInv == IInv /\ ClockTest => IInv'
<1> SUFFICES ASSUME IInv, ClockTest PROVE IInv'
  OBVIOUS
<1> USE DEF ClockTest, At, Top
<1> DEFINE w == IF MustSchedule THEN "scan" ELSE "leave"
<1>1. esp \in Level /\ w \in Pc /\ TypeOK /\ Goto(w)
  BY DEF IInv, TypeOK, Pc
<1> HIDE DEF w
<1>2. kstack' \in [Level -> Frame] /\ SameFrames(w)
  BY <1>1, GotoFrames
<1>3. TypeOK'
  BY <1>1, <1>2 DEF TypeOK, kernelRest, schedVars, picVars
<1>4. w = "scan" => esp = 1
  BY <1>1, KernelAssumption DEF w, MustSchedule, IInv, ReenterCountsNesting
<1>5. w \in {"scan", "leave"}
  BY DEF w
<1>6. Top.vec = CLOCK_IRQ
  BY <1>1 DEF IInv, FrameShape, Live
<1> QED
  BY <1>1, <1>2, <1>3, <1>4, <1>5, <1>6, InFrameStep DEF HandlerPc, SyscallPc, schedVars

LEMMA ScheduleScanIInv == IInv /\ ScheduleScan => IInv'
<1> SUFFICES ASSUME IInv, ScheduleScan PROVE IInv'
  OBVIOUS
<1>1. esp \in Level /\ TypeOK /\ Top.pc = "scan"
  BY DEF IInv, TypeOK, ScheduleScan, At, Top
<1>2. Top \in Frame /\ Top.p \in Proc /\ Top.greatest \in Nat /\ Top.p + 1 \in 0 .. NR_TASKS
  BY SMTT(30), <1>1, TopType, KernelAssumption DEF ScheduleScan
<1>3. kstack' \in [Level -> Frame] /\ SameFrames("scan")
  <2>1. CASE Better(Top.p, Top.greatest)
    <3> DEFINE f == [Top EXCEPT !.p = Top.p + 1, !.greatest = ticks_left[Top.p]]
    <3>1. ticks_left[Top.p] \in Nat
      BY <1>1, <1>2, <2>1 DEF TypeOK, Better
    <3>2. f \in Frame /\ f.pc = "scan"
          /\ f.vec = Top.vec /\ f.ret = Top.ret /\ f.esi = Top.esi
          /\ f.caller = Top.caller /\ f.p_proc = Top.p_proc
      BY <1>1, <1>2, <3>1 DEF Frame
    <3>3. Become(f)
      BY <2>1 DEF ScheduleScan
    <3> HIDE DEF f
    <3> QED
      BY <1>1, <3>2, <3>3, BecomeFrames
  <2>2. CASE ~Better(Top.p, Top.greatest)
    <3> DEFINE f == [Top EXCEPT !.p = Top.p + 1]
    <3>2. f \in Frame /\ f.pc = "scan"
          /\ f.vec = Top.vec /\ f.ret = Top.ret /\ f.esi = Top.esi
          /\ f.caller = Top.caller /\ f.p_proc = Top.p_proc
      BY <1>1, <1>2 DEF Frame
    <3>3. Become(f)
      BY <2>2 DEF ScheduleScan
    <3> HIDE DEF f
    <3> QED
      BY <1>1, <3>2, <3>3, BecomeFrames
  <2> QED
    BY <2>1, <2>2
<1>4. p_proc_ready' \in Proc /\ UNCHANGED <<ticks, ticks_left, kernelRest>>
  BY <1>1, <1>2 DEF ScheduleScan, TypeOK
<1>5. TypeOK'
  BY <1>1, <1>3, <1>4 DEF TypeOK, kernelRest, picVars
<1>6. Top.vec = CLOCK_IRQ /\ esp = 1
  BY <1>1 DEF IInv, FrameShape, Live, Top
<1> QED
  BY <1>1, <1>3, <1>4, <1>5, <1>6, InFrameStep DEF HandlerPc, SyscallPc

LEMMA ScheduleRefillIInv == IInv /\ ScheduleRefill => IInv'
<1> SUFFICES ASSUME IInv, ScheduleRefill PROVE IInv'
  OBVIOUS
<1> DEFINE f == [Top EXCEPT !.p = 0]
<1>1. esp \in Level /\ TypeOK /\ Top.pc = "scan" /\ Become(f)
  BY DEF IInv, TypeOK, ScheduleRefill, At, Top
<1>2. f \in Frame /\ f.pc = "scan"
      /\ f.vec = Top.vec /\ f.ret = Top.ret /\ f.esi = Top.esi
      /\ f.caller = Top.caller /\ f.p_proc = Top.p_proc
  <2>1. Top \in Frame /\ 0 \in 0 .. NR_TASKS
    BY <1>1, TopType, KernelAssumption
  <2> QED
    BY <1>1, <2>1 DEF Frame
<1> HIDE DEF f
<1>3. kstack' \in [Level -> Frame] /\ SameFrames("scan")
  BY <1>1, <1>2, BecomeFrames
<1>4. /\ ticks_left' \in [Proc -> Int]
      /\ \A p \in Proc : -MAX_OVERRUN <= ticks_left'[p] /\ ticks_left'[p] <= Priority[p]
      /\ UNCHANGED <<ticks, p_proc_ready, kernelRest>>
  BY KernelAssumption DEF ScheduleRefill
<1>5. TypeOK'
  BY <1>1, <1>3, <1>4 DEF TypeOK, kernelRest, picVars
<1>6. Top.vec = CLOCK_IRQ /\ esp = 1
  BY <1>1 DEF IInv, FrameShape, Live, Top
<1> QED
  BY <1>1, <1>3, <1>4, <1>5, <1>6, InFrameStep DEF HandlerPc, SyscallPc

LEMMA SchedulePickedIInv == IInv /\ SchedulePicked => IInv'
<1> SUFFICES ASSUME IInv, SchedulePicked PROVE IInv'
  OBVIOUS
<1> DEFINE f == [Top EXCEPT !.pc = "leave", !.p = 0, !.greatest = 0]
<1>1. esp \in Level /\ TypeOK /\ Top.pc = "scan" /\ Become(f)
      /\ UNCHANGED <<schedVars, kernelRest>>
  BY DEF IInv, TypeOK, SchedulePicked, At, Top
<1>2. f \in Frame /\ f.pc = "leave"
      /\ f.vec = Top.vec /\ f.ret = Top.ret /\ f.esi = Top.esi
      /\ f.caller = Top.caller /\ f.p_proc = Top.p_proc
  <2>1. Top \in Frame /\ "leave" \in Pc /\ 0 \in 0 .. NR_TASKS /\ 0 \in Nat
    BY <1>1, TopType, KernelAssumption DEF Pc
  <2> QED
    BY <1>1, <2>1 DEF Frame
<1> HIDE DEF f
<1>3. kstack' \in [Level -> Frame] /\ SameFrames("leave")
  BY <1>1, <1>2, BecomeFrames
<1>4. TypeOK'
  BY <1>1, <1>3 DEF TypeOK, kernelRest, schedVars, picVars
<1> QED
  BY <1>1, <1>3, <1>4, InFrameStep DEF HandlerPc, SyscallPc, schedVars

LEMMA SysGetTicksIInv == IInv /\ SysGetTicks => IInv'
<1> SUFFICES ASSUME IInv, SysGetTicks PROVE IInv'
  OBVIOUS
<1> USE DEF SysGetTicks, At, Top
<1>1. esp \in Level /\ "sysret" \in Pc /\ TypeOK /\ Goto("sysret")
  BY DEF IInv, TypeOK, Pc
<1>2. kstack' \in [Level -> Frame] /\ SameFrames("sysret")
  BY <1>1, GotoFrames
<1>3. TypeOK'
  BY <1>1, <1>2 DEF TypeOK, kernelRest, schedVars, picVars
<1> QED
  BY <1>1, <1>2, <1>3, InFrameStep DEF HandlerPc, SyscallPc, schedVars

LEMMA SysWriteCharIInv == IInv /\ SysWriteChar => IInv'
<1> SUFFICES ASSUME IInv, SysWriteChar PROVE IInv'
  OBVIOUS
<1> DEFINE f == [Top EXCEPT !.len = Top.len - 1]
<1>1. esp \in Level /\ TypeOK /\ Top.pc = "write" /\ Become(f) /\ Top.len > 0
      /\ UNCHANGED <<schedVars, kernelRest>>
  BY DEF IInv, TypeOK, SysWriteChar, At, Top
<1>2. f \in Frame /\ f.pc = "write"
      /\ f.vec = Top.vec /\ f.ret = Top.ret /\ f.esi = Top.esi
      /\ f.caller = Top.caller /\ f.p_proc = Top.p_proc
  <2>1. Top \in Frame /\ Top.len - 1 \in 0 .. MAX_WRITE
    BY <1>1, TopType, KernelAssumption
  <2> QED
    BY <1>1, <2>1 DEF Frame
<1> HIDE DEF f
<1>3. kstack' \in [Level -> Frame] /\ SameFrames("write")
  BY <1>1, <1>2, BecomeFrames
<1>4. TypeOK'
  BY <1>1, <1>3 DEF TypeOK, kernelRest, schedVars, picVars
<1> QED
  BY <1>1, <1>3, <1>4, InFrameStep DEF HandlerPc, SyscallPc, schedVars

LEMMA SysWriteDoneIInv == IInv /\ SysWriteDone => IInv'
<1> SUFFICES ASSUME IInv, SysWriteDone PROVE IInv'
  OBVIOUS
<1> USE DEF SysWriteDone, At, Top
<1>1. esp \in Level /\ "sysret" \in Pc /\ TypeOK /\ Goto("sysret")
  BY DEF IInv, TypeOK, Pc
<1>2. kstack' \in [Level -> Frame] /\ SameFrames("sysret")
  BY <1>1, GotoFrames
<1>3. TypeOK'
  BY <1>1, <1>2 DEF TypeOK, kernelRest, schedVars, picVars
<1> QED
  BY <1>1, <1>2, <1>3, InFrameStep DEF HandlerPc, SyscallPc, schedVars

-----------------------------------------------------------------------------
(* Steps that leave the kernel's frames alone.                             *)

LEMMA RaiseIrqIInv == ASSUME NEW n \in IRQ PROVE IInv /\ RaiseIrq(n) => IInv'
<1> SUFFICES ASSUME IInv, RaiseIrq(n) PROVE IInv'
  OBVIOUS
<1> USE DEF IInv, RaiseIrq, schedVars
<1>1. Live' = Live
  BY DEF Live
<1>2. TypeOK'
  BY DEF TypeOK
<1>3. FrameShape' /\ BootFirst' /\ InterruptsOff' /\ HandlersInstalled'
  BY <1>1 DEF FrameShape, BootFirst, InterruptsOff, HandlersInstalled, InUser
<1>4. ReenterCountsNesting' /\ MaskedIffInService'
  BY <1>1 DEF ReenterCountsNesting, MaskedIffInService
<1>5. NoSwitchInsideKernel' /\ ContextIntact'
  BY <1>1 DEF NoSwitchInsideKernel, ContextIntact, Switching
<1> QED
  BY <1>2, <1>3, <1>4, <1>5

LEMMA TtyStepIInv == IInv /\ TtyStep => IInv'
<1> SUFFICES ASSUME IInv, TtyStep PROVE IInv'
  OBVIOUS
<1> USE DEF IInv, TtyStep, ttyRest, schedVars, TtyDisableIrq, TtyInstall,
            TtyEnableIrq, TtyDisableInt, TtyEnableInt
<1>1. UNCHANGED ttyRest /\ InUser(Tty) /\ esp = 0
  BY DEF InUser
<1>2. Live = {} /\ Live' = {}
  BY <1>1 DEF Live
<1>3. TypeOK'
  <2>1. int_on' \in BOOLEAN
    BY DEF TypeOK
  <2>2. imr' \in SUBSET IRQ
    BY DEF TypeOK, Mask, Unmask
  <2>3. irq_table' \in [IRQ -> Handler]
    BY DEF TypeOK, Handler
  <2>4. tty_pc' \in {"disable", "install", "enable", "loop"}
    BY DEF TypeOK
  <2> QED
    BY <1>1, <2>1, <2>2, <2>3, <2>4 DEF TypeOK
<1>4. FrameShape' /\ ReenterCountsNesting'
  BY <1>1, <1>2 DEF FrameShape, ReenterCountsNesting
<1>5. BootFirst' /\ InterruptsOff'
  BY <1>1, <1>2 DEF BootFirst, InterruptsOff, InUser
<1>6. HandlersInstalled'
  BY <1>1, <1>2 DEF HandlersInstalled, TypeOK, Mask, Unmask
<1>7. MaskedIffInService'
  BY <1>1, <1>2 DEF MaskedIffInService, HandlersInstalled, Mask, Unmask
<1>8. NoSwitchInsideKernel' /\ ContextIntact'
  BY <1>1, <1>2 DEF NoSwitchInsideKernel, ContextIntact, Switching
<1> QED
  BY <1>3, <1>4, <1>5, <1>6, <1>7, <1>8

-----------------------------------------------------------------------------
(* Entries: save.                                                          *)

\* From a state of the invariant, save puts the new frame on top of the
\* stack, lets it return as its depth says, and fills a PCB exactly when it
\* comes from user mode.
LEMMA SaveFrames ==
  ASSUME IInv, NEW frame \in Frame, Save(frame), esp < MaxFrames
  PROVE  /\ esp' = esp + 1
         /\ k_reenter' = esp
         /\ kstack' \in [Level -> Frame]
         /\ \A i \in Live : kstack'[i] = kstack[i]
         /\ kstack'[esp + 1].vec = frame.vec
         /\ kstack'[esp + 1].pc = frame.pc
         /\ kstack'[esp + 1].caller = frame.caller
         /\ kstack'[esp + 1].p_proc = frame.p_proc
         /\ kstack'[esp + 1].p = frame.p
         /\ kstack'[esp + 1].greatest = frame.greatest
         /\ kstack'[esp + 1].ret = IF esp = 0 THEN "restart" ELSE "restart_reenter"
         /\ kstack'[esp + 1].esi = IF esp = 0 THEN tss_esp0 ELSE NoProc
<1>1. TypeOK /\ k_reenter = (IF esp = 0 THEN WORD - 1 ELSE esp - 1)
  BY DEF IInv, ReenterCountsNesting
<1>2. Inc(k_reenter) = esp
  BY <1>1, KernelAssumption DEF Inc, TypeOK
<1> DEFINE f == [frame EXCEPT !.ret = ReturnTo(esp),
                              !.esi = IF esp = 0 THEN tss_esp0 ELSE NoProc]
<1>3. f \in Frame /\ f.vec = frame.vec /\ f.pc = frame.pc
      /\ f.caller = frame.caller /\ f.p_proc = frame.p_proc
      /\ f.p = frame.p /\ f.greatest = frame.greatest
      /\ f.ret = (IF esp = 0 THEN "restart" ELSE "restart_reenter")
      /\ f.esi = (IF esp = 0 THEN tss_esp0 ELSE NoProc)
  <2>1. ReturnTo(esp) \in Label /\ ReturnTo(esp) = IF esp = 0 THEN "restart" ELSE "restart_reenter"
    BY DEF ReturnTo, Label
  <2>2. (IF esp = 0 THEN tss_esp0 ELSE NoProc) \in Proc \union {NoProc}
    BY <1>1 DEF TypeOK
  <2> QED
    BY <2>1, <2>2 DEF Frame
<1>4. /\ esp' = esp + 1
      /\ k_reenter' = esp
      /\ kstack' = [kstack EXCEPT ![esp + 1] = f]
  <2> DEFINE depth == IF esp = 0 THEN 1 ELSE esp + 1
  <2>1. esp' = depth /\ k_reenter' = esp /\ kstack' = [kstack EXCEPT ![depth] = f]
    BY <1>2 DEF Save
  <2>2. depth = esp + 1
    BY <1>1 DEF TypeOK
  <2> HIDE DEF f, depth
  <2> QED
    BY <2>1, <2>2
<1> HIDE DEF f
<1>5. esp \in 0 .. 2 /\ kstack \in [Level -> Frame] /\ Live \subseteq Level \ {esp + 1}
  BY <1>1 DEF TypeOK, Live
<1> QED
  BY <1>3, <1>4, <1>5

\* A new frame on top of the stack preserves the invariant when it fits the
\* line it serves, or the process that makes the system call.
LEMMA EntryStep ==
  ASSUME IInv, NEW frame \in Frame, Save(frame), esp < MaxFrames, int_on,
         UNCHANGED <<schedVars, tss_esp0, irq_table, tty_pc>>,
         irr' \in SUBSET IRQ, imr' \in SUBSET IRQ,
         \/ /\ frame.vec \in IRQ \ imr /\ frame.pc = "call"
            /\ frame.caller = NoProc
            /\ imr' = imr \union {frame.vec}
         \/ /\ frame.vec = NoIrq /\ frame.pc \in SyscallPc
            /\ frame.caller = cpu.regs /\ frame.p_proc = p_proc_ready
            /\ esp = 0
            /\ imr' = imr
  PROVE  IInv'
<1> USE DEF IInv, schedVars
<1>1. /\ esp' = esp + 1 /\ k_reenter' = esp
      /\ kstack' \in [Level -> Frame]
      /\ \A i \in Live : kstack'[i] = kstack[i]
      /\ kstack'[esp + 1].vec = frame.vec
      /\ kstack'[esp + 1].pc = frame.pc
      /\ kstack'[esp + 1].caller = frame.caller
      /\ kstack'[esp + 1].p_proc = frame.p_proc
      /\ kstack'[esp + 1].ret = IF esp = 0 THEN "restart" ELSE "restart_reenter"
      /\ kstack'[esp + 1].esi = IF esp = 0 THEN tss_esp0 ELSE NoProc
  BY SaveFrames
<1>2. esp \in 0 .. 2 /\ Live' = Live \union {esp + 1} /\ esp + 1 \notin Live
  BY <1>1 DEF TypeOK, Live
<1>3. tss_esp0 \in Proc
  BY DEF TypeOK, BootFirst
<1>4. esp = 0 => cpu = Own(p_proc_ready) /\ tss_esp0 = p_proc_ready
  BY DEF ContextIntact
<1>5. \A p \in Proc : pcb'[p] = Own(p)
  <2>1. pcb' = IF esp = 0 THEN [pcb EXCEPT ![tss_esp0] = cpu] ELSE pcb
    BY DEF Save
  <2> QED
    BY <1>2, <1>3, <1>4, <2>1 DEF ContextIntact, TypeOK
<1>6. int_on' = TRUE /\ cpu' = NoContext
  BY DEF Save
<1>7. TypeOK'
  <2>1. pcb' \in [Proc -> Context]
    BY <1>3 DEF Save, TypeOK
  <2>2. cpu' \in Context
    BY <1>6 DEF NoContext, Context
  <2>3. int_on' \in BOOLEAN
    BY <1>6
  <2>4. k_reenter' \in 0 .. WORD - 1 /\ esp' \in 0 .. MaxFrames
    BY <1>1, <1>2, KernelAssumption
  <2> QED
    BY <1>1, <2>1, <2>2, <2>3, <2>4 DEF TypeOK
<1>8. FrameShape'
  BY <1>1, <1>2, <1>3, <1>4 DEF FrameShape, HandlerPc, SyscallPc, Own
<1>9. BootFirst' /\ InterruptsOff'
  BY <1>1, <1>2, <1>3, <1>6 DEF BootFirst, InterruptsOff, SyscallPc, Live
<1>10. HandlersInstalled'
  BY <1>1, <1>2 DEF HandlersInstalled
<1>11. ReenterCountsNesting'
  BY <1>1, <1>2 DEF ReenterCountsNesting, Live
<1>12. MaskedIffInService'
  BY <1>1, <1>2 DEF MaskedIffInService, HandlersInstalled
<1>13. NoSwitchInsideKernel'
  BY <1>1, <1>2, <1>3, <1>4 DEF NoSwitchInsideKernel, Switching, Live, Own, SyscallPc
<1>14. ContextIntact'
  BY <1>1, <1>2, <1>5 DEF ContextIntact
<1> QED
  BY <1>7, <1>8, <1>9, <1>10, <1>11, <1>12, <1>13, <1>14

LEMMA IrqEnterIInv == ASSUME NEW n \in IRQ PROVE IInv /\ IrqEnter(n) => IInv'
<1> SUFFICES ASSUME IInv, IrqEnter(n) PROVE IInv'
  OBVIOUS
<1> DEFINE frame == [NoFrame EXCEPT !.vec = n, !.pc = "call"]
<1>1. frame \in Frame /\ frame.vec = n /\ frame.pc = "call" /\ frame.caller = NoProc
  <2>1. frame \in Frame
    BY NoFrameType DEF Frame, Pc
  <2> QED
    BY <2>1 DEF NoFrame
<1>2. /\ int_on /\ n \notin imr /\ imr' = imr \union {n} /\ irr' \subseteq irr
      /\ Save(frame)
      /\ UNCHANGED <<schedVars, tss_esp0, irq_table, tty_pc>>
  BY DEF IrqEnter, Deliverable, Mask
<1> HIDE DEF frame
<1>3. esp < MaxFrames
  <2>1. SUFFICES ASSUME esp = 3 PROVE FALSE
    BY DEF IInv, TypeOK
  <2>2. \A i \in 2 .. 3 : kstack[i].vec \in IRQ \ {n}
    <3>1. \A i \in 2 .. 3 : kstack[i].vec \in IRQ
      <4>1. \A i \in 2 .. 3 : kstack[i].pc \in Pc
        BY SMTT(30) DEF IInv, TypeOK, Frame
      <4>2. \A i \in 2 .. 3 : kstack[i].pc \in HandlerPc
        BY <2>1, <4>1 DEF IInv, FrameShape, BootFirst, Live, HandlerPc, SyscallPc, Pc
      <4> QED
        BY <2>1, <4>2 DEF IInv, FrameShape, Live
    <3>2. \A i \in 2 .. 3 : kstack[i].vec /= n
      BY <1>2, <2>1 DEF IInv, MaskedIffInService, HandlersInstalled, Live
    <3> QED
      BY <3>1, <3>2
  <2>3. kstack[2].vec /= kstack[3].vec
    BY <2>1, <2>2 DEF IInv, MaskedIffInService, Live
  <2> QED
    BY <2>2, <2>3
<1>4. imr' \in SUBSET IRQ /\ irr' \in SUBSET IRQ
  BY <1>2 DEF IInv, TypeOK
<1> QED
  BY <1>1, <1>2, <1>3, <1>4, EntryStep

LEMMA SysEnterIInv ==
  ASSUME NEW call \in {"get_ticks", "write"}, NEW len \in 0 .. MAX_WRITE
  PROVE  IInv /\ SysEnter(call, len) => IInv'
<1> SUFFICES ASSUME IInv, SysEnter(call, len) PROVE IInv'
  OBVIOUS
<1> DEFINE frame == [NoFrame EXCEPT !.pc = call, !.len = len, !.caller = cpu.regs,
                                    !.p_proc = p_proc_ready]
<1>1. /\ esp = 0 /\ cpu.regs /= Tty /\ Save(frame)
      /\ UNCHANGED <<schedVars, picVars, tss_esp0, tty_pc>>
  BY DEF SysEnter
<1>2. TypeOK /\ cpu.regs \in Proc \union {NoProc} /\ p_proc_ready \in Proc
  BY DEF IInv, TypeOK, Context
<1>3. frame \in Frame /\ frame.vec = NoIrq /\ frame.pc = call
      /\ frame.caller = cpu.regs /\ frame.p_proc = p_proc_ready
  <2>1. frame \in Frame
    BY <1>2, NoFrameType DEF Frame, Pc
  <2> QED
    BY <2>1 DEF NoFrame
<1> HIDE DEF frame
<1>4. int_on
  BY <1>1 DEF IInv, InterruptsOff, InUser, BootFirst
<1>5. imr' = imr /\ irr' = irr /\ imr \in SUBSET IRQ /\ irr \in SUBSET IRQ /\ irq_table' = irq_table
  BY <1>1, <1>2 DEF picVars, TypeOK
<1> QED
  BY <1>1, <1>3, <1>4, <1>5, EntryStep DEF SyscallPc

-----------------------------------------------------------------------------
(* Exits: restart and restart_reenter.                                     *)

\* The topmost frame returns, to a process exactly when it is the outermost.
LEMMA ReturnFrames ==
  ASSUME IInv, esp \in Level, NEW saved \in [Proc -> Context], Return(saved)
  PROVE  /\ esp' = esp - 1
         /\ k_reenter' = IF esp = 1 THEN WORD - 1 ELSE esp - 2
         /\ kstack' \in [Level -> Frame]
         /\ \A i \in Level : i < esp => kstack'[i] = kstack[i]
         /\ esp = 1 => /\ tss_esp0' = p_proc_ready
                       /\ cpu' = saved[p_proc_ready]
                       /\ pcb' = [saved EXCEPT ![p_proc_ready] = NoContext]
         /\ esp > 1 => tss_esp0' = tss_esp0 /\ cpu' = cpu /\ pcb' = saved
<1>1. TypeOK /\ k_reenter = esp - 1
      /\ Top.ret = (IF esp = 1 THEN "restart" ELSE "restart_reenter")
  BY DEF IInv, ReenterCountsNesting, Live, Top
<1>2. Dec(k_reenter) = IF esp = 1 THEN WORD - 1 ELSE esp - 2
  BY <1>1 DEF Dec
<1>3. /\ kstack' = [kstack EXCEPT ![esp] = NoFrame]
      /\ k_reenter' = Dec(k_reenter)
  BY DEF Return
<1>4. kstack' \in [Level -> Frame] /\ \A i \in Level : i < esp => kstack'[i] = kstack[i]
  BY <1>1, <1>3, NoFrameType DEF TypeOK
<1>5. CASE esp = 1
  BY <1>1, <1>2, <1>3, <1>4, <1>5 DEF Return, Restart
<1>6. CASE esp > 1
  BY <1>1, <1>2, <1>3, <1>4, <1>6 DEF Return, RestartReenter
<1> QED
  BY <1>5, <1>6

\* Leaving the topmost frame preserves the invariant when every PCB is in
\* order and its line, if it has one, is opened again.
LEMMA ExitStep ==
  ASSUME IInv, esp \in Level, NEW saved \in [Proc -> Context], Return(saved),
         \A p \in Proc : saved[p] = Own(p),
         UNCHANGED <<schedVars, irr, irq_table, tty_pc>>,
         Top.pc \in {"boot", "leave", "sysret"},
         imr' = imr \ {Top.vec}
  PROVE  IInv'
<1> USE DEF IInv, schedVars
<1>1. /\ esp' = esp - 1
      /\ k_reenter' = IF esp = 1 THEN WORD - 1 ELSE esp - 2
      /\ kstack' \in [Level -> Frame]
      /\ \A i \in Level : i < esp => kstack'[i] = kstack[i]
      /\ esp = 1 => /\ tss_esp0' = p_proc_ready
                    /\ cpu' = saved[p_proc_ready]
                    /\ pcb' = [saved EXCEPT ![p_proc_ready] = NoContext]
      /\ esp > 1 => tss_esp0' = tss_esp0 /\ cpu' = cpu /\ pcb' = saved
  BY ReturnFrames
<1>2. /\ Live' = Live \ {esp} /\ Live \subseteq Level /\ esp \in Live
      /\ \A i \in Live' : kstack'[i] = kstack[i] /\ i < esp
      /\ esp > 1 <=> 1 \in Live'
  BY <1>1 DEF Live
<1>3. int_on' = TRUE
  BY DEF Return
<1>4. p_proc_ready \in Proc
  BY DEF TypeOK
<1>5. TypeOK'
  <2>1. pcb' \in [Proc -> Context] /\ cpu' \in Context
    BY <1>1, <1>4 DEF TypeOK, NoContext, Context
  <2>2. int_on' \in BOOLEAN
    BY <1>3
  <2>3. k_reenter' \in 0 .. WORD - 1 /\ esp' \in 0 .. MaxFrames
        /\ tss_esp0' \in Proc \union {NoProc}
    BY <1>1, <1>4, KernelAssumption DEF TypeOK
  <2>4. imr' \in SUBSET IRQ
    BY DEF TypeOK
  <2> QED
    BY <1>1, <2>1, <2>2, <2>3, <2>4 DEF TypeOK
<1>6. tss_esp0' \in Proc
  BY <1>1, <1>2, <1>4 DEF BootFirst, TypeOK
<1>7. FrameShape'
  BY <1>2 DEF FrameShape
<1>8. BootFirst' /\ InterruptsOff'
  BY <1>1, <1>2, <1>3, <1>6 DEF BootFirst, InterruptsOff
<1>9. HandlersInstalled'
  BY <1>2 DEF HandlersInstalled, Top
<1>10. ReenterCountsNesting'
  BY <1>1, <1>2 DEF ReenterCountsNesting
<1>11. MaskedIffInService'
  <2>1. \A i, j \in Live' :
          kstack'[i].vec = kstack'[j].vec => i = j \/ kstack'[i].vec = NoIrq
    BY <1>2 DEF MaskedIffInService
  <2>2. ASSUME NEW n \in IRQ
        PROVE  \/ n \in imr' <=> \E i \in Live' : kstack'[i].vec = n
               \/ n = KEYBOARD_IRQ /\ tty_pc' /= "loop"
    <3>1. CASE n = kstack[esp].vec
      <4>1. \A i \in Live' : kstack'[i].vec /= n
        BY <1>2, <3>1 DEF MaskedIffInService
      <4> QED
        BY <3>1, <4>1 DEF Top
    <3>2. CASE n /= kstack[esp].vec
      <4>1. (\E i \in Live' : kstack'[i].vec = n) <=> (\E i \in Live : kstack[i].vec = n)
        BY <1>2, <3>2
      <4>2. n \in imr' <=> n \in imr
        BY <3>2 DEF Top
      <4> QED
        BY <4>1, <4>2 DEF MaskedIffInService
    <3> QED
      BY <3>1, <3>2
  <2> QED
    BY <2>1, <2>2 DEF MaskedIffInService
<1>12. NoSwitchInsideKernel'
  <2>1. CASE esp = 1
    <3>1. Live' = {} /\ esp' = 0 /\ p_proc_ready' = tss_esp0'
      BY <1>1, <1>2, <2>1 DEF Live
    <3> QED
      BY <3>1 DEF NoSwitchInsideKernel
  <2>2. CASE esp > 1
    <3>1. kstack'[1] = kstack[1] /\ 1 \in Live /\ 1 \in Live'
      BY <1>2, <2>2
    <3>2. Switching' <=> Switching
      BY <3>1 DEF Switching
    <3>3. \A i \in Live' : kstack'[i] = kstack[i] /\ i \in Live
      BY <1>2
    <3> QED
      BY <1>1, <2>2, <3>1, <3>2, <3>3 DEF NoSwitchInsideKernel
  <2> QED
    BY <2>1, <2>2
<1>13. ContextIntact'
  <2>1. CASE esp = 1
    <3>1. esp' = 0 /\ tss_esp0' = p_proc_ready /\ p_proc_ready' = p_proc_ready
      BY <1>1, <2>1
    <3>2. cpu' = Own(p_proc_ready)
      BY <1>1, <1>4, <2>1
    <3>3. \A p \in Proc : p /= p_proc_ready => pcb'[p] = Own(p)
      BY <1>1, <1>4, <2>1
    <3> QED
      BY <3>1, <3>2, <3>3 DEF ContextIntact, Own
  <2>2. CASE esp > 1
    BY <1>1, <2>2 DEF ContextIntact
  <2> QED
    BY <2>1, <2>2
<1> QED
  BY <1>5, <1>7, <1>8, <1>9, <1>10, <1>11, <1>12, <1>13

LEMMA BootIInv == IInv /\ Boot => IInv'
<1> SUFFICES ASSUME IInv, Boot PROVE IInv'
  OBVIOUS
<1>1. esp \in Level /\ Return(pcb) /\ Top.pc = "boot"
      /\ pcb \in [Proc -> Context] /\ \A p \in Proc : pcb[p] = Own(p)
  BY DEF Boot, At, Top, IInv, TypeOK, ContextIntact
<1>2. imr' = imr \ {Top.vec} /\ UNCHANGED <<schedVars, irr, irq_table, tty_pc>>
  <2>1. Top.vec \notin IRQ /\ imr \subseteq IRQ
    BY <1>1 DEF IInv, TypeOK, FrameShape, Live, HandlerPc, Top
  <2>2. UNCHANGED <<schedVars, imr, irr, irq_table, tty_pc>>
    BY DEF Boot, picVars
  <2> QED
    BY <2>1, <2>2
<1> QED
  BY <1>1, <1>2, ExitStep

LEMMA IrqLeaveIInv == IInv /\ IrqLeave => IInv'
<1> SUFFICES ASSUME IInv, IrqLeave PROVE IInv'
  OBVIOUS
<1>1. esp \in Level /\ Return(pcb) /\ Top.pc = "leave"
      /\ pcb \in [Proc -> Context] /\ \A p \in Proc : pcb[p] = Own(p)
  BY DEF IrqLeave, At, Top, IInv, TypeOK, ContextIntact
<1>2. imr' = imr \ {Top.vec} /\ UNCHANGED <<schedVars, irr, irq_table, tty_pc>>
  BY DEF IrqLeave, Unmask
<1> QED
  BY <1>1, <1>2, ExitStep

LEMMA SysReturnIInv == IInv /\ SysReturn => IInv'
<1> SUFFICES ASSUME IInv, SysReturn PROVE IInv'
  OBVIOUS
<1> DEFINE saved == [pcb EXCEPT ![Top.esi].eax = Top.caller]
<1>1. esp \in Level /\ Return(saved) /\ Top.pc = "sysret"
      /\ pcb \in [Proc -> Context] /\ \A p \in Proc : pcb[p] = Own(p)
  BY DEF SysReturn, At, Top, IInv, TypeOK, ContextIntact
<1>2. Top.caller \in Proc /\ Top.esi = Top.caller
  BY <1>1 DEF IInv, FrameShape, NoSwitchInsideKernel, Live, Top, SyscallPc
<1>3. saved \in [Proc -> Context] /\ \A p \in Proc : saved[p] = Own(p)
  BY <1>1, <1>2 DEF Context, Own
<1>4. imr' = imr \ {Top.vec} /\ UNCHANGED <<schedVars, irr, irq_table, tty_pc>>
  BY <1>1 DEF SysReturn, picVars, IInv, TypeOK, FrameShape, Live, HandlerPc, Top
<1> HIDE DEF saved
<1> QED
  BY <1>1, <1>3, <1>4, ExitStep

-----------------------------------------------------------------------------
(* The theorems.                                                           *)

THEOREM NextIInv == IInv /\ [Next]_vars => IInv'
<1> SUFFICES ASSUME IInv, [Next]_vars PROVE IInv'
  OBVIOUS
<1>1. CASE Boot
  BY <1>1, BootIInv
<1>2. ASSUME NEW n \in IRQ, RaiseIrq(n) PROVE IInv'
  BY <1>2, RaiseIrqIInv
<1>3. ASSUME NEW n \in IRQ, IrqEnter(n) PROVE IInv'
  BY <1>3, IrqEnterIInv
<1>4. CASE KernelStep
  BY <1>4, DeviceHandlerIInv, ClockCountIInv, ClockTestIInv, ScheduleScanIInv,
     ScheduleRefillIInv, SchedulePickedIInv, IrqLeaveIInv, SysGetTicksIInv,
     SysWriteCharIInv, SysWriteDoneIInv, SysReturnIInv DEF KernelStep
<1>5. CASE Syscall
  <2>1. ASSUME SysEnter("get_ticks", 0) PROVE IInv'
    BY <2>1, SysEnterIInv, KernelAssumption
  <2>2. ASSUME NEW len \in 0 .. MAX_WRITE, SysEnter("write", len) PROVE IInv'
    BY <2>2, SysEnterIInv
  <2> QED
    BY <1>5, <2>1, <2>2 DEF Syscall
<1>6. CASE TtyStep
  BY <1>6, TtyStepIInv
<1>7. CASE UNCHANGED vars
  <2> USE <1>7 DEF vars, schedVars, picVars, IInv
  <2>1. Live' = Live
    BY DEF Live
  <2>2. TypeOK' /\ FrameShape' /\ BootFirst' /\ InterruptsOff' /\ HandlersInstalled'
    BY <2>1 DEF TypeOK, FrameShape, BootFirst, InterruptsOff, HandlersInstalled, InUser
  <2>3. ReenterCountsNesting' /\ MaskedIffInService' /\ NoSwitchInsideKernel' /\ ContextIntact'
    BY <2>1 DEF ReenterCountsNesting, MaskedIffInService, NoSwitchInsideKernel,
                ContextIntact, Switching
  <2> QED
    BY <2>2, <2>3
<1> QED
  BY <1>1, <1>2, <1>3, <1>4, <1>5, <1>6, <1>7 DEF Next

THEOREM Inductive == Spec => []IInv
BY InitIInv, NextIInv, PTL DEF Spec

\* Every variable keeps its type.
THEOREM TypeCorrect == Spec => []TypeOK
<1>1. IInv => TypeOK
  BY DEF IInv
<1> QED
  BY <1>1, Inductive, PTL

\* The counter k_reenter always tells the nesting, and only the outermost
\* entry returns through restart.
THEOREM NestingCounted == Spec => []ReenterCountsNesting
<1>1. IInv => ReenterCountsNesting
  BY DEF IInv
<1> QED
  BY <1>1, Inductive, PTL

\* A line is masked exactly while it is in service: handlers never overlap
\* themselves and no line stays masked.
THEOREM HandlersDoNotOverlap == Spec => []MaskedIffInService
<1>1. IInv => MaskedIffInService
  BY DEF IInv
<1> QED
  BY <1>1, Inductive, PTL

\* The kernel does not change the current process under a system call or a
\* nested interrupt.
THEOREM NoSwitchTheorem == Spec => []NoSwitchInsideKernel
<1>1. IInv => NoSwitchInsideKernel
  BY DEF IInv
<1> QED
  BY <1>1, Inductive, PTL

\* Every process is resumed with the registers it was interrupted with.
THEOREM ContextTheorem == Spec => []ContextIntact
<1>1. IInv => ContextIntact
  BY DEF IInv
<1> QED
  BY <1>1, Inductive, PTL

\* spurious_irq() is never called.
THEOREM NoSpuriousTheorem == Spec => []NoSpuriousDispatch
<1>1. IInv => NoSpuriousDispatch
  BY DEF IInv, NoSpuriousDispatch, FrameShape, HandlersInstalled, HandlerPc, TypeOK
<1> QED
  BY <1>1, Inductive, PTL
-----------------------------------------------------------------------------
(***************************************************************************)
(* The scheduler is fair: clock_handler() and schedule(), with everything  *)
(* that may interrupt them, implement FairShare, for every number of       *)
(* processes and all priorities.  To the invariant above it adds what the  *)
(* search of schedule() has found so far.                                  *)
(***************************************************************************)
\* The local variables of a handler that has not called schedule() yet.
Fresh ==
  \A i \in Live :
    kstack[i].pc \in {"call", "test"} => kstack[i].p = 0 /\ kstack[i].greatest = 0

Searching == esp > 0 /\ kstack[1].pc = "scan"

\* The search has seen the processes before p; greatest is what the best of
\* them has left, and p_proc_ready is that process, if greatest is not zero.
FoundSoFar(p, greatest) ==
  /\ \A q \in Proc : q < p => ticks_left[q] <= greatest
  /\ greatest > 0 => p_proc_ready < p /\ ticks_left[p_proc_ready] = greatest

Searched == Searching => FoundSoFar(kstack[1].p, kstack[1].greatest)

SInv ==
  /\ IInv
  /\ Fresh
  /\ Searched

-----------------------------------------------------------------------------

\* Only the outermost interrupt runs schedule().
LEMMA ChoosingIsSearching == IInv => (Choosing <=> Searching)
BY DEF IInv, TypeOK, FrameShape, Choosing, Searching, Live

\* What a process has left of its share.
LEMMA LeftOfShare ==
  ASSUME TypeOK, NEW q \in Proc
  PROVE  /\ FS!Left(q) = IF ticks_left[q] > 0 THEN ticks_left[q] ELSE 0
         /\ Used[q] = Priority[q] - (IF ticks_left[q] > 0 THEN ticks_left[q] ELSE 0)
BY KernelAssumption DEF TypeOK, FS!Left, Used

LEMMA GotoKeeps ==
  ASSUME TypeOK, esp \in Level, NEW w \in Pc, Goto(w)
  PROVE  /\ \A i \in Level : i /= esp => kstack'[i] = kstack[i]
         /\ kstack'[esp].pc = w
         /\ kstack'[esp].p = Top.p
         /\ kstack'[esp].greatest = Top.greatest
<1>1. Top \in Frame
  BY TopType
<1>2. kstack' = [kstack EXCEPT ![esp] = [Top EXCEPT !.pc = w]]
  BY DEF Goto, Become
<1>3. kstack'[esp] = [Top EXCEPT !.pc = w]
  BY <1>2 DEF TypeOK
<1> QED
  BY <1>1, <1>2, <1>3 DEF TypeOK, Frame

\* A step that leaves the ticks and p_proc_ready alone, and the frame of
\* schedule() if there is one, is invisible to FairShare.
LEMMA Steady ==
  ASSUME SInv, IInv', UNCHANGED <<ticks_left, p_proc_ready>>,
         Searching => esp' > 0,
         \A i \in Live' :
           \/ i \in Live /\ kstack'[i] = kstack[i]
           \/ /\ kstack'[i].pc /= "scan"
              /\ kstack'[i].pc \in {"call", "test"}
                   => kstack'[i].p = 0 /\ kstack'[i].greatest = 0
              /\ i \in Live => kstack[i].pc /= "scan"
  PROVE  SInv' /\ UNCHANGED FS!vars
<1>1. esp \in 0 .. MaxFrames /\ esp' \in 0 .. MaxFrames
  BY DEF SInv, IInv, TypeOK
<1>2. Searching' <=> Searching
  BY <1>1 DEF Searching, Live
<1>3. Searching => kstack'[1] = kstack[1]
  BY <1>1 DEF Searching, Live
<1>4. Fresh'
  BY DEF SInv, Fresh
<1>5. Searched'
  BY <1>2, <1>3 DEF SInv, Searched, FoundSoFar
<1>6. (Choosing <=> Searching) /\ (Choosing' <=> Searching')
  <2>1. (IInv => (Choosing <=> Searching))'
    BY ChoosingIsSearching, PTL
  <2> QED
    BY <2>1, ChoosingIsSearching DEF SInv
<1>7. Owner' = Owner /\ Used' = Used
  BY <1>2, <1>6 DEF Owner, Used
<1> QED
  BY <1>4, <1>5, <1>7 DEF SInv, FS!vars

\* Entries and exits.
LEMMA EnterSteady ==
  ASSUME SInv, IInv', NEW frame \in Frame, Save(frame),
         frame.pc /= "scan", frame.p = 0, frame.greatest = 0,
         UNCHANGED <<ticks_left, p_proc_ready>>
  PROVE  SInv' /\ UNCHANGED FS!vars
<1>1. esp \in 0 .. MaxFrames /\ esp' \in 0 .. MaxFrames
  BY DEF SInv, IInv, TypeOK
<1>2. k_reenter = (IF esp = 0 THEN WORD - 1 ELSE esp - 1)
  BY DEF SInv, IInv, ReenterCountsNesting
<1>3. esp' = IF Inc(k_reenter) = 0 THEN 1 ELSE esp + 1
  BY DEF Save
<1>4. esp < MaxFrames
  BY <1>1, <1>2, <1>3, KernelAssumption DEF Inc
<1>5. /\ esp' = esp + 1
      /\ \A i \in Live : kstack'[i] = kstack[i]
      /\ kstack'[esp + 1].pc = frame.pc
      /\ kstack'[esp + 1].p = frame.p
      /\ kstack'[esp + 1].greatest = frame.greatest
  BY <1>4, SaveFrames DEF SInv
<1> QED
  BY <1>5, <1>1, Steady DEF Live, Searching

LEMMA ExitSteady ==
  ASSUME SInv, IInv', esp \in Level, NEW saved \in [Proc -> Context], Return(saved),
         Top.pc /= "scan", UNCHANGED <<ticks_left, p_proc_ready>>
  PROVE  SInv' /\ UNCHANGED FS!vars
<1>1. esp' = esp - 1 /\ \A i \in Level : i < esp => kstack'[i] = kstack[i]
  BY ReturnFrames DEF SInv
<1> QED
  BY <1>1, Steady DEF Live, Searching, Top

LEMMA GotoSteady ==
  ASSUME SInv, IInv', esp \in Level, NEW w \in Pc \ {"scan", "call", "test"}, Goto(w),
         Top.pc /= "scan", UNCHANGED <<ticks_left, p_proc_ready, esp>>
  PROVE  SInv' /\ UNCHANGED FS!vars
<1>1. (\A i \in Level : i /= esp => kstack'[i] = kstack[i]) /\ kstack'[esp].pc = w
  BY GotoKeeps DEF SInv, IInv
<1> QED
  BY <1>1, Steady DEF Live, Searching, Top

-----------------------------------------------------------------------------
(* The steps of the scheduler.                                             *)

\* A tick: the owner of the processor is charged, unless it has nothing left.
LEMMA ClockCountShare ==
  ASSUME SInv, IInv', ClockCount
  PROVE  SInv' /\ [FS!Next]_(FS!vars)
<1> DEFINE me == p_proc_ready
<1>1. /\ esp \in Level /\ TypeOK /\ Top.pc = "call" /\ Goto("test") /\ "test" \in Pc
      /\ esp' = esp /\ p_proc_ready' = p_proc_ready
      /\ ticks_left' = [ticks_left EXCEPT ![me] = Charged(@)]
      /\ irq_table[Top.vec] = "clock_handler"
  BY DEF SInv, IInv, TypeOK, ClockCount, At, Top, Pc, kernelRest
<1>2. /\ \A i \in Level : i /= esp => kstack'[i] = kstack[i]
      /\ kstack'[esp].pc = "test"
      /\ kstack'[esp].p = Top.p
      /\ kstack'[esp].greatest = Top.greatest
  BY <1>1, GotoKeeps
<1>3. Top.vec = CLOCK_IRQ
  BY <1>1 DEF SInv, IInv, HandlersInstalled, FrameShape, Live, HandlerPc, Top
<1>4. ~Searching
  <2>1. esp > 1 => kstack[1].vec /= CLOCK_IRQ
    BY <1>1, <1>3 DEF SInv, IInv, MaskedIffInService, Live, Top
  <2> QED
    BY <1>1, <2>1 DEF Searching, SInv, IInv, FrameShape, Live, Top
<1>5. ~Searching'
  BY <1>1, <1>2, <1>4 DEF Searching
<1>6. SInv'
  <2>1. Top.p = 0 /\ Top.greatest = 0
    BY <1>1 DEF SInv, Fresh, Live, Top
  <2>2. Fresh'
    BY <1>1, <1>2, <2>1 DEF SInv, Fresh, Live
  <2> QED
    BY <1>5, <2>2 DEF SInv, Searched
<1>7. Owner = me /\ Owner' = me /\ me \in Proc
  <2>1. (IInv => (Choosing <=> Searching))'
    BY ChoosingIsSearching, PTL
  <2> QED
    BY <1>1, <1>4, <1>5, <2>1, ChoosingIsSearching DEF Owner, SInv, TypeOK
<1>8. /\ ticks_left \in [Proc -> Int] /\ Priority \in [Proc -> Nat] /\ MAX_OVERRUN \in Nat
      /\ ticks_left[me] \in Int
      /\ ticks_left'[me] = Charged(ticks_left[me])
      /\ \A q \in Proc : q /= me => ticks_left'[q] = ticks_left[q]
  BY <1>1, <1>7, KernelAssumption DEF TypeOK
<1>9. CASE ticks_left[me] > 0
  <2>1. ticks_left'[me] = ticks_left[me] - 1
    BY <1>8, <1>9 DEF Charged
  <2>2. Used' = [Used EXCEPT ![me] = @ + 1]
    <3>1. Used \in [Proc -> Int] /\ Used' \in [Proc -> Int]
      <4>1. \A q \in Proc : ticks_left[q] \in Int /\ ticks_left'[q] \in Int /\ Priority[q] \in Int
        BY <1>7, <1>8 DEF Charged
      <4> QED
        BY <4>1 DEF Used
    <3>2. Used'[me] = Used[me] + 1
      BY <1>7, <1>8, <1>9, <2>1 DEF Used
    <3>3. \A q \in Proc : q /= me => Used'[q] = Used[q]
      BY <1>8 DEF Used
    <3> HIDE DEF me
    <3> QED
      BY <1>7, <3>1, <3>2, <3>3
  <2>3. FS!Left(me) > 0
    BY <1>1, <1>7, <1>9, LeftOfShare
  <2> QED
    BY <1>6, <1>7, <2>2, <2>3 DEF FS!Next, FS!Charge
<1>10. CASE ~(ticks_left[me] > 0)
  <2>1. ~(ticks_left'[me] > 0)
    BY <1>8, <1>10 DEF Charged
  <2>2. Used' = Used
    BY <1>8, <1>10, <2>1 DEF Used
  <2> QED
    BY <1>6, <1>7, <2>2 DEF FS!vars
<1> QED
  BY <1>9, <1>10

\* clock_handler() calls schedule() when the owner has nothing left.
LEMMA ClockTestShare ==
  ASSUME SInv, IInv', ClockTest
  PROVE  SInv' /\ [FS!Next]_(FS!vars)
<1>1. /\ esp \in Level /\ TypeOK /\ Top.pc = "test" /\ p_proc_ready \in Proc
      /\ UNCHANGED <<ticks_left, p_proc_ready, esp>>
      /\ "scan" \in Pc /\ "leave" \in Pc
  BY DEF SInv, IInv, TypeOK, ClockTest, At, Top, Pc, kernelRest, schedVars
<1>2. CASE ~MustSchedule
  <2>1. Goto("leave") /\ "leave" \in Pc \ {"scan", "call", "test"}
    BY <1>1, <1>2 DEF ClockTest
  <2> QED
    BY <1>1, <2>1, GotoSteady
<1>3. CASE MustSchedule
  <2>1. Goto("scan") /\ esp = 1 /\ ticks_left[p_proc_ready] <= 0
    BY <1>1, <1>3, KernelAssumption DEF ClockTest, MustSchedule, SInv, IInv, ReenterCountsNesting
  <2>2. /\ kstack'[1].pc = "scan" /\ kstack'[1].p = Top.p
        /\ kstack'[1].greatest = Top.greatest
    BY <1>1, <2>1, GotoKeeps
  <2>3. Top.p = 0 /\ Top.greatest = 0
    BY <1>1 DEF SInv, Fresh, Live, Top
  <2>4. ~Searching /\ Searching'
    BY <1>1, <2>1, <2>2 DEF Searching, Top
  <2>5. Fresh'
    BY <1>1, <2>1, <2>2 DEF Fresh, Live
  <2>6. Searched'
    BY <2>2, <2>3 DEF Searched, FoundSoFar
  <2>7. Owner = p_proc_ready /\ Owner' = NoProc
    <3>1. (IInv => (Choosing <=> Searching))'
      BY ChoosingIsSearching, PTL
    <3> QED
      BY <2>4, <3>1, ChoosingIsSearching DEF Owner, SInv
  <2>8. FS!Left(p_proc_ready) = 0
    BY <1>1, <2>1, LeftOfShare DEF TypeOK
  <2>9. Used' = Used
    BY <1>1 DEF Used
  <2> QED
    BY <1>1, <2>5, <2>6, <2>7, <2>8, <2>9 DEF SInv, FS!Next, FS!Deschedule
<1> QED
  BY <1>2, <1>3

\* What an iteration of the search writes into its frame.
LEMMA SearchFrame ==
  ASSUME NEW f \in Frame, NEW x, NEW y
  PROVE  /\ [f EXCEPT !.p = x, !.greatest = y].pc = f.pc
         /\ [f EXCEPT !.p = x, !.greatest = y].p = x
         /\ [f EXCEPT !.p = x, !.greatest = y].greatest = y
         /\ [f EXCEPT !.p = x].pc = f.pc
         /\ [f EXCEPT !.p = x].p = x
         /\ [f EXCEPT !.p = x].greatest = f.greatest
  BY DEF Frame

\* One iteration of the search: it has seen one process more.
LEMMA ScheduleScanShare ==
  ASSUME SInv, IInv', ScheduleScan
  PROVE  SInv' /\ UNCHANGED FS!vars
<1>1. /\ esp \in Level /\ TypeOK /\ Top.pc = "scan"
      /\ ticks_left' = ticks_left /\ esp' = esp
  BY DEF SInv, IInv, TypeOK, ScheduleScan, At, Top, kernelRest
<1>2. esp = 1 /\ Top = kstack[1] /\ Searching
  BY <1>1 DEF SInv, IInv, FrameShape, Live, Top, Searching
<1>3. Top \in Frame /\ Top.p \in Proc /\ Top.greatest \in Nat
  BY <1>1, TopType, KernelAssumption DEF ScheduleScan
<1>4. FoundSoFar(Top.p, Top.greatest)
  BY <1>2 DEF SInv, Searched
<1>5. /\ kstack'[1].pc = "scan"
      /\ kstack'[1].p = Top.p + 1
      /\ kstack'[1].greatest = IF Better(Top.p, Top.greatest) THEN ticks_left[Top.p]
                                                             ELSE Top.greatest
      /\ p_proc_ready' = IF Better(Top.p, Top.greatest) THEN Top.p ELSE p_proc_ready
  <2>1. CASE Better(Top.p, Top.greatest)
    <3>1. /\ kstack' = [kstack EXCEPT ![1] =
                           [Top EXCEPT !.p = Top.p + 1, !.greatest = ticks_left[Top.p]]]
          /\ p_proc_ready' = Top.p
      BY <1>2, <2>1 DEF ScheduleScan, Become, Searching
    <3>2. kstack'[1] = [Top EXCEPT !.p = Top.p + 1, !.greatest = ticks_left[Top.p]]
      BY <1>1, <3>1 DEF TypeOK
    <3> DEFINE frame == [Top EXCEPT !.p = Top.p + 1, !.greatest = ticks_left[Top.p]]
    <3>3. frame.pc = Top.pc /\ frame.p = Top.p + 1 /\ frame.greatest = ticks_left[Top.p]
      BY <1>3, SearchFrame
    <3>4. kstack'[1] = frame
      BY <3>2
    <3> HIDE DEF frame
    <3> QED
      BY <1>1, <2>1, <3>1, <3>3, <3>4
  <2>2. CASE ~Better(Top.p, Top.greatest)
    <3>1. /\ kstack' = [kstack EXCEPT ![1] = [Top EXCEPT !.p = Top.p + 1]]
          /\ p_proc_ready' = p_proc_ready
      BY <1>2, <2>2 DEF ScheduleScan, Become, Searching
    <3>2. kstack'[1] = [Top EXCEPT !.p = Top.p + 1]
      BY <1>1, <3>1 DEF TypeOK
    <3> DEFINE frame == [Top EXCEPT !.p = Top.p + 1]
    <3>3. frame.pc = Top.pc /\ frame.p = Top.p + 1 /\ frame.greatest = Top.greatest
      BY <1>3, SearchFrame
    <3>4. kstack'[1] = frame
      BY <3>2
    <3> HIDE DEF frame
    <3> QED
      BY <1>1, <2>2, <3>1, <3>3, <3>4
  <2> QED
    BY <2>1, <2>2
<1>6. Searching'
  BY <1>1, <1>2, <1>5 DEF Searching
<1>7. Searched'
  <2>1. ticks_left \in [Proc -> Int] /\ p_proc_ready \in Proc /\ Top.p \in Int
    BY <1>1, <1>3 DEF TypeOK
  <2>2. \A q \in Proc : q < Top.p + 1 => q < Top.p \/ q = Top.p
    BY <1>3
  <2>3. CASE Better(Top.p, Top.greatest)
    <3>1. \A q \in Proc : q < kstack'[1].p => ticks_left'[q] <= kstack'[1].greatest
      BY <1>1, <1>3, <1>4, <1>5, <2>1, <2>2, <2>3 DEF Better, FoundSoFar
    <3>2. p_proc_ready' < kstack'[1].p /\ ticks_left'[p_proc_ready'] = kstack'[1].greatest
      BY <1>1, <1>3, <1>5, <2>1, <2>3
    <3> QED
      BY <3>1, <3>2 DEF Searched, FoundSoFar
  <2>4. CASE ~Better(Top.p, Top.greatest)
    <3>1. \A q \in Proc : q < kstack'[1].p => ticks_left'[q] <= kstack'[1].greatest
      BY <1>1, <1>3, <1>4, <1>5, <2>1, <2>2, <2>4 DEF Better, FoundSoFar
    <3>2. kstack'[1].greatest > 0 =>
            p_proc_ready' < kstack'[1].p /\ ticks_left'[p_proc_ready'] = kstack'[1].greatest
      BY <1>1, <1>3, <1>4, <1>5, <2>1, <2>4 DEF FoundSoFar
    <3> QED
      BY <3>1, <3>2 DEF Searched, FoundSoFar
  <2> QED
    BY <2>3, <2>4
<1>8. Fresh'
  BY <1>1, <1>2, <1>5 DEF Fresh, Live
<1>9. Owner = NoProc /\ Owner' = NoProc
  <2>1. (IInv => (Choosing <=> Searching))'
    BY ChoosingIsSearching, PTL
  <2> QED
    BY <1>2, <1>6, <2>1, ChoosingIsSearching DEF Owner, SInv
<1>10. Used' = Used
  BY <1>1 DEF Used
<1> QED
  BY <1>7, <1>8, <1>9, <1>10 DEF SInv, FS!vars

\* The search found nobody with a tick left: everybody has used its share.
LEMMA ScheduleRefillShare ==
  ASSUME SInv, IInv', ScheduleRefill
  PROVE  SInv' /\ FS!Next
<1>1. /\ esp \in Level /\ TypeOK /\ Top.pc = "scan"
      /\ Top.p = NR_TASKS /\ Top.greatest = 0
      /\ ticks_left' = Priority /\ esp' = esp /\ p_proc_ready' = p_proc_ready
  BY DEF SInv, IInv, TypeOK, ScheduleRefill, At, Top, kernelRest
<1>2. esp = 1 /\ Top = kstack[1] /\ Searching
  BY <1>1 DEF SInv, IInv, FrameShape, Live, Top, Searching
<1>3. kstack'[1].pc = "scan" /\ kstack'[1].p = 0 /\ kstack'[1].greatest = 0
  BY <1>1, <1>2, TopType DEF ScheduleRefill, Become, TypeOK, Frame
<1>4. Searching'
  BY <1>1, <1>2, <1>3 DEF Searching
<1>5. Searched' /\ Fresh'
  BY <1>1, <1>2, <1>3 DEF Searched, FoundSoFar, Fresh, Live
<1>6. Owner = NoProc /\ Owner' = NoProc
  <2>1. (IInv => (Choosing <=> Searching))'
    BY ChoosingIsSearching, PTL
  <2> QED
    BY <1>2, <1>4, <2>1, ChoosingIsSearching DEF Owner, SInv
<1>7. \A q \in Proc : FS!Left(q) = 0
  <2>1. FoundSoFar(NR_TASKS, 0)
    BY <1>1, <1>2 DEF SInv, Searched
  <2>2. \A q \in Proc : ticks_left[q] <= 0
    BY <2>1, KernelAssumption DEF FoundSoFar
  <2>3. \A q \in Proc : ~(ticks_left[q] > 0)
    BY <1>1, <2>2 DEF TypeOK
  <2> QED
    BY <1>1, <2>3, LeftOfShare
<1>8. Used' = [q \in Proc |-> 0]
  BY <1>1, KernelAssumption DEF Used
<1> QED
  BY <1>5, <1>6, <1>7, <1>8 DEF SInv, FS!Next, FS!NewRound

\* The search found a process, and nobody has more left than it.
LEMMA SchedulePickedShare ==
  ASSUME SInv, IInv', SchedulePicked
  PROVE  SInv' /\ FS!Next
<1>1. /\ esp \in Level /\ TypeOK /\ Top.pc = "scan"
      /\ Top.p = NR_TASKS /\ Top.greatest /= 0 /\ p_proc_ready \in Proc
      /\ ticks_left' = ticks_left /\ esp' = esp /\ p_proc_ready' = p_proc_ready
  BY DEF SInv, IInv, TypeOK, SchedulePicked, At, Top, kernelRest, schedVars
<1>2. esp = 1 /\ Top = kstack[1] /\ Searching /\ Top.greatest \in Nat
  BY <1>1, TopType DEF SInv, IInv, FrameShape, Live, Top, Searching
<1>3. kstack'[1].pc = "leave"
  BY <1>1, <1>2, TopType DEF SchedulePicked, Become, TypeOK, Frame
<1>4. ~Searching'
  BY <1>1, <1>2, <1>3 DEF Searching
<1>5. Searched' /\ Fresh'
  BY <1>1, <1>2, <1>3, <1>4 DEF Searched, Fresh, Live
<1>6. Owner = NoProc /\ Owner' = p_proc_ready
  <2>1. (IInv => (Choosing <=> Searching))'
    BY ChoosingIsSearching, PTL
  <2> QED
    BY <1>1, <1>2, <1>4, <2>1, ChoosingIsSearching DEF Owner, SInv
<1>7. /\ ticks_left[p_proc_ready] > 0
      /\ \A q \in Proc : ticks_left[q] <= ticks_left[p_proc_ready]
  <2>1. FoundSoFar(NR_TASKS, Top.greatest)
    BY <1>1, <1>2 DEF SInv, Searched
  <2>2. \A q \in Proc : ticks_left[q] <= Top.greatest
    BY <2>1, KernelAssumption DEF FoundSoFar
  <2>3. Top.greatest > 0
    BY <1>1, <1>2
  <2>4. ticks_left[p_proc_ready] = Top.greatest
    BY <2>1, <2>3 DEF FoundSoFar
  <2> QED
    BY <2>2, <2>3, <2>4
<1>8. /\ FS!Left(p_proc_ready) > 0
      /\ \A q \in Proc : FS!Left(q) <= FS!Left(p_proc_ready)
  BY SMTT(30), <1>1, <1>7, LeftOfShare DEF TypeOK
<1>9. Used' = Used
  BY <1>1 DEF Used
<1> QED
  BY <1>1, <1>5, <1>6, <1>8, <1>9 DEF SInv, FS!Next, FS!Dispatch

-----------------------------------------------------------------------------
(* Everything else.                                                        *)

LEMMA KernelStepShare ==
  ASSUME SInv, IInv', KernelStep
  PROVE  SInv' /\ [FS!Next]_(FS!vars)
<1> USE DEF SInv, IInv, TypeOK, At, Top
<1>1. CASE DeviceHandler
  <2>1. /\ esp \in Level /\ Goto("leave") /\ Top.pc /= "scan"
        /\ "leave" \in Pc \ {"scan", "call", "test"}
        /\ UNCHANGED <<ticks_left, p_proc_ready, esp>>
    BY <1>1 DEF DeviceHandler, kernelRest, schedVars, Pc
  <2> QED
    BY <2>1, GotoSteady
<1>2. CASE SysGetTicks \/ SysWriteDone
  <2>1. /\ esp \in Level /\ Goto("sysret") /\ Top.pc /= "scan"
        /\ "sysret" \in Pc \ {"scan", "call", "test"}
        /\ UNCHANGED <<ticks_left, p_proc_ready, esp>>
    BY <1>2 DEF SysGetTicks, SysWriteDone, kernelRest, schedVars, Pc
  <2> QED
    BY <2>1, GotoSteady
<1>3. CASE SysWriteChar
  <2>1. /\ esp \in Level /\ Top.pc = "write"
        /\ UNCHANGED <<ticks_left, p_proc_ready, esp>>
        /\ Become([Top EXCEPT !.len = Top.len - 1])
    BY <1>3 DEF SysWriteChar, kernelRest, schedVars
  <2>2. /\ \A i \in Level : i /= esp => kstack'[i] = kstack[i]
        /\ kstack'[esp].pc = "write"
    BY <2>1, TopType DEF Become, Frame
  <2> QED
    BY <2>1, <2>2, Steady DEF Live, Searching
<1>4. CASE IrqLeave
  <2>1. /\ esp \in Level /\ Return(pcb) /\ Top.pc /= "scan" /\ pcb \in [Proc -> Context]
        /\ UNCHANGED <<ticks_left, p_proc_ready>>
    BY <1>4 DEF IrqLeave, schedVars
  <2> QED
    BY <2>1, ExitSteady
<1>5. CASE SysReturn
  <2> DEFINE saved == [pcb EXCEPT ![Top.esi].eax = Top.caller]
  <2>1. /\ esp \in Level /\ Return(saved) /\ Top.pc = "sysret"
        /\ UNCHANGED <<ticks_left, p_proc_ready>>
    BY <1>5 DEF SysReturn, schedVars
  <2>2. Top.caller \in Proc /\ Top.esi = Top.caller
    BY SMTT(30), <2>1 DEF FrameShape, NoSwitchInsideKernel, Live, SyscallPc
  <2>3. saved \in [Proc -> Context]
    BY <2>2 DEF Context
  <2> HIDE DEF saved
  <2> QED
    BY <2>1, <2>3, ExitSteady
<1> QED
  BY <1>1, <1>2, <1>3, <1>4, <1>5, ClockCountShare, ClockTestShare, ScheduleScanShare,
     ScheduleRefillShare, SchedulePickedShare DEF KernelStep

\* Entries through the IDT, interrupts and system calls.
LEMMA EntryShare ==
  ASSUME SInv, IInv', Syscall \/ \E n \in IRQ : IrqEnter(n)
  PROVE  SInv' /\ UNCHANGED FS!vars
<1>1. ASSUME NEW n \in IRQ, IrqEnter(n)
      PROVE  SInv' /\ UNCHANGED FS!vars
  <2> DEFINE frame == [NoFrame EXCEPT !.vec = n, !.pc = "call"]
  <2>1. frame \in Frame /\ frame.pc = "call" /\ frame.p = 0 /\ frame.greatest = 0
    BY NoFrameType DEF Frame, Pc, NoFrame
  <2>2. Save(frame) /\ UNCHANGED <<ticks_left, p_proc_ready>>
    BY <1>1 DEF IrqEnter, schedVars
  <2> HIDE DEF frame
  <2> QED
    BY <2>1, <2>2, EnterSteady
<1>2. ASSUME NEW call \in {"get_ticks", "write"}, NEW len \in 0 .. MAX_WRITE,
             SysEnter(call, len)
      PROVE  SInv' /\ UNCHANGED FS!vars
  <2> DEFINE frame == [NoFrame EXCEPT !.pc = call, !.len = len, !.caller = cpu.regs,
                                      !.p_proc = p_proc_ready]
  <2>1. cpu.regs \in Proc \union {NoProc} /\ p_proc_ready \in Proc
    BY DEF SInv, IInv, TypeOK, Context
  <2>2. frame \in Frame
    BY <2>1, NoFrameType DEF Frame, Pc
  <2>3. frame.pc = call /\ frame.p = 0 /\ frame.greatest = 0
    BY <2>2 DEF NoFrame
  <2>4. Save(frame) /\ UNCHANGED <<ticks_left, p_proc_ready>>
    BY <1>2 DEF SysEnter, schedVars
  <2> HIDE DEF frame
  <2> QED
    BY <2>2, <2>3, <2>4, EnterSteady
<1>3. 0 \in 0 .. MAX_WRITE
  BY KernelAssumption
<1> QED
  BY <1>1, <1>2, <1>3 DEF Syscall

LEMMA OutsideShare ==
  ASSUME SInv, IInv',
         \/ Boot
         \/ TtyStep
         \/ \E n \in IRQ : RaiseIrq(n)
         \/ UNCHANGED vars
  PROVE  SInv' /\ UNCHANGED FS!vars
<1>1. CASE Boot
  <2>1. /\ esp \in Level /\ Return(pcb) /\ Top.pc /= "scan" /\ pcb \in [Proc -> Context]
        /\ UNCHANGED <<ticks_left, p_proc_ready>>
    BY <1>1 DEF SInv, IInv, TypeOK, Boot, At, Top, schedVars
  <2> QED
    BY <2>1, ExitSteady
<1>2. CASE TtyStep \/ (\E n \in IRQ : RaiseIrq(n)) \/ UNCHANGED vars
  <2>1. UNCHANGED <<ticks_left, p_proc_ready, kstack, esp>>
    BY <1>2 DEF TtyStep, TtyDisableIrq, TtyInstall, TtyEnableIrq, TtyDisableInt,
       TtyEnableInt, RaiseIrq, ttyRest, vars, schedVars
  <2> QED
    BY <2>1, Steady DEF Live, Searching
<1> QED
  BY <1>1, <1>2

-----------------------------------------------------------------------------
(* The theorems.                                                           *)

LEMMA InitShare == Init => SInv /\ FS!Init
<1> SUFFICES ASSUME Init PROVE SInv /\ FS!Init
  OBVIOUS
<1>1. IInv
  BY InitIInv
<1>2. esp = 1 /\ kstack[1].pc = "boot" /\ p_proc_ready \in Proc /\ ticks_left = Priority
  BY BootFrameType, KernelAssumption DEF Init
<1>3. ~Searching /\ Fresh
  BY <1>2 DEF Searching, Fresh, Live
<1>4. Owner \in Proc
  BY <1>1, <1>2, <1>3, ChoosingIsSearching DEF Owner
<1>5. Used = [q \in Proc |-> 0]
  BY <1>2, KernelAssumption DEF Used
<1> QED
  BY <1>1, <1>3, <1>4, <1>5 DEF SInv, Searched, FS!Init

\* What the search of schedule() has found so far is right at every step.
THEOREM SearchTheorem == Spec => []SInv
<1>1. SInv /\ [Next]_vars => SInv'
  <2> SUFFICES ASSUME SInv, [Next]_vars PROVE SInv'
    OBVIOUS
  <2>1. IInv'
    BY NextIInv DEF SInv
  <2> QED
    BY <2>1, KernelStepShare, EntryShare, OutsideShare DEF Next
<1>2. Init => SInv
  BY InitShare
<1> QED
  BY <1>1, <1>2, PTL DEF Spec

\* The scheduler is fair: clock_handler() and schedule() implement FairShare,
\* whatever interrupts them.
THEOREM FairShareTheorem == Spec => ImplementsFairShare
<1>1. SInv /\ SInv' /\ [Next]_vars => [FS!Next]_(FS!vars)
  <2> SUFFICES ASSUME SInv, SInv', [Next]_vars PROVE [FS!Next]_(FS!vars)
    OBVIOUS
  <2>1. IInv'
    BY DEF SInv
  <2> QED
    BY <2>1, KernelStepShare, EntryShare, OutsideShare DEF Next
<1>2. Init => FS!Init
  BY InitShare
<1> QED
  BY <1>1, <1>2, SearchTheorem, PTL DEF Spec, ImplementsFairShare, FS!Spec
=============================================================================
