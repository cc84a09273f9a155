-------------------------- MODULE UserProcessProofs --------------------------
(***************************************************************************)
(* Theorems about UserProcess: the start-up code hands over what restart   *)
(* and Kernel expect, for every number of processes and every task table;  *)
(* the TTY task has set the consoles before anybody writes, for every      *)
(* number of consoles; milli_delay() never returns early, however often    *)
(* the counter wraps, and not later than the turns of the others take; the *)
(* numbers that TestB prints are complete and in order.                    *)
(***************************************************************************)
EXTENDS UserProcess, TLAPS, SequenceTheorems, WellFoundedInduction

\* Where the stack of process p begins; Top[NR_TASKS] is what is left over.
IsTop(top) ==
  /\ top \in [0 .. NR_TASKS -> 0 .. STACK_SIZE_TOTAL]
  /\ top[0] = STACK_SIZE_TOTAL
  /\ \A p \in Proc : top[p + 1] = top[p] - task_table[p].stack_size

Top == CHOOSE top : IsTop(top)

LEMMA TopExists == IsTop(Top)
BY StartupAssumption DEF IsTop, Top

-----------------------------------------------------------------------------
(* What the start-up code has established at each of its functions.        *)

Started == {"restart", "run", "halted"}
Label   == {"_start", "cstart", "init_8259A", "init_idt", "init_tss", "init_ldt",
            "lgdt", "happy_main", "init_proc"} \union Started

LoaderTable == [table |-> "loader", limit |-> GdtLen]

KernelSegments ==
  /\ gdt[INDEX_FLAT_C]  = Desc("code", PRIVILEGE_KRNL, NoProc)
  /\ gdt[INDEX_FLAT_RW] = Desc("data", PRIVILEGE_KRNL, NoProc)
  /\ gdt[INDEX_VIDEO]   = Desc("video", PRIVILEGE_USER, NoProc)

LdtDescribed(p) == gdt[INDEX_LDT_FIRST + p] = Desc("ldt", PRIVILEGE_KRNL, p)

TablesInv ==
  /\ pc \in Label
  /\ DOMAIN gdt = 0 .. GDT_SIZE - 1
  /\ pc = "_start" => gdtr = LoaderTable
  /\ pc = "cstart" => gdt_ptr = LoaderTable
  /\ pc \notin {"_start", "cstart"} => gdt_ptr.table = "kernel" /\ KernelSegments
  /\ pc = "init_ldt" => n \in Proc /\ \A p \in Proc : p < n => LdtDescribed(p)
  /\ pc \in {"lgdt", "happy_main", "init_proc"} \union Started =>
       \A p \in Proc : LdtDescribed(p)
  /\ pc \in {"happy_main", "init_proc"} \union Started => gdtr.table = "kernel"

GatesInv ==
  pc \notin {"_start", "cstart", "init_8259A", "init_idt"} =>
    idt = [v \in Vector |-> [entry |-> v, dpl |-> GateDpl(v)]]

LinesInv ==
  /\ pc \in {"init_idt", "init_tss", "init_ldt", "lgdt", "happy_main"} =>
       /\ imr = Line
       /\ irq_table = [l \in Line |-> "spurious_irq"]
  /\ pc \in {"init_proc"} \union Started =>
       /\ imr = Line \ {CLOCK_IRQ}
       /\ irq_table = [l \in Line |-> IF l = CLOCK_IRQ THEN "clock_handler" ELSE "spurious_irq"]
  /\ pc \in {"init_proc", "restart"} => k_reenter = 0 /\ ticks = 0
  /\ pc = "restart" => p_proc_ready = 0
  /\ pc \in {"init_ldt", "lgdt", "happy_main", "init_proc"} \union Started => tss_esp0 = NoProc

-----------------------------------------------------------------------------
(* The PCBs that the loop of happy_main() has filled.                      *)

Filled(p) == pc \in Started \/ (pc = "init_proc" /\ p < n)

Bottom(p) == proc_table[p].esp - task_table[p].stack_size

PcbFilled(p) ==
  LET rank == Privilege(task_table[p].type)
      pcb  == proc_table[p]
  IN  /\ pcb.ticks = task_table[p].priority
      /\ pcb.ldt_selector = Selector(INDEX_LDT_FIRST + p, "gdt", PRIVILEGE_KRNL)
      /\ pcb.ldts[1] = Desc("code", rank, NoProc)
      /\ pcb.ldts[2] = Desc("data", rank, NoProc)
      /\ pcb.cs = Selector(0, "ldt", rank)
      /\ pcb.ds = Selector(1, "ldt", rank)
      /\ pcb.gs = Selector(INDEX_VIDEO, "gdt", rank)
      /\ pcb.eip = task_table[p].initial_eip
      /\ pcb.iopl = Iopl(task_table[p].type)
      /\ pcb.nr_tty = 0
      /\ pcb.esp \in Int /\ pcb.esp <= STACK_SIZE_TOTAL /\ Bottom(p) >= 0

\* The stacks that are handed out lie above each other and above p_task_stack.
PcbInv ==
  /\ DOMAIN proc_table = Proc
  /\ \A p \in Proc : Filled(p) => PcbFilled(p)
  /\ \A p, q \in Proc : Filled(p) /\ Filled(q) /\ p < q => proc_table[q].esp <= Bottom(p)
  /\ pc = "init_proc" =>
       /\ n \in Proc
       /\ p_task_stack = Top[n]
       /\ \A p \in Proc : p < n => p_task_stack <= Bottom(p)

StartInv == TablesInv /\ GatesInv /\ LinesInv /\ PcbInv

-----------------------------------------------------------------------------
(* StartInv is inductive.                                                  *)

USE DEF CLOCK_IRQ, KEYBOARD_IRQ, PRIVILEGE_KRNL, PRIVILEGE_TASK, PRIVILEGE_USER,
        INDEX_FLAT_C, INDEX_FLAT_RW, INDEX_VIDEO, INDEX_TSS, INDEX_LDT_FIRST, NoProc

LEMMA InitStart == Init => StartInv
<1> SUFFICES ASSUME Init PROVE StartInv
  OBVIOUS
<1>1. TablesInv
  BY DEF Init, StartupInit, TablesInv, Label, LoaderTable, Started
<1>2. GatesInv /\ LinesInv
  BY DEF Init, StartupInit, GatesInv, LinesInv, Started
<1>3. PcbInv
  BY DEF Init, StartupInit, PcbInv, Filled, Started
<1> QED
  BY <1>1, <1>2, <1>3 DEF StartInv

LEMMA SgdtStart == StartInv /\ Sgdt => StartInv'
<1> SUFFICES ASSUME StartInv, Sgdt PROVE StartInv'
  OBVIOUS
<1>1. TablesInv'
  BY DEF StartInv, TablesInv, Sgdt, Label, LoaderTable, Started
<1>2. GatesInv' /\ LinesInv'
  BY DEF StartInv, GatesInv, LinesInv, Sgdt, Started
<1>3. PcbInv'
  BY DEF StartInv, PcbInv, Sgdt, Filled, Started, globals
<1> QED
  BY <1>1, <1>2, <1>3 DEF StartInv

LEMMA CStartStart == StartInv /\ CStart => StartInv'
<1> SUFFICES ASSUME StartInv, CStart PROVE StartInv'
  OBVIOUS
<1>1. Copied(gdt_ptr.limit) = 4
  BY DEF StartInv, TablesInv, CStart, LoaderTable, Copied, GdtLen, SizeOfDescriptor
<1>2. GDT_SIZE \in Nat /\ GDT_SIZE > 5
  BY StartupAssumption
<1>3. KernelSegments'
  <2>1. \A k \in 1 .. 3 : gdt'[k] = LoaderGdt[k]
    BY <1>1, <1>2 DEF StartInv, TablesInv, CStart
  <2> QED
    BY <2>1 DEF KernelSegments, LoaderGdt, Desc
<1>4. TablesInv'
  BY <1>3 DEF StartInv, TablesInv, CStart, Label, Started
<1>5. GatesInv' /\ LinesInv'
  BY DEF StartInv, GatesInv, LinesInv, CStart, Started
<1>6. PcbInv'
  BY DEF StartInv, PcbInv, CStart, Filled, Started, globals
<1> QED
  BY <1>4, <1>5, <1>6 DEF StartInv

LEMMA InitIdtStart == StartInv /\ (Init8259A \/ InitIdt) => StartInv'
<1> SUFFICES ASSUME StartInv, Init8259A \/ InitIdt PROVE StartInv'
  OBVIOUS
<1>1. TablesInv'
  BY DEF StartInv, TablesInv, Init8259A, InitIdt, Label, Started, KernelSegments, tables
<1>2. GatesInv'
  BY DEF StartInv, GatesInv, TablesInv, Init8259A, InitIdt
<1>3. LinesInv'
  BY DEF StartInv, LinesInv, Init8259A, InitIdt, Started, lines
<1>4. PcbInv'
  BY DEF StartInv, PcbInv, Init8259A, InitIdt, Filled, Started, globals
<1> QED
  BY <1>1, <1>2, <1>3, <1>4 DEF StartInv

LEMMA InitTssStart == StartInv /\ InitTss => StartInv'
<1> SUFFICES ASSUME StartInv, InitTss PROVE StartInv'
  OBVIOUS
<1>1. 0 \in Proc /\ ~(\E p \in Proc : p < 0)
  BY StartupAssumption DEF Proc
<1>2. TablesInv'
  BY <1>1, StartupAssumption DEF StartInv, TablesInv, InitTss, Label, Started, KernelSegments
<1>3. GatesInv' /\ LinesInv'
  BY DEF StartInv, GatesInv, LinesInv, InitTss, Started, lines
<1>4. PcbInv'
  BY DEF StartInv, PcbInv, InitTss, Filled, Started, globals
<1> QED
  BY <1>2, <1>3, <1>4 DEF StartInv

LEMMA InitLdtStart == StartInv /\ InitLdt => StartInv'
<1> SUFFICES ASSUME StartInv, InitLdt PROVE StartInv'
  OBVIOUS
<1>1. /\ n \in Proc /\ pc = "init_ldt" /\ n' = n + 1
      /\ \A p \in Proc : p < n => LdtDescribed(p)
      /\ KernelSegments /\ DOMAIN gdt = 0 .. GDT_SIZE - 1
  BY DEF StartInv, TablesInv, InitLdt
<1>2. KernelSegments' /\ \A p \in Proc : p < n + 1 => LdtDescribed(p)'
  BY <1>1, StartupAssumption DEF InitLdt, KernelSegments, LdtDescribed, Proc
<1>3. n + 1 \notin Proc => \A p \in Proc : p < n + 1
  BY <1>1, StartupAssumption DEF Proc
<1>4. TablesInv'
  BY <1>1, <1>2, <1>3 DEF StartInv, TablesInv, InitLdt, Label, Started
<1>5. GatesInv' /\ LinesInv'
  BY DEF StartInv, GatesInv, LinesInv, InitLdt, Started, lines
<1>6. PcbInv'
  BY DEF StartInv, PcbInv, InitLdt, Filled, Started, globals
<1> QED
  BY <1>4, <1>5, <1>6 DEF StartInv

LEMMA LgdtStart == StartInv /\ Lgdt => StartInv'
<1> SUFFICES ASSUME StartInv, Lgdt PROVE StartInv'
  OBVIOUS
<1>1. TablesInv'
  BY DEF StartInv, TablesInv, Lgdt, Label, Started, KernelSegments, LdtDescribed
<1>2. GatesInv' /\ LinesInv'
  BY DEF StartInv, GatesInv, LinesInv, Lgdt, Started, lines
<1>3. PcbInv'
  BY DEF StartInv, PcbInv, Lgdt, Filled, Started, globals
<1> QED
  BY <1>1, <1>2, <1>3 DEF StartInv

LEMMA HappyMainStart == StartInv /\ HappyMain => StartInv'
<1> SUFFICES ASSUME StartInv, HappyMain PROVE StartInv'
  OBVIOUS
<1>1. 0 \in Proc /\ ~(\E p \in Proc : p < 0)
  BY StartupAssumption DEF Proc
<1>2. TablesInv'
  BY DEF StartInv, TablesInv, HappyMain, Label, Started, KernelSegments, LdtDescribed, tables
<1>3. GatesInv'
  BY DEF StartInv, GatesInv, HappyMain, tables
<1>4. LinesInv'
  BY StartupAssumption DEF StartInv, LinesInv, HappyMain, Started, Line, tables
<1>5. PcbInv'
  <2>1. Top[0] = STACK_SIZE_TOTAL
    BY TopExists DEF IsTop
  <2> QED
    BY <1>1, <2>1 DEF StartInv, PcbInv, HappyMain, Filled, Started
<1> QED
  BY <1>2, <1>3, <1>4, <1>5 DEF StartInv

\* What happy_main() puts in PCB m.
LEMMA PcbOfLoop ==
  ASSUME StartInv, InitProc, NEW m \in Proc, m = n
  PROVE  /\ \A p \in Proc \ {m} : proc_table'[p] = proc_table[p]
         /\ DOMAIN proc_table' = Proc
         /\ PcbFilled(m)'
         /\ proc_table'[m].esp = p_task_stack
         /\ Bottom(m)' = p_task_stack'
<1>1. p_task_stack = Top[m] /\ DOMAIN proc_table = Proc /\ KernelSegments
  BY DEF StartInv, PcbInv, TablesInv, InitProc
<1>2. /\ proc_table'[m] = Pcb(m)
      /\ \A p \in Proc \ {m} : proc_table'[p] = proc_table[p]
      /\ DOMAIN proc_table' = Proc
  BY <1>1 DEF InitProc
<1>3. /\ Top[m] \in Int /\ Top[m] <= STACK_SIZE_TOTAL
      /\ Top[m] - task_table[m].stack_size >= 0
      /\ task_table[m].stack_size \in Nat
  BY TopExists, StartupAssumption DEF IsTop, Proc
<1>4. Bottom(m)' = p_task_stack' /\ proc_table'[m].esp = p_task_stack
  BY <1>1, <1>2 DEF Bottom, InitProc, StackAfter, Pcb
<1>5. PcbFilled(m)'
  <2>1. ASSUME NEW rank \in 0 .. 3
        PROVE  /\ Ldt(rank)[1] = Desc("code", rank, NoProc)
               /\ Ldt(rank)[2] = Desc("data", rank, NoProc)
    BY <1>1 DEF Ldt, KernelSegments, Desc
  <2>2. Privilege(task_table[m].type) \in 0 .. 3
    BY DEF Privilege
  <2>3. /\ Bottom(m)' >= 0 /\ proc_table'[m].esp \in Int
        /\ proc_table'[m].esp <= STACK_SIZE_TOTAL
    BY <1>1, <1>3, <1>4, StartupAssumption DEF InitProc, StackAfter
  <2> QED
    BY <1>2, <2>1, <2>2, <2>3 DEF PcbFilled, Pcb
<1> QED
  BY <1>2, <1>4, <1>5

LEMMA InitProcStart == StartInv /\ InitProc => StartInv'
<1> SUFFICES ASSUME StartInv, InitProc PROVE StartInv'
  OBVIOUS
<1> PICK m \in Proc : m = n
  BY DEF StartInv, PcbInv, InitProc
<1>1. /\ p_task_stack = Top[m] /\ pc = "init_proc" /\ n' = m + 1
      /\ \A p \in Proc : p < m => p_task_stack <= Bottom(p)
      /\ pc' \in {"init_proc", "restart"}
      /\ pc' = "init_proc" <=> m + 1 \in Proc
      /\ m + 1 \notin Proc => p_proc_ready' = 0
  BY DEF StartInv, PcbInv, InitProc
<1>2. TablesInv'
  BY <1>1 DEF StartInv, TablesInv, InitProc, Label, Started, KernelSegments, LdtDescribed, tables
<1>3. GatesInv'
  BY <1>1 DEF StartInv, GatesInv, InitProc, tables
<1>4. LinesInv'
  BY <1>1 DEF StartInv, LinesInv, InitProc, Started, lines, tables
<1>5. PcbInv'
  <2>1. /\ DOMAIN proc_table' = Proc
        /\ \A p \in Proc \ {m} : proc_table'[p] = proc_table[p]
        /\ PcbFilled(m)'
        /\ proc_table'[m].esp = p_task_stack
        /\ Bottom(m)' = p_task_stack'
    BY PcbOfLoop
  <2>2. \A p \in Proc : Filled(p)' <=> p < m + 1
    BY <1>1, StartupAssumption DEF Filled, Started, Proc
  <2>3. \A p \in Proc : p < m => Filled(p) /\ PcbFilled(p)' /\ Bottom(p)' = Bottom(p)
    <3>1. \A p \in Proc : p < m => Filled(p) /\ PcbFilled(p) /\ p /= m
      BY <1>1 DEF StartInv, PcbInv, Filled, Proc
    <3> QED
      BY <3>1, <2>1 DEF PcbFilled, Bottom
  <2>4. \A p \in Proc : p < m + 1 => p < m \/ p = m
    BY DEF Proc
  <2>5. /\ p_task_stack' = Top[m + 1]
        /\ p_task_stack' \in Int /\ p_task_stack \in Int /\ p_task_stack' <= p_task_stack
    <3>1. /\ Top[m] \in Int /\ Top[m + 1] \in Int /\ task_table[m].stack_size \in Nat
          /\ Top[m + 1] = Top[m] - task_table[m].stack_size
      BY TopExists, StartupAssumption DEF IsTop, Proc
    <3>2. p_task_stack' = Top[m] - task_table[m].stack_size
      BY <1>1 DEF InitProc, StackAfter
    <3> QED
      BY <1>1, <3>1, <3>2
  <2>6. \A p \in Proc : p < m + 1 => p_task_stack' <= Bottom(p)'
    <3>1. \A p \in Proc : p < m => Bottom(p) \in Int
      BY <2>3, <1>1, StartupAssumption DEF StartInv, PcbInv, PcbFilled, Bottom
    <3> QED
      BY <1>1, <2>1, <2>3, <2>4, <2>5, <3>1
  <2>7. ASSUME NEW p \in Proc, NEW q \in Proc, p < q, q < m + 1
        PROVE  proc_table'[q].esp <= Bottom(p)'
    <3>1. p < m
      BY <2>7 DEF Proc
    <3>2. CASE q = m
      BY <3>1, <3>2, <1>1, <2>1, <2>3
    <3>3. CASE q < m
      <4>1. proc_table[q].esp <= Bottom(p) /\ q /= m
        BY <3>1, <3>3, <2>3, <2>7 DEF StartInv, PcbInv, Proc
      <4> QED
        BY <3>1, <4>1, <2>1, <2>3
    <3> QED
      BY <2>4, <2>7, <3>2, <3>3
  <2>8. pc' = "init_proc" => n' \in Proc /\ \A p \in Proc : p < n' => p_task_stack' <= Bottom(p)'
    BY <1>1, <2>6
  <2>9. \A p \in Proc : Filled(p)' => PcbFilled(p)'
    BY <2>1, <2>2, <2>3, <2>4
  <2> QED
    BY <1>1, <2>1, <2>2, <2>5, <2>7, <2>8, <2>9 DEF PcbInv
<1> QED
  BY <1>2, <1>3, <1>4, <1>5 DEF StartInv

\* From restart on the tables do not change.
LEMMA RunStart ==
  ASSUME StartInv, pc \in Started, pc' \in Started, pc' = "restart" => pc = "restart",
         UNCHANGED <<tables, lines, globals>>,
         pc' = "restart" => UNCHANGED <<ticks, n>>
  PROVE  StartInv'
<1>1. TablesInv'
  BY DEF StartInv, TablesInv, Label, Started, KernelSegments, LdtDescribed, tables
<1>2. GatesInv' /\ LinesInv'
  BY DEF StartInv, GatesInv, LinesInv, Started, tables, lines, globals
<1>3. PcbInv'
  BY DEF StartInv, PcbInv, Filled, PcbFilled, Bottom, Started, globals
<1> QED
  BY <1>1, <1>2, <1>3 DEF StartInv

StartVars == <<pc, n, ticks, tables, lines, globals>>

LEMMA StartStep == StartInv /\ [Next]_vars => StartInv'
<1> SUFFICES ASSUME StartInv, [Next]_vars PROVE StartInv'
  OBVIOUS
<1>1. CASE Boot
  BY <1>1, SgdtStart, CStartStart, InitIdtStart, InitTssStart, InitLdtStart, LgdtStart,
     HappyMainStart, InitProcStart DEF Boot, StartupNext
<1>2. CASE Restart
  BY <1>2, RunStart DEF Restart, Started, boot
<1>3. CASE Tick
  BY <1>3, RunStart DEF Tick, Started, boot
<1>4. CASE Schedule
  BY <1>4, RunStart DEF Schedule, Started, boot
<1>5. CASE TtyTask
  BY <1>5, RunStart DEF TtyTask, InitKeyboard, InitTty, Execute, Started, boot
<1>6. ASSUME NEW p \in User, UserStep(p) PROVE StartInv'
  <2>1. pc = "run" /\ pc' = "run" /\ UNCHANGED boot
    BY <1>6 DEF UserStep, Printf, Write, SysWrite, CallGetTicks, SysGetTicks,
                SysGetTicksAgain, Test, Execute
  <2> QED
    BY <2>1, RunStart DEF Started, boot
<1>7. ASSUME NEW p \in Proc, NEW v \in ExceptionVector, Exception(p, v) PROVE StartInv'
  BY <1>7, RunStart DEF Exception, Started, boot
<1>8. CASE UNCHANGED vars
  <2>1. UNCHANGED StartVars
    BY <1>8 DEF vars, boot, StartVars
  <2>2. TablesInv'
    BY <2>1 DEF StartInv, TablesInv, StartVars, KernelSegments, LdtDescribed, tables
  <2>3. GatesInv' /\ LinesInv'
    BY <2>1 DEF StartInv, GatesInv, LinesInv, StartVars, tables, lines, globals
  <2>4. PcbInv'
    BY <2>1 DEF StartInv, PcbInv, Filled, PcbFilled, Bottom, StartVars, globals
  <2> QED
    BY <2>2, <2>3, <2>4 DEF StartInv
<1> QED
  BY <1>1, <1>2, <1>3, <1>4, <1>5, <1>6, <1>7, <1>8 DEF Next, Halted

THEOREM StartCorrect == Spec => []StartInv
BY InitStart, StartStep, PTL DEF Spec

-----------------------------------------------------------------------------
(* What restart finds.                                                     *)

LEMMA SegmentsFound ==
  ASSUME StartInv, pc \in {"restart", "run"}, NEW p \in Proc
  PROVE  RunsInItsRing(p)
<1>1. PcbFilled(p) /\ LdtDescribed(p) /\ KernelSegments
  BY DEF StartInv, PcbInv, TablesInv, Filled, Started
<1> DEFINE rank == Privilege(task_table[p].type)
<1>2. /\ proc_table[p].cs = Selector(0, "ldt", rank)
      /\ proc_table[p].ds = Selector(1, "ldt", rank)
      /\ proc_table[p].gs = Selector(INDEX_VIDEO, "gdt", rank)
      /\ proc_table[p].ldt_selector = Selector(INDEX_LDT_FIRST + p, "gdt", PRIVILEGE_KRNL)
      /\ proc_table[p].ldts[1] = Desc("code", rank, NoProc)
      /\ proc_table[p].ldts[2] = Desc("data", rank, NoProc)
      /\ proc_table[p].iopl = Iopl(task_table[p].type)
  BY <1>1 DEF PcbFilled
<1>3. gdt[proc_table[p].ldt_selector.index] = Desc("ldt", PRIVILEGE_KRNL, p)
  BY <1>1, <1>2 DEF LdtDescribed, Selector
<1>4. /\ SegmentOf(p, proc_table[p].cs) = Desc("code", rank, NoProc)
      /\ SegmentOf(p, proc_table[p].ds) = Desc("data", rank, NoProc)
      /\ SegmentOf(p, proc_table[p].gs) = Desc("video", PRIVILEGE_USER, NoProc)
  BY <1>1, <1>2, <1>3 DEF SegmentOf, Selector, Desc, KernelSegments
<1>5. /\ rank \in 0 .. 3 /\ rank > 0 /\ rank <= 3
      /\ rank <= Iopl(task_table[p].type) <=> task_table[p].type = "TASK"
  BY StartupAssumption DEF Privilege, Iopl
<1>6. ASSUME NEW kind \in {"code", "data", "video", "ldt"}, NEW dpl \in 0 .. 3,
             NEW of \in Proc \union {NoProc}, NEW cpl \in 0 .. 3, cpl <= dpl
      PROVE  Usable(Desc(kind, dpl, of), {kind}, cpl)
  BY <1>6 DEF Usable, Desc, Descriptor
<1>7. proc_table[p].cs.rpl = rank
  BY <1>2 DEF Selector
<1> HIDE DEF rank
<1>8. /\ Usable(Desc("ldt", PRIVILEGE_KRNL, p), {"ldt"}, PRIVILEGE_KRNL)
      /\ Usable(Desc("code", rank, NoProc), {"code"}, rank)
      /\ Usable(Desc("data", rank, NoProc), {"data"}, rank)
      /\ Usable(Desc("video", PRIVILEGE_USER, NoProc), {"video"}, rank)
      /\ Desc("ldt", PRIVILEGE_KRNL, p).of = p
      /\ Desc("code", rank, NoProc).dpl = rank /\ Desc("data", rank, NoProc).dpl = rank
  <2>1. Desc("ldt", PRIVILEGE_KRNL, p).of = p
    BY DEF Desc
  <2>2. Desc("code", rank, NoProc).dpl = rank /\ Desc("data", rank, NoProc).dpl = rank
    BY DEF Desc
  <2> QED
    BY <1>5, <1>6, <2>1, <2>2
<1> QED
  BY <1>2, <1>3, <1>4, <1>5, <1>7, <1>8 DEF RunsInItsRing

LEMMA StacksFound ==
  ASSUME StartInv, pc \in {"restart", "run"}, NEW p \in Proc
  PROVE  StackIsItsOwn(p)
<1>1. \A q \in Proc : /\ proc_table[q].esp \in Int /\ proc_table[q].esp <= STACK_SIZE_TOTAL
                      /\ proc_table[q].esp - task_table[q].stack_size >= 0
                      /\ task_table[q].stack_size \in Nat
  BY StartupAssumption DEF StartInv, PcbInv, PcbFilled, Bottom, Filled, Started
<1>2. \A q, r \in Proc : q < r => proc_table[r].esp <= proc_table[q].esp - task_table[q].stack_size
  BY DEF StartInv, PcbInv, Filled, Started, Bottom
<1>3. StackOf(p) \subseteq 1 .. STACK_SIZE_TOTAL
  BY <1>1, StartupAssumption DEF StackOf
<1>4. ASSUME NEW q \in Proc, q /= p PROVE StackOf(p) \intersect StackOf(q) = {}
  <2>1. p < q \/ q < p
    BY <1>4 DEF Proc
  <2> QED
    BY <2>1, <1>1, <1>2 DEF StackOf
<1> QED
  BY <1>3, <1>4 DEF StackIsItsOwn

\* For every task table whose stacks fit in task_stack and whose LDTs fit in the
\* GDT, restart() can resume every process, in its ring and on its own stack.
THEOREM ReadyTheorem == Spec => []ReadyToRun
<1>1. StartInv => ReadyToRun
  <2> SUFFICES ASSUME StartInv, pc \in {"restart", "run"} PROVE
               gdtr.table = "kernel" /\ \A p \in Proc : RunsInItsRing(p) /\ StackIsItsOwn(p)
    BY DEF ReadyToRun
  <2>1. gdtr.table = "kernel"
    BY DEF StartInv, TablesInv, Started
  <2> QED
    BY <2>1, SegmentsFound, StacksFound
<1> QED
  BY <1>1, StartCorrect, PTL

\* For every task table, the start-up code ends in an initial state of Kernel:
\* what is proved of Kernel's behaviours is proved of the machine from restart on.
THEOREM KernelTheorem == Spec => []StartsAsKernel
<1>1. StartInv => StartsAsKernel
  <2> SUFFICES ASSUME StartInv, pc = "restart" PROVE K!Init /\ imr = Line \ {CLOCK_IRQ}
    BY DEF StartsAsKernel
  <2>1. /\ ticks = 0 /\ k_reenter = 0 /\ p_proc_ready = 0 /\ tss_esp0 = NoProc
        /\ imr = Line \ {CLOCK_IRQ}
        /\ irq_table = [l \in Line |-> IF l = CLOCK_IRQ THEN "clock_handler" ELSE "spurious_irq"]
    BY DEF StartInv, LinesInv, Started
  <2>2. \A p \in Proc : /\ proc_table[p].ticks = task_table[p].priority
                        /\ proc_table[p].eip = task_table[p].initial_eip
    BY DEF StartInv, PcbInv, PcbFilled, Filled, Started
  <2>3. K!Proc = Proc /\ K!IRQ = {0, 1} /\ K!Tty = 0 /\ K!NoProc = -1
    BY DEF K!Proc, K!IRQ, K!Tty, K!NoProc, K!CLOCK_IRQ, K!KEYBOARD_IRQ, Proc
  <2>4. CLOCK_IRQ \in Line /\ KEYBOARD_IRQ \in Line
    BY StartupAssumption DEF Line
  <2>5. [p \in Proc |-> proc_table[p].ticks] = [p \in Proc |-> task_table[p].priority]
    BY <2>2
  <2>6. [l \in 1 .. 3 |-> IF l = 1 THEN BootFrame ELSE NoFrame]
          = [l \in K!Level |-> IF l = 1 THEN K!BootFrame ELSE K!NoFrame]
    <3>1. NoFrame = K!NoFrame
      BY DEF NoFrame, K!NoFrame, K!NoIrq, K!NoProc
    <3>2. BootFrame = K!BootFrame
      BY <3>1 DEF BootFrame, K!BootFrame
    <3> QED
      BY <3>1, <3>2 DEF K!Level, K!MaxFrames
  <2>7. [p \in Proc |-> Context(IF proc_table[p].eip = task_table[p].initial_eip THEN p ELSE NoProc)]
          = [p \in K!Proc |-> K!Own(p)]
    BY <2>2, <2>3 DEF Context, K!Own
  <2>8. Context(NoProc) = K!NoContext
    BY DEF Context, K!NoContext, K!NoProc
  <2>9. imr \intersect {CLOCK_IRQ, KEYBOARD_IRQ} = K!IRQ \ {K!CLOCK_IRQ}
    BY <2>1, <2>3, <2>4 DEF K!CLOCK_IRQ
  <2>10. [l \in {CLOCK_IRQ, KEYBOARD_IRQ} |-> irq_table[l]]
           = [l \in K!IRQ |-> IF l = K!CLOCK_IRQ THEN "clock_handler" ELSE "spurious_irq"]
    BY <2>1, <2>3, <2>4 DEF K!CLOCK_IRQ
  <2> QED
    BY <2>1, <2>3, <2>5, <2>6, <2>7, <2>8, <2>9, <2>10 DEF K!Init, K!NoProc
<1> QED
  BY <1>1, StartCorrect, PTL

-----------------------------------------------------------------------------
(* Exceptions.                                                             *)

Told(v) == <<v, IF v \in CpuPushesCode THEN "code" ELSE "none", "eip", "cs", "eflags">>

LEMMA ArgumentsFound ==
  ASSUME NEW v \in ExceptionVector, idt[v].entry = v
  PROVE  Arguments(v) = Told(v)
<1>1. CASE v \in CpuPushesCode
  <2>1. EntryPushes(v) = <<v>> /\ CpuPushes(v) = <<"code", "eip", "cs", "eflags">>
    BY <1>1 DEF EntryPushes, CpuPushes, CpuPushesCode
  <2>2. Arguments(v) = [k \in 1 .. 5 |-> IF k <= 1 THEN <<v>>[k]
                                         ELSE <<"code", "eip", "cs", "eflags">>[k - 1]]
    BY <2>1 DEF Arguments
  <2>3. Arguments(v) = <<v, "code", "eip", "cs", "eflags">>
    BY <2>2
  <2> QED
    BY <2>3, <1>1 DEF Told
<1>2. CASE v \notin CpuPushesCode
  <2>1. EntryPushes(v) = <<v, "none">> /\ CpuPushes(v) = <<"eip", "cs", "eflags">>
    BY <1>2 DEF EntryPushes, CpuPushes, CpuPushesCode
  <2>2. Arguments(v) = [k \in 1 .. 5 |-> IF k <= 2 THEN <<v, "none">>[k]
                                         ELSE <<"eip", "cs", "eflags">>[k - 2]]
    BY <2>1 DEF Arguments
  <2>3. Arguments(v) = <<v, "none", "eip", "cs", "eflags">>
    BY <2>2
  <2> QED
    BY <2>3, <1>2 DEF Told
<1> QED
  BY <1>1, <1>2

\* Whatever process raises whatever exception, exception_handler() shows it.
THEOREM ExceptionTheorem == Spec => []ExceptionReported
<1>1. Init => ExceptionReported
  BY DEF Init, StartupInit, ExceptionReported
<1>2. StartInv /\ ExceptionReported /\ [Next]_vars => ExceptionReported'
  <2> SUFFICES ASSUME StartInv, ExceptionReported, [Next]_vars, pc' = "halted"
               PROVE  shown' = Told(raised)'
    BY DEF ExceptionReported, Told
  <2>1. ASSUME NEW p \in Proc, NEW v \in ExceptionVector, Exception(p, v)
        PROVE  shown' = Told(raised)'
    <3>1. /\ idt = [w \in Vector |-> [entry |-> w, dpl |-> GateDpl(w)]]
          /\ PcbFilled(p)
      BY <2>1 DEF Exception, StartInv, GatesInv, PcbInv, Filled, Started
    <3>2. v \in Vector
      BY DEF Vector
    <3>3. idt[v].entry = v /\ idt[v].dpl = GateDpl(v)
      BY <3>1, <3>2
    <3>4. proc_table[p].cs.rpl \in {1, 3}
      BY <3>1 DEF PcbFilled, Selector, Privilege
    <3>5. Taken(v, proc_table[p].cs.rpl) = v
      BY <3>3, <3>4 DEF Taken, GateDpl
    <3> QED
      BY <2>1, <3>3, <3>5, ArgumentsFound DEF Exception, Told
  <2>2. CASE UNCHANGED vars
    BY <2>2 DEF vars, fault, ExceptionReported, Told
  <2>3. ~Boot
    BY DEF Boot, StartupNext, Sgdt, CStart, Init8259A, InitIdt, InitTss, InitLdt, Lgdt,
           HappyMain, InitProc
  <2>4. ~Restart /\ ~Tick /\ ~Schedule /\ ~TtyTask
    BY DEF Restart, Tick, Schedule, TtyTask, InitKeyboard, InitTty, Execute
  <2>5. ~\E p \in User : UserStep(p)
    BY DEF UserStep, Printf, Write, SysWrite, CallGetTicks, SysGetTicks, SysGetTicksAgain,
           Test, Execute
  <2> QED
    BY <2>1, <2>2, <2>3, <2>4, <2>5 DEF Next, Halted
<1> QED
  BY <1>1, <1>2, StartCorrect, PTL DEF Spec

-----------------------------------------------------------------------------
(* The TTY task sets the consoles within its first turn.                   *)

Setting == at[Tty] \notin {"select_console", "loop"}

\* Each step that the TTY task has taken counts for moved or, SPEED of them, for
\* a tick of its share.
ConsoleInv ==
  /\ used \in [Proc -> Nat] /\ moved \in 0 .. SPEED
  /\ DOMAIN at = Proc /\ DOMAIN p_console = TtyId
  /\ pc \notin {"run", "halted"} =>
       /\ owner = NoProc /\ used[Tty] = 0 /\ moved = 0
       /\ at[Tty] = "init_keyboard"
       /\ \A p \in User : at[p] = Begin(p)
  /\ pc \in {"run", "halted"} /\ Setting =>
       /\ owner = Tty
       /\ at[Tty] \in {"init_keyboard", "init_tty"}
       /\ at[Tty] = "init_keyboard" => SPEED * used[Tty] + moved <= 0
       /\ at[Tty] = "init_tty" =>
            /\ n \in TtyId
            /\ SPEED * used[Tty] + moved <= n + 1
            /\ \A c \in TtyId : c < n => p_console[c] = c
       /\ \A p \in User : at[p] = Begin(p)
  /\ ~Setting => \A c \in TtyId : p_console[c] = c

LEMMA Processes == Tty \in Proc /\ Tty /= NoProc /\ Tty \notin User /\ User \subseteq Proc
BY StartupAssumption DEF Tty, Proc, User

LEMMA Begins == Begin(Tty) = "init_keyboard" /\ \A p \in User : Begin(p) \in {"printf", "milli_delay"}
BY UserProcessAssumption DEF Begin

LEMMA ShareLeft ==
  ASSUME ConsoleInv, pc \in {"run", "halted"}, Setting
  PROVE  owner = Tty /\ used[Tty] \in Nat /\ Share[Tty] \in Nat /\ Share[Tty] - used[Tty] > 0
<1>1. /\ used[Tty] \in Nat /\ owner = Tty /\ moved \in Nat
      /\ SPEED \in Nat /\ NR_CONSOLES \in Nat /\ SPEED * Share[Tty] > NR_CONSOLES + 1
      /\ Share[Tty] \in Nat
  BY Processes, UserProcessAssumption, StartupAssumption DEF ConsoleInv, Share
<1>2. SPEED * used[Tty] + moved <= NR_CONSOLES
  BY <1>1, UserProcessAssumption DEF ConsoleInv, TtyId
<1>3. ASSUME NEW u \in Nat, NEW s \in Nat, u >= s PROVE SPEED * u >= SPEED * s
  BY <1>3, <1>1
<1>4. SPEED * used[Tty] \in Nat /\ SPEED * Share[Tty] \in Nat
  BY <1>1
<1> HIDE DEF Tty, Share
<1>5. ~(used[Tty] >= Share[Tty])
  BY <1>1, <1>2, <1>3, <1>4
<1> QED
  BY <1>1, <1>5

LEMMA InitConsole == Init => ConsoleInv
BY Processes, Begins, UserProcessAssumption
   DEF Init, StartupInit, ConsoleInv, Setting, Tty, User

LEMMA TickConsole == ConsoleInv /\ Tick => ConsoleInv'
<1> SUFFICES ASSUME ConsoleInv, Tick PROVE ConsoleInv'
  OBVIOUS
<1>1. /\ pc = "run" /\ pc' = "run" /\ moved = SPEED /\ moved' = 0
      /\ at' = at /\ p_console' = p_console /\ n' = n
  BY DEF Tick, boot, data
<1>2. used' \in [Proc -> Nat]
  <2>1. CASE FS!Charge
    BY <2>1 DEF FS!Charge, ConsoleInv
  <2>2. CASE UNCHANGED sched
    BY <2>2 DEF sched, ConsoleInv
  <2> QED
    BY <2>1, <2>2 DEF Tick
<1>3. ASSUME Setting
      PROVE  owner' = Tty /\ SPEED * used'[Tty] + moved' <= SPEED * used[Tty] + moved
  <2>1. owner = Tty /\ used[Tty] \in Nat /\ Share[Tty] \in Nat /\ Share[Tty] - used[Tty] > 0
    BY <1>1, <1>3, ShareLeft
  <2>2. FS!Charge
    BY <2>1 DEF Tick, FS!Left
  <2>3. owner' = Tty /\ used'[Tty] = used[Tty] + 1
    BY <2>1, <2>2, Processes DEF FS!Charge, ConsoleInv
  <2>4. SPEED * (used[Tty] + 1) = SPEED * used[Tty] + SPEED
    BY <2>1, UserProcessAssumption
  <2>5. SPEED * used[Tty] \in Nat /\ SPEED \in Nat
    BY <2>1, UserProcessAssumption
  <2> QED
    BY <1>1, <2>3, <2>4, <2>5
<1>4. SPEED * used[Tty] \in Nat /\ SPEED * used'[Tty] \in Nat /\ SPEED \in Nat
  BY <1>2, Processes, UserProcessAssumption DEF ConsoleInv
<1> QED
  BY <1>1, <1>2, <1>3, <1>4, UserProcessAssumption DEF ConsoleInv, Setting, TtyId

LEMMA ScheduleConsole == ConsoleInv /\ Schedule => ConsoleInv'
<1> SUFFICES ASSUME ConsoleInv, Schedule PROVE ConsoleInv'
  OBVIOUS
<1>1. /\ pc = "run" /\ pc' = "run" /\ moved' = moved
      /\ at' = at /\ p_console' = p_console /\ n' = n
  BY DEF Schedule, boot, data
<1>2. used' \in [Proc -> Nat]
  BY DEF Schedule, FS!Deschedule, FS!NewRound, FS!Dispatch, ConsoleInv
<1>3. ~Setting
  <2> SUFFICES ASSUME Setting PROVE FALSE
    OBVIOUS
  <2>1. owner = Tty /\ Share[Tty] \in Nat /\ used[Tty] \in Nat /\ Share[Tty] - used[Tty] > 0
    BY <1>1, ShareLeft
  <2> QED
    BY <2>1, Processes
       DEF Schedule, MustSchedule, FS!Deschedule, FS!NewRound, FS!Dispatch, FS!Left
<1> QED
  BY <1>1, <1>2, <1>3 DEF ConsoleInv, Setting

\* A step of the TTY task that sets something.
LEMMA TtyTaskConsole == ConsoleInv /\ TtyTask => ConsoleInv'
<1> SUFFICES ASSUME ConsoleInv, TtyTask PROVE ConsoleInv'
  OBVIOUS
<1>1. /\ pc = "run" /\ pc' = "run" /\ used' = used /\ owner' = owner
      /\ moved' = IF moved < SPEED THEN moved + 1 ELSE moved
      /\ \E to : at' = [at EXCEPT ![Tty] = to]
  BY DEF TtyTask, InitKeyboard, InitTty, Execute, sched
<1>2. /\ moved' \in 0 .. SPEED /\ moved' <= moved + 1 /\ moved \in Nat /\ moved' \in Nat
      /\ used' \in [Proc -> Nat] /\ DOMAIN at' = Proc
      /\ \A p \in User : at'[p] = at[p]
  BY <1>1, Processes, UserProcessAssumption DEF ConsoleInv
<1>3. SPEED * used[Tty] \in Nat /\ SPEED * used'[Tty] = SPEED * used[Tty]
  BY <1>1, Processes, UserProcessAssumption DEF ConsoleInv
<1>4. CASE InitKeyboard
  <2>1. /\ Setting /\ at[Tty] = "init_keyboard" /\ at'[Tty] = "init_tty" /\ n' = 0
        /\ p_console' = p_console
    BY <1>4, Processes DEF InitKeyboard, Execute, Setting, ConsoleInv, data
  <2>2. owner = Tty /\ SPEED * used[Tty] + moved <= 0 /\ \A p \in User : at[p] = Begin(p)
    BY <1>1, <2>1 DEF ConsoleInv
  <2>3. 0 \in TtyId /\ ~(\E c \in TtyId : c < 0)
    BY UserProcessAssumption DEF TtyId
  <2> QED
    BY <1>1, <1>2, <1>3, <2>1, <2>2, <2>3 DEF ConsoleInv, Setting
<1>5. CASE InitTty
  <2>1. /\ Setting /\ at[Tty] = "init_tty" /\ n' = n + 1
        /\ at'[Tty] = IF n + 1 \in TtyId THEN "init_tty" ELSE "select_console"
        /\ p_console' = [p_console EXCEPT ![n] = n]
    BY <1>5, Processes DEF InitTty, Execute, Setting, ConsoleInv
  <2>2. /\ owner = Tty /\ SPEED * used[Tty] + moved <= n + 1 /\ n \in TtyId
        /\ \A p \in User : at[p] = Begin(p)
        /\ \A c \in TtyId : c < n => p_console[c] = c
    BY <1>1, <2>1 DEF ConsoleInv
  <2>3. DOMAIN p_console' = TtyId /\ \A c \in TtyId : c < n + 1 => p_console'[c] = c
    BY <2>1, <2>2 DEF ConsoleInv, TtyId
  <2>4. n + 1 \notin TtyId => \A c \in TtyId : c < n + 1
    BY <2>2, UserProcessAssumption DEF TtyId
  <2>5. SPEED * used'[Tty] + moved' <= n + 2 /\ n \in Int
    BY <1>2, <1>3, <2>2 DEF TtyId
  <2> QED
    BY <1>1, <1>2, <2>1, <2>2, <2>3, <2>4, <2>5 DEF ConsoleInv, Setting
<1>6. CASE UNCHANGED <<boot, data>> /\ at[Tty] \in {"select_console", "loop"} /\ at'[Tty] = "loop"
  BY <1>1, <1>2, <1>6 DEF ConsoleInv, Setting, boot, data
<1> QED
  <2>1. InitKeyboard \/ InitTty \/ (UNCHANGED <<boot, data>> /\
          (Execute(Tty, "select_console", "loop") \/ Execute(Tty, "loop", "loop")))
    BY DEF TtyTask
  <2>2. Execute(Tty, "select_console", "loop") \/ Execute(Tty, "loop", "loop") =>
          at[Tty] \in {"select_console", "loop"} /\ at'[Tty] = "loop"
    BY Processes DEF Execute, ConsoleInv
  <2> QED
    BY <1>4, <1>5, <1>6, <2>1, <2>2

LEMMA UserConsole ==
  ASSUME ConsoleInv, NEW p \in User, UserStep(p)
  PROVE  ConsoleInv'
<1>1. /\ pc = "run" /\ pc' = "run" /\ used' = used /\ owner' = owner /\ owner = p
      /\ moved' = IF moved < SPEED THEN moved + 1 ELSE moved
      /\ \E to : at' = [at EXCEPT ![p] = to]
      /\ p_console' = p_console
  BY DEF UserStep, Printf, Write, SysWrite, CallGetTicks, SysGetTicks, SysGetTicksAgain, Test,
         Execute, sched, data
<1>2. ~Setting
  BY <1>1, Processes DEF ConsoleInv
<1>3. at'[Tty] = at[Tty] /\ DOMAIN at' = Proc
  BY <1>1, Processes DEF ConsoleInv
<1>4. moved' \in 0 .. SPEED
  BY <1>1, UserProcessAssumption DEF ConsoleInv
<1> QED
  BY <1>1, <1>2, <1>3, <1>4 DEF ConsoleInv, Setting

LEMMA ConsoleStep == StartInv /\ ConsoleInv /\ [Next]_vars => ConsoleInv'
<1> SUFFICES ASSUME StartInv, ConsoleInv, [Next]_vars PROVE ConsoleInv'
  OBVIOUS
<1>1. CASE Boot
  <2>1. pc \notin {"run", "halted"} /\ pc' \notin {"run", "halted"}
    BY <1>1 DEF Boot, StartupNext, Sgdt, CStart, Init8259A, InitIdt, InitTss, InitLdt, Lgdt,
                HappyMain, InitProc
  <2>2. UNCHANGED <<owner, used, moved, at, p_console>>
    BY <1>1 DEF Boot, sched, data
  <2> QED
    BY <2>1, <2>2 DEF ConsoleInv, Setting
<1>2. CASE Restart
  <2>1. /\ pc = "restart" /\ pc' = "run" /\ owner' = 0
        /\ UNCHANGED <<n, used, moved, at, p_console>>
    BY <1>2 DEF Restart, StartInv, LinesInv, Started, boot, data
  <2>2. used[Tty] = 0 /\ moved = 0 /\ SPEED * 0 = 0
    BY <2>1, UserProcessAssumption DEF ConsoleInv
  <2> QED
    BY <2>1, <2>2 DEF ConsoleInv, Setting, Tty
<1>3. CASE Tick
  BY <1>3, TickConsole
<1>4. CASE Schedule
  BY <1>4, ScheduleConsole
<1>5. CASE TtyTask
  BY <1>5, TtyTaskConsole
<1>6. ASSUME NEW p \in User, UserStep(p) PROVE ConsoleInv'
  BY <1>6, UserConsole
<1>7. ASSUME NEW p \in Proc, NEW v \in ExceptionVector, Exception(p, v) PROVE ConsoleInv'
  BY <1>7 DEF Exception, ConsoleInv, Setting, boot, sched, data
<1>8. CASE UNCHANGED vars
  BY <1>8 DEF vars, ConsoleInv, Setting, boot, sched, data
<1> QED
  BY <1>1, <1>2, <1>3, <1>4, <1>5, <1>6, <1>7, <1>8 DEF Next, Halted

\* For every number of consoles that the TTY task can set up within its first
\* turn, whatever other processes there are.
THEOREM ConsoleTheorem == Spec => []ConsoleBeforeWrite
<1>1. StartInv /\ ConsoleInv => ConsoleBeforeWrite
  <2> SUFFICES ASSUME StartInv, ConsoleInv, NEW p \in User, at[p] = "sys_write"
               PROVE  p_console[proc_table[p].nr_tty] \in TtyId
    BY DEF ConsoleBeforeWrite
  <2>1. at[p] /= Begin(p)
    BY Begins
  <2>2. pc \in {"run", "halted"} /\ ~Setting
    BY <2>1 DEF ConsoleInv
  <2>3. proc_table[p].nr_tty = 0
    BY <2>2, Processes DEF StartInv, PcbInv, PcbFilled, Filled, Started
  <2>4. 0 \in TtyId
    BY UserProcessAssumption DEF TtyId
  <2> QED
    BY <2>2, <2>3, <2>4 DEF ConsoleInv
<1> QED
  BY <1>1, InitConsole, ConsoleStep, StartCorrect, PTL DEF Spec

-----------------------------------------------------------------------------
(* milli_delay() is never early.                                           *)

\* now is what the counter shows `elapsed' ticks after it showed start.
Shows(now, start, elapsed) == \E k \in Nat : start + elapsed = now + WORD * k

DelayInv ==
  /\ DOMAIN at = Proc
  /\ t \in [User -> 0 .. WORD - 1] /\ eax \in [User -> 0 .. WORD - 1]
  /\ since \in [User -> Nat]
  /\ pc \in {"run", "halted"} => ticks \in 0 .. WORD - 1
  /\ \A p \in User :
       /\ at[p] \in Waiting => pc \in {"run", "halted"} /\ Shows(ticks, t[p], since[p])
       /\ at[p] = "test" => \E s \in 0 .. since[p] : Shows(eax[p], t[p], s)

LEMMA WordNat == WORD \in Nat /\ WORD > 0 /\ HZ \in Nat /\ HZ > 0 /\ SECOND \in Nat /\ SECOND > 0
BY UserProcessAssumption

LEMMA ModSmall == \A x \in 0 .. WORD - 1 : x % WORD = x
BY WordNat

LEMMA ModNegative == \A x \in 0 - WORD .. -1 : x % WORD = x + WORD
BY WordNat

LEMMA NextTick ==
  ASSUME NEW x \in 0 .. WORD - 1
  PROVE  /\ (x + 1) % WORD \in 0 .. WORD - 1
         /\ x + 1 = (x + 1) % WORD \/ x + 1 = ((x + 1) % WORD) + WORD
<1>1. CASE x + 1 < WORD
  BY <1>1, WordNat, ModSmall
<1>2. CASE x + 1 = WORD
  <2>1. WORD % WORD = 0
    BY WordNat
  <2> QED
    BY <1>2, <2>1, WordNat
<1> QED
  BY <1>1, <1>2, WordNat

LEMMA ShowsNext ==
  ASSUME NEW now \in 0 .. WORD - 1, NEW start \in 0 .. WORD - 1, NEW elapsed \in Nat,
         Shows(now, start, elapsed)
  PROVE  Shows((now + 1) % WORD, start, elapsed + 1)
<1>1. PICK k \in Nat : start + elapsed = now + WORD * k
  BY DEF Shows
<1>2. WORD * (k + 1) = WORD * k + WORD /\ WORD * k \in Nat
  BY WordNat
<1>3. (now + 1) % WORD \in Int
  BY NextTick
<1>4. CASE now + 1 = (now + 1) % WORD
  <2>1. start + (elapsed + 1) = ((now + 1) % WORD) + WORD * k
    BY <1>1, <1>2, <1>3, <1>4
  <2> QED
    BY <2>1 DEF Shows
<1>5. CASE now + 1 = ((now + 1) % WORD) + WORD
  <2>1. start + (elapsed + 1) = ((now + 1) % WORD) + WORD * (k + 1)
    BY <1>1, <1>2, <1>3, <1>5, WordNat
  <2> QED
    BY <2>1 DEF Shows
<1> QED
  BY <1>4, <1>5, NextTick

\* While less time has gone by than it is asked for, milli_delay() computes just
\* the ticks that have gone by: neither their difference nor its product wraps.
LEMMA ElapsedIsExact ==
  ASSUME NEW now \in 0 .. WORD - 1, NEW start \in 0 .. WORD - 1, NEW elapsed \in Nat,
         Shows(now, start, elapsed), 2 * (elapsed * SECOND) < WORD
  PROVE  Elapsed(now, start) = (elapsed * SECOND) \div HZ
<1> DEFINE product == elapsed * SECOND
<1>1. product \in Nat /\ elapsed <= product
  BY WordNat
<1>2. 2 * product < WORD
  OBVIOUS
<1> HIDE DEF product
<1>3. 2 * elapsed < WORD /\ elapsed < WORD
  BY <1>1, <1>2, WordNat
<1>4. PICK k \in Nat : start + elapsed = now + WORD * k
  BY DEF Shows
<1>5. (now - start) % WORD = elapsed
  <2>1. k = 0 \/ k = 1 \/ k >= 2
    OBVIOUS
  <2>2. CASE k = 0
    <3>1. now - start = elapsed
      BY <1>4, <2>2, WordNat
    <3> QED
      BY <3>1, <1>3, ModSmall, WordNat
  <2>3. CASE k = 1
    <3>1. now - start = elapsed - WORD
      BY <1>4, <2>3, WordNat
    <3>2. elapsed - WORD \in 0 - WORD .. -1
      BY <1>3, WordNat
    <3> QED
      BY <3>1, <3>2, ModNegative, WordNat
  <2>4. CASE k >= 2
    <3>1. WORD * k >= WORD * 2
      BY <2>4, WordNat
    <3> QED
      BY <3>1, <1>3, <1>4, WordNat
  <2> QED
    BY <2>1, <2>2, <2>3, <2>4
<1>6. Int32(now - start) = elapsed
  BY <1>3, <1>5 DEF Int32
<1>7. product % WORD = product
  BY <1>1, <1>2, ModSmall, WordNat
<1>8. Int32(product) = product
  BY <1>2, <1>7 DEF Int32
<1> QED
  BY <1>6, <1>8 DEF Elapsed, product

LEMMA DivLess ==
  ASSUME NEW x \in Nat, NEW y \in Nat, x < y * HZ
  PROVE  x \div HZ < y
<1>1. HZ * (x \div HZ) <= x /\ x \div HZ \in Nat
  BY WordNat
<1> DEFINE q == x \div HZ
<1>2. q \in Nat
  BY <1>1
<1>3. HZ * q <= x
  BY <1>1
<1> HIDE DEF q
<1>4. ASSUME q >= y PROVE FALSE
  <2>1. HZ * q >= HZ * y
    BY <1>2, <1>4, WordNat
  <2>2. HZ * y = y * HZ /\ HZ * y \in Nat /\ HZ * q \in Nat
    BY <1>2, WordNat
  <2> QED
    BY <1>3, <2>1, <2>2
<1>5. q < y
  BY <1>2, <1>4
<1> QED
  BY <1>5 DEF q

LEMMA DelayTooShort ==
  ASSUME DelayInv, NEW p \in User, at[p] = "test", since[p] * SECOND < ms(p) * HZ
  PROVE  ~DelayIsOver(p)
<1>1. PICK s \in 0 .. since[p] : Shows(eax[p], t[p], s)
  BY DEF DelayInv
<1>2. /\ since[p] \in Nat /\ s \in Nat /\ s <= since[p]
      /\ eax[p] \in 0 .. WORD - 1 /\ t[p] \in 0 .. WORD - 1
  BY DEF DelayInv
<1>3. ms(p) \in Nat /\ 2 * (ms(p) * HZ + SECOND) < WORD
  BY UserProcessAssumption
<1> HIDE DEF ms
<1>4. s * SECOND <= since[p] * SECOND /\ s * SECOND \in Nat /\ since[p] * SECOND \in Nat
  BY <1>2, WordNat
<1>5. ms(p) * HZ \in Nat
  BY <1>3, WordNat
<1>6. s * SECOND < ms(p) * HZ /\ 2 * (s * SECOND) < WORD
  BY <1>3, <1>4, <1>5, WordNat
<1>7. Elapsed(eax[p], t[p]) = (s * SECOND) \div HZ
  BY <1>1, <1>2, <1>6, ElapsedIsExact
<1>8. (s * SECOND) \div HZ < ms(p)
  BY <1>3, <1>4, <1>6, DivLess
<1>9. (s * SECOND) \div HZ \in Int
  BY <1>4, WordNat
<1> QED
  BY <1>3, <1>7, <1>8, <1>9 DEF DelayIsOver

LEMMA InitDelay == Init => DelayInv
<1> SUFFICES ASSUME Init PROVE DelayInv
  OBVIOUS
<1>1. \A p \in User : at[p] \notin Waiting /\ at[p] /= "test"
  BY Begins, Processes DEF Init, Waiting
<1>2. DOMAIN at = Proc /\ pc = "_start"
  BY DEF Init, StartupInit
<1>3. /\ t \in [User -> 0 .. WORD - 1] /\ eax \in [User -> 0 .. WORD - 1]
      /\ since \in [User -> Nat]
  BY WordNat DEF Init
<1> QED
  BY <1>1, <1>2, <1>3 DEF DelayInv

\* A step that leaves the clock and the variables of milli_delay() alone.
LEMMA SameDelay ==
  ASSUME DelayInv, UNCHANGED <<t, eax, since>>, DOMAIN at' = Proc,
         ticks' = ticks, pc' = pc \/ (pc = "run" /\ pc' = "halted"),
         \A p \in User : \/ at'[p] = at[p]
                         \/ at'[p] \in Waiting /\ at[p] \in Waiting /\ at'[p] /= "test"
                         \/ at'[p] \notin Waiting
  PROVE  DelayInv'
<1>1. \A p \in User : at'[p] \in Waiting => at[p] \in Waiting
  OBVIOUS
<1>2. \A p \in User : at'[p] = "test" => at[p] = "test"
  BY DEF Waiting
<1> QED
  BY <1>1, <1>2 DEF DelayInv, Shows

LEMMA TickDelay == DelayInv /\ Tick => DelayInv'
<1> SUFFICES ASSUME DelayInv, Tick PROVE DelayInv'
  OBVIOUS
<1>1. /\ pc = "run" /\ pc' = "run" /\ at' = at /\ t' = t /\ eax' = eax
      /\ ticks \in 0 .. WORD - 1 /\ ticks' = (ticks + 1) % WORD
      /\ \A p \in User : since'[p] = IF at[p] \in Waiting THEN since[p] + 1 ELSE since[p]
      /\ since' \in [User -> Nat]
  BY DEF Tick, DelayInv, data
<1>2. ticks' \in 0 .. WORD - 1
  BY <1>1, NextTick
<1>3. ASSUME NEW p \in User, at'[p] \in Waiting
      PROVE  Shows(ticks', t'[p], since'[p])
  <2>1. Shows(ticks, t[p], since[p]) /\ t[p] \in 0 .. WORD - 1 /\ since[p] \in Nat
    BY <1>1, <1>3 DEF DelayInv
  <2> QED
    BY <1>1, <1>3, <2>1, ShowsNext
<1>4. ASSUME NEW p \in User, at'[p] = "test"
      PROVE  \E s \in 0 .. since'[p] : Shows(eax'[p], t'[p], s)
  <2>1. PICK s \in 0 .. since[p] : Shows(eax[p], t[p], s)
    BY <1>1, <1>4 DEF DelayInv
  <2>2. s \in 0 .. since'[p]
    BY <1>1 DEF DelayInv
  <2> QED
    BY <1>1, <2>1, <2>2
<1>5. \A p \in User : at'[p] \in Waiting => Shows(ticks, t[p], since[p])'
  BY <1>3 DEF Shows
<1>6. \A p \in User : at'[p] = "test" => (\E s \in 0 .. since[p] : Shows(eax[p], t[p], s))'
  BY <1>4 DEF Shows
<1> QED
  BY <1>1, <1>2, <1>5, <1>6 DEF DelayInv

LEMMA SysGetTicksDelay ==
  ASSUME DelayInv, NEW p \in User, SysGetTicks(p)
  PROVE  DelayInv'
<1>1. /\ pc = "run" /\ pc' = "run" /\ ticks' = ticks /\ ticks \in 0 .. WORD - 1
      /\ at' = [at EXCEPT ![p] = "get_ticks"] /\ eax' = eax
      /\ t' = [t EXCEPT ![p] = ticks] /\ since' = [since EXCEPT ![p] = 0]
  BY DEF SysGetTicks, Execute, DelayInv
<1>2. /\ t' \in [User -> 0 .. WORD - 1] /\ since' \in [User -> Nat]
      /\ eax' \in [User -> 0 .. WORD - 1] /\ DOMAIN at' = Proc
  BY <1>1 DEF DelayInv
<1>3. t'[p] = ticks /\ since'[p] = 0 /\ at'[p] = "get_ticks"
  BY <1>1, Processes DEF DelayInv
<1>4. ticks + 0 = ticks + WORD * 0
  BY <1>1, WordNat
<1>5. Shows(ticks, t[p], since[p])'
  BY <1>1, <1>3, <1>4 DEF Shows
<1>6. \A q \in User \ {p} : at'[q] = at[q] /\ t'[q] = t[q] /\ since'[q] = since[q]
  BY <1>1, Processes DEF DelayInv
<1>7. \A q \in User \ {p} :
        /\ at'[q] \in Waiting => Shows(ticks, t[q], since[q])'
        /\ at'[q] = "test" => (\E s \in 0 .. since[q] : Shows(eax[q], t[q], s))'
  BY <1>1, <1>6 DEF DelayInv, Shows
<1> QED
  BY <1>1, <1>2, <1>3, <1>5, <1>7 DEF DelayInv

LEMMA SysGetTicksAgainDelay ==
  ASSUME DelayInv, NEW p \in User, SysGetTicksAgain(p)
  PROVE  DelayInv'
<1>1. /\ pc = "run" /\ pc' = "run" /\ ticks' = ticks /\ ticks \in 0 .. WORD - 1
      /\ at[p] = "sys_get_ticks_again"
      /\ at' = [at EXCEPT ![p] = "test"] /\ eax' = [eax EXCEPT ![p] = ticks]
      /\ t' = t /\ since' = since
  BY DEF SysGetTicksAgain, Execute, DelayInv
<1>2. /\ eax' \in [User -> 0 .. WORD - 1] /\ DOMAIN at' = Proc
      /\ eax'[p] = ticks /\ at'[p] = "test"
  BY <1>1, Processes DEF DelayInv
<1>3. Shows(ticks, t[p], since[p]) /\ since[p] \in Nat
  BY <1>1 DEF DelayInv, Waiting
<1>4. /\ Shows(ticks, t[p], since[p])'
      /\ (\E s \in 0 .. since[p] : Shows(eax[p], t[p], s))'
  BY <1>1, <1>2, <1>3 DEF Shows
<1>5. \A q \in User \ {p} : at'[q] = at[q] /\ eax'[q] = eax[q]
  BY <1>1, Processes DEF DelayInv
<1>6. \A q \in User \ {p} :
        /\ at'[q] \in Waiting => Shows(ticks, t[q], since[q])'
        /\ at'[q] = "test" => (\E s \in 0 .. since[q] : Shows(eax[q], t[q], s))'
  BY <1>1, <1>5 DEF DelayInv, Shows
<1> QED
  BY <1>1, <1>2, <1>4, <1>6 DEF DelayInv

LEMMA TestDelay ==
  ASSUME DelayInv, NEW p \in User, Test(p)
  PROVE  DelayInv'
<1>1. CASE DelayIsOver(p)
  <2>1. /\ pc = "run" /\ pc' = "run" /\ ticks' = ticks /\ t' = t /\ eax' = eax
        /\ at' = [at EXCEPT ![p] = Begin(p)] /\ since' = [since EXCEPT ![p] = 0]
    BY <1>1 DEF Test, Execute, data
  <2>2. /\ since' \in [User -> Nat] /\ DOMAIN at' = Proc
        /\ at'[p] \notin Waiting /\ at'[p] /= "test"
    BY <2>1, Begins, Processes DEF DelayInv, Waiting
  <2>3. \A q \in User \ {p} : at'[q] = at[q] /\ since'[q] = since[q]
    BY <2>1, Processes DEF DelayInv
  <2>4. \A q \in User \ {p} :
          /\ at'[q] \in Waiting => Shows(ticks, t[q], since[q])'
          /\ at'[q] = "test" => (\E s \in 0 .. since[q] : Shows(eax[q], t[q], s))'
    BY <2>1, <2>3 DEF DelayInv, Shows
  <2> QED
    BY <2>1, <2>2, <2>4 DEF DelayInv
<1>2. CASE ~DelayIsOver(p)
  <2>1. /\ UNCHANGED <<pc, ticks, t, eax, since>> /\ at[p] = "test"
        /\ at' = [at EXCEPT ![p] = "get_ticks"]
    BY <1>2 DEF Test, Execute, data
  <2>2. /\ DOMAIN at' = Proc /\ \A q \in User \ {p} : at'[q] = at[q]
        /\ at'[p] = "get_ticks" /\ at[p] \in Waiting /\ at'[p] \in Waiting
    BY <2>1, Processes DEF DelayInv, Waiting
  <2>3. \A q \in User : at'[q] = at[q] \/ (at'[q] \in Waiting /\ at[q] \in Waiting /\ at'[q] /= "test")
    BY <2>2
  <2> QED
    BY <2>1, <2>2, <2>3, SameDelay
<1> QED
  BY <1>1, <1>2

LEMMA OtherDelay ==
  ASSUME DelayInv, NEW p \in User, Printf(p) \/ Write(p) \/ SysWrite(p) \/ CallGetTicks(p)
  PROVE  DelayInv'
<1>1. /\ UNCHANGED <<pc, ticks, t, eax, since>>
      /\ \/ \E to \in {"write", "sys_write", "milli_delay", "sys_get_ticks"} :
              at' = [at EXCEPT ![p] = to]
         \/ at[p] = "get_ticks" /\ at' = [at EXCEPT ![p] = "sys_get_ticks_again"]
  BY DEF Printf, Write, SysWrite, CallGetTicks, Execute, data
<1>2. DOMAIN at' = Proc /\ \A q \in User \ {p} : at'[q] = at[q]
  BY <1>1, Processes DEF DelayInv
<1>3. \/ at'[p] \notin Waiting
      \/ at'[p] \in Waiting /\ at[p] \in Waiting /\ at'[p] /= "test"
  BY <1>1, Processes DEF DelayInv, Waiting
<1> QED
  BY <1>1, <1>2, <1>3, SameDelay

LEMMA DelayStep == StartInv /\ ConsoleInv /\ DelayInv /\ [Next]_vars => DelayInv'
<1> SUFFICES ASSUME StartInv, ConsoleInv, DelayInv, [Next]_vars PROVE DelayInv'
  OBVIOUS
<1>1. CASE Boot
  <2>1. pc \notin {"run", "halted"} /\ pc' \notin {"run", "halted"}
    BY <1>1 DEF Boot, StartupNext, Sgdt, CStart, Init8259A, InitIdt, InitTss, InitLdt, Lgdt,
                HappyMain, InitProc
  <2>2. UNCHANGED <<at, t, eax, since>>
    BY <1>1 DEF Boot, data
  <2>3. \A p \in User : at[p] \notin Waiting /\ at[p] /= "test"
    BY <2>1, Begins DEF ConsoleInv, Waiting
  <2> QED
    BY <2>1, <2>2, <2>3 DEF DelayInv
<1>2. CASE Restart
  <2>1. pc = "restart" /\ ticks = 0 /\ UNCHANGED <<ticks, at, t, eax, since>>
    BY <1>2 DEF Restart, StartInv, LinesInv, data
  <2>2. \A p \in User : at[p] \notin Waiting /\ at[p] /= "test"
    BY <2>1, Begins DEF ConsoleInv, Waiting
  <2>3. 0 \in 0 .. WORD - 1
    BY WordNat
  <2> QED
    BY <2>1, <2>2, <2>3 DEF DelayInv
<1>3. CASE Tick
  BY <1>3, TickDelay
<1>4. CASE Schedule
  BY <1>4, SameDelay DEF Schedule, data, DelayInv
<1>5. CASE TtyTask
  <2>1. /\ UNCHANGED <<pc, ticks, t, eax, since>> /\ \E to : at' = [at EXCEPT ![Tty] = to]
    BY <1>5 DEF TtyTask, InitKeyboard, InitTty, Execute, data
  <2>2. DOMAIN at' = Proc /\ \A p \in User : at'[p] = at[p]
    BY <2>1, Processes DEF DelayInv
  <2> QED
    BY <2>1, <2>2, SameDelay
<1>6. ASSUME NEW p \in User, UserStep(p) PROVE DelayInv'
  BY <1>6, OtherDelay, SysGetTicksDelay, SysGetTicksAgainDelay, TestDelay DEF UserStep
<1>7. ASSUME NEW p \in Proc, NEW v \in ExceptionVector, Exception(p, v) PROVE DelayInv'
  BY <1>7, SameDelay DEF Exception, data, DelayInv
<1>8. CASE UNCHANGED vars
  BY <1>8, SameDelay DEF vars, data, DelayInv
<1> QED
  BY <1>1, <1>2, <1>3, <1>4, <1>5, <1>6, <1>7, <1>8 DEF Next, Halted

\* For every delay that an int can hold with a second to spare, however often
\* the counter wraps and whoever runs meanwhile.
THEOREM NeverEarlyTheorem == Spec => []NeverEarly
<1>1. DelayInv => NeverEarly
  <2> SUFFICES ASSUME DelayInv, NEW p \in User, at[p] = "test", DelayIsOver(p)
               PROVE  since[p] * SECOND >= ms(p) * HZ
    BY DEF NeverEarly
  <2>1. since[p] * SECOND \in Nat
    BY WordNat DEF DelayInv
  <2>2. ms(p) * HZ \in Nat
    BY UserProcessAssumption, WordNat
  <2> QED
    BY <2>1, <2>2, DelayTooShort
<1> QED
  BY <1>1, InitDelay, DelayStep, InitConsole, ConsoleStep, StartCorrect, PTL DEF Spec
-----------------------------------------------------------------------------
(* Induction and recursion.  What a recursive definition computes follows  *)
(* by induction, which here is for a set of numbers rather than for a      *)
(* predicate.                                                              *)

\* Induction for a set of numbers: its least missing number is not 0, nor does it
\* follow one that is there.
LEMMA Induction ==
  ASSUME NEW N \in Nat, NEW S, 0 \in S, \A k \in 1 .. N : k - 1 \in S => k \in S
  PROVE  \A k \in 0 .. N : k \in S
<1> DEFINE T == {k \in 0 .. N : k \notin S}
<1> SUFFICES ASSUME T # {} PROVE FALSE
  OBVIOUS
<1>1. PICK x \in T : \A y \in T : ~(<<y, x>> \in OpToRel(<, Nat))
  <2>1. T \subseteq Nat
    OBVIOUS
  <2> HIDE DEF T
  <2> QED
    BY <2>1, WFMin, NatLessThanWellFounded, Zenon
<1>2. \A y \in T : ~(y < x)
  <2>1. T \subseteq Nat
    OBVIOUS
  <2> HIDE DEF T
  <2> QED
    BY <1>1, <2>1 DEF OpToRel
<1>3. x \in 1 .. N /\ x - 1 \in 0 .. N /\ x - 1 < x
  OBVIOUS
<1>4. x - 1 \in S
  BY <1>2, <1>3
<1> QED
  BY <1>3, <1>4

\* A recursion along 0 .. N defines a function, ...
Steps(N, V, G) == G \in [1 .. N -> [V -> V]]

Follows(f, N, V, z, G) ==
  f \in [0 .. N -> V] /\ f[0] = z /\ \A k \in 1 .. N : f[k] = G[k][f[k - 1]]

LEMMA RecursionDefines ==
  ASSUME NEW N \in Nat, NEW V, NEW z \in V, NEW G, Steps(N, V, G)
  PROVE  \E f : Follows(f, N, V, z, G)
<1> USE DEF Steps
<1> DEFINE Is(f, m) == f[0] = z /\ \A k \in 1 .. m : f[k] = G[k][f[k - 1]]
           S == {m \in 0 .. N : \E f \in [0 .. m -> V] : Is(f, m)}
<1>1. 0 \in S
  <2> DEFINE f == [k \in 0 .. 0 |-> z]
  <2>1. f \in [0 .. 0 -> V] /\ Is(f, 0)
    OBVIOUS
  <2>2. 0 \in 0 .. N
    OBVIOUS
  <2> HIDE DEF f, Is
  <2> QED
    BY <2>1, <2>2
<1>2. ASSUME NEW m \in 1 .. N, m - 1 \in S PROVE m \in S
  <2>1. PICK f \in [0 .. m - 1 -> V] : Is(f, m - 1)
    BY <1>2
  <2> DEFINE g == [k \in 0 .. m |-> IF k = m THEN G[m][f[m - 1]] ELSE f[k]]
  <2>2. G[m][f[m - 1]] \in V
    OBVIOUS
  <2>3. g \in [0 .. m -> V]
    BY <2>2
  <2>4. \A k \in 0 .. m : g[k] = IF k = m THEN G[m][f[m - 1]] ELSE f[k]
    OBVIOUS
  <2> HIDE DEF g
  <2>5. g[0] = z
    BY <2>1, <2>4
  <2>6. ASSUME NEW k \in 1 .. m PROVE g[k] = G[k][g[k - 1]]
    <3>1. g[k - 1] = f[k - 1]
      BY <2>4
    <3>2. CASE k = m
      BY <2>4, <3>1, <3>2
    <3>3. CASE k # m
      BY <2>1, <2>4, <3>1, <3>3
    <3> QED
      BY <3>2, <3>3
  <2> QED
    BY <2>3, <2>5, <2>6
<1> HIDE DEF S
<1>3. \A m \in 0 .. N : m \in S
  BY <1>1, <1>2, Induction
<1>4. N \in S
  BY <1>3
<1>5. PICK f \in [0 .. N -> V] : Is(f, N)
  BY <1>4 DEF S
<1> QED
  BY <1>5 DEF Follows

\* ... and only one.
StepAlike(f, g, N) == f[0] = g[0] /\ \A k \in 1 .. N : f[k - 1] = g[k - 1] => f[k] = g[k]

Alike(f, g, N) == \A k \in 0 .. N : f[k] = g[k]

LEMMA RecursionUnique ==
  ASSUME NEW N \in Nat, NEW f, NEW g, StepAlike(f, g, N)
  PROVE  Alike(f, g, N)
<1> USE DEF StepAlike, Alike
<1> DEFINE S == {k \in 0 .. N : f[k] = g[k]}
<1>1. 0 \in S /\ \A k \in 1 .. N : k - 1 \in S => k \in S
  OBVIOUS
<1> HIDE DEF S
<1>2. \A k \in 0 .. N : k \in S
  BY <1>1, Induction
<1> QED
  BY <1>2 DEF S

-----------------------------------------------------------------------------
(* itoa().                                                                 *)

LEMMA Digits == RADIX \in Nat /\ RADIX > 1 /\ DIGITS \in Nat /\ DIGITS > 0
BY UserProcessAssumption

LEMMA Powers ==
  /\ Power \in [0 .. DIGITS -> Nat \ {0}]
  /\ Power[0] = 1
  /\ \A k \in 1 .. DIGITS : Power[k] = RADIX * Power[k - 1]
<1> DEFINE V == Nat \ {0}
           G == [k \in 1 .. DIGITS |-> [v \in V |-> RADIX * v]]
<1>1. G \in [1 .. DIGITS -> [V -> V]] /\ 1 \in V
  BY Digits
<1> HIDE DEF V
<1>2. PICK f \in [0 .. DIGITS -> V] : f[0] = 1 /\ \A k \in 1 .. DIGITS : f[k] = G[k][f[k - 1]]
  <2>1. Steps(DIGITS, V, G)
    BY <1>1 DEF Steps
  <2>2. \E f : Follows(f, DIGITS, V, 1, G)
    <3> HIDE DEF G
    <3> QED
      BY <1>1, <2>1, Digits, RecursionDefines
  <2> QED
    BY <2>2 DEF Follows
<1>3. \A k \in 1 .. DIGITS : f[k - 1] \in V
  BY Digits
<1>4. \A k \in 1 .. DIGITS : f[k] = RADIX * f[k - 1]
  BY <1>2, <1>3
<1>5. f = [k \in 0 .. DIGITS |-> IF k = 0 THEN 1 ELSE RADIX * f[k - 1]]
  BY <1>2, <1>4, Digits
<1>6. Power = [k \in 0 .. DIGITS |-> IF k = 0 THEN 1 ELSE RADIX * Power[k - 1]]
  BY <1>5, Zenon DEF Power
<1>7. Power[0] = 1 /\ \A k \in 1 .. DIGITS : Power[k] = RADIX * Power[k - 1]
  BY <1>6, Digits
<1>8. \A k \in 0 .. DIGITS : f[k] = Power[k]
  <2>1. StepAlike(f, Power, DIGITS)
    BY <1>2, <1>4, <1>7 DEF StepAlike
  <2>2. Alike(f, Power, DIGITS)
    BY <2>1, Digits, RecursionUnique
  <2> QED
    BY <2>2 DEF Alike
<1>9. Power \in [0 .. DIGITS -> V]
  BY <1>6, <1>8
<1> QED
  BY <1>7, <1>9 DEF V

\* The prefixes of the digits s have the values v.
Values(s, v) ==
  /\ v \in [0 .. Len(s) -> Nat]
  /\ v[0] = 0
  /\ \A k \in 1 .. Len(s) : v[k] = v[k - 1] * RADIX + s[k]

LEMMA ValuesFound ==
  ASSUME NEW s \in Seq(Nat)
  PROVE  \E v : Values(s, v) /\ ValueOf(s) = v[Len(s)]
<1> DEFINE L == Len(s)
           G == [k \in 1 .. L |-> [x \in Nat |-> x * RADIX + s[k]]]
<1>1. L \in Nat /\ 0 \in Nat /\ \A k \in 1 .. L : s[k] \in Nat
  OBVIOUS
<1> HIDE DEF L
<1>2. \A k \in 1 .. L, x \in Nat : x * RADIX + s[k] \in Nat
  BY <1>1, Digits
<1>3. Steps(L, Nat, G)
  BY <1>2 DEF Steps
<1>4. PICK f : Follows(f, L, Nat, 0, G)
  <2> HIDE DEF G
  <2> QED
    BY <1>1, <1>3, RecursionDefines
<1>5. /\ f \in [0 .. L -> Nat] /\ f[0] = 0
      /\ \A k \in 1 .. L : f[k] = f[k - 1] * RADIX + s[k]
  <2>1. /\ f \in [0 .. L -> Nat] /\ f[0] = 0
        /\ \A k \in 1 .. L : f[k] = G[k][f[k - 1]]
    BY <1>4 DEF Follows
  <2>2. \A k \in 1 .. L : f[k - 1] \in Nat
    BY <1>1, <2>1
  <2> QED
    BY <2>1, <2>2
<1>6. f = [k \in 0 .. L |-> IF k = 0 THEN 0 ELSE f[k - 1] * RADIX + s[k]]
  BY <1>1, <1>5
<1> DEFINE num == CHOOSE num : num = [k \in 0 .. L |-> IF k = 0 THEN 0 ELSE num[k - 1] * RADIX + s[k]]
<1>7. num = [k \in 0 .. L |-> IF k = 0 THEN 0 ELSE num[k - 1] * RADIX + s[k]]
  BY <1>6, Zenon
<1>8. ValueOf(s) = num[L]
  BY Zenon DEF ValueOf, L
<1> HIDE DEF num
<1>9. num[0] = 0 /\ \A k \in 1 .. L : num[k] = num[k - 1] * RADIX + s[k]
  BY <1>1, <1>7
<1>10. Alike(f, num, L)
  <2>1. StepAlike(f, num, L)
    BY <1>5, <1>9 DEF StepAlike
  <2> QED
    BY <1>1, <2>1, RecursionUnique
<1>11. num \in [0 .. L -> Nat]
  BY <1>5, <1>7, <1>10 DEF Alike
<1>12. Values(s, num)
  BY <1>9, <1>11 DEF Values, L
<1> QED
  BY <1>8, <1>12 DEF L

LEMMA ValueOfNothing == ValueOf(<<>>) = 0
<1>1. <<>> \in Seq(Nat) /\ Len(<<>>) = 0
  OBVIOUS
<1>2. PICK v : Values(<<>>, v) /\ ValueOf(<<>>) = v[Len(<<>>)]
  BY <1>1, ValuesFound
<1> QED
  BY <1>1, <1>2 DEF Values

LEMMA ValueOfAppend ==
  ASSUME NEW s \in Seq(Nat), NEW ch \in Nat
  PROVE  ValueOf(Append(s, ch)) = ValueOf(s) * RADIX + ch
<1> DEFINE u == Append(s, ch)
           L == Len(s)
<1>1. u \in Seq(Nat) /\ L \in Nat /\ Len(u) = L + 1 /\ u[L + 1] = ch /\ \A k \in 1 .. L : u[k] = s[k]
  BY AppendProperties
<1>2. PICK v : Values(s, v) /\ ValueOf(s) = v[Len(s)]
  BY ValuesFound
<1> HIDE DEF u
<1>3. PICK w : Values(u, w) /\ ValueOf(u) = w[Len(u)]
  BY <1>1, ValuesFound
<1> HIDE DEF L
<1>4. /\ w[0] = 0 /\ w[L + 1] = w[L] * RADIX + ch
      /\ \A k \in 1 .. L : w[k] = w[k - 1] * RADIX + s[k]
  <2>1. w[0] = 0 /\ \A k \in 1 .. L + 1 : w[k] = w[k - 1] * RADIX + u[k]
    BY <1>1, <1>3 DEF Values
  <2>2. L + 1 \in 1 .. L + 1 /\ (L + 1) - 1 = L
    BY <1>1
  <2>3. w[L + 1] = w[(L + 1) - 1] * RADIX + u[L + 1]
    BY <2>1, <2>2, Zenon
  <2>4. \A k \in 1 .. L : k \in 1 .. L + 1
    BY <1>1
  <2>5. \A k \in 1 .. L : w[k] = w[k - 1] * RADIX + s[k]
    BY <1>1, <2>1, <2>4, Zenon
  <2> QED
    BY <1>1, <2>1, <2>2, <2>3, <2>5, Zenon
<1>5. v[0] = 0 /\ \A k \in 1 .. L : v[k] = v[k - 1] * RADIX + s[k]
  BY <1>2 DEF Values, L
<1>6. StepAlike(v, w, L)
  BY <1>4, <1>5 DEF StepAlike
<1>7. v[L] = w[L]
  <2>1. Alike(v, w, L)
    BY <1>1, <1>6, RecursionUnique
  <2>2. L \in 0 .. L
    BY <1>1
  <2> QED
    BY <2>1, <2>2 DEF Alike
<1>8. ValueOf(s) = v[L] /\ ValueOf(u) = w[L + 1]
  BY <1>1, <1>2, <1>3 DEF L
<1> QED
  BY <1>4, <1>7, <1>8 DEF u

-----------------------------------------------------------------------------
\* A number, its quotient and its last digit.
LEMMA DivDigit ==
  ASSUME NEW x \in Nat, NEW y \in Nat \ {0}
  PROVE  /\ x \div y \in Nat
         /\ x \div (RADIX * y) \in Nat
         /\ (x \div y) % RADIX \in 0 .. RADIX - 1
         /\ x \div y = (x \div (RADIX * y)) * RADIX + ((x \div y) % RADIX)
<1> DEFINE q == x \div y
<1>1. PICK r \in 0 .. y - 1 : x = q * y + r
  <2>1. x = y * (x \div y) + (x % y) /\ x % y \in 0 .. y - 1 /\ x \div y \in Int
    OBVIOUS
  <2>2. y * (x \div y) = (x \div y) * y
    BY <2>1
  <2> QED
    BY <2>1, <2>2
<1>2. q \in Nat
  OBVIOUS
<1> HIDE DEF q
<1> DEFINE a == q \div RADIX
           d == q % RADIX
<1>3. q = a * RADIX + d /\ d \in 0 .. RADIX - 1 /\ a \in Nat
  <2>1. q = RADIX * (q \div RADIX) + (q % RADIX) /\ q % RADIX \in 0 .. RADIX - 1 /\ q \div RADIX \in Nat
    BY <1>2, Digits
  <2>2. RADIX * (q \div RADIX) = (q \div RADIX) * RADIX
    BY <2>1, Digits
  <2> QED
    BY <2>1, <2>2
<1>4. d = (x \div y) % RADIX
  BY DEF q
<1> HIDE DEF a, d
<1>5. x \div (RADIX * y) = a
  <2> DEFINE m == RADIX * y
  <2>1. m \in Nat /\ m > 0
    BY Digits
  <2>2. x = a * m + (d * y + r)
    <3>1. q * y = (a * RADIX) * y + d * y
      BY <1>2, <1>3, Digits
    <3>2. (a * RADIX) * y = a * (RADIX * y)
      BY <1>3, Digits
    <3>3. q * y \in Nat /\ (a * RADIX) * y \in Nat /\ d * y \in Nat /\ a * m \in Nat
      BY <1>2, <1>3, <2>1, Digits
    <3> QED
      BY <1>1, <3>1, <3>2, <3>3
  <2>3. d * y + r \in 0 .. m - 1
    <3>1. d * y <= (RADIX - 1) * y
      BY <1>3, Digits
    <3>2. (RADIX - 1) * y = m - y
      BY Digits
    <3>3. d * y \in Nat
      BY <1>3, Digits
    <3> QED
      BY <2>1, <3>1, <3>2, <3>3
  <2> HIDE DEF m
  <2>4. ASSUME NEW e \in Nat, e < m
        PROVE  (a * m + e) \div m = a
    BY <1>3, <2>1, <2>4
  <2>5. (a * m + (d * y + r)) \div m = a
    BY <2>1, <2>3, <2>4
  <2> QED
    BY <2>2, <2>5 DEF m
<1> QED
  BY <1>2, <1>3, <1>4, <1>5 DEF q

\* itoa() writes a number with its digits, without leading zeros.
LEMMA ItoaIsRight ==
  ASSUME NEW num \in 0 .. NUMBERS - 1
  PROVE  /\ itoa(num) \in Seq(Nat)
         /\ ValueOf(itoa(num)) = num
         /\ Len(itoa(num)) > 1 => itoa(num)[1] # 0
<1>1. NUMBERS = Power[DIGITS] /\ num \in Nat /\ num < NUMBERS
  <2>1. NUMBERS \in Nat
    BY Powers, Digits DEF NUMBERS
  <2> QED
    BY <2>1 DEF NUMBERS
<1>2. CASE num = 0
  <2>1. itoa(num) = <<0>>
    BY <1>2 DEF itoa
  <2>2. <<0>> \in Seq(Nat) /\ <<0>> = Append(<<>>, 0) /\ Len(<<0>>) = 1 /\ <<>> \in Seq(Nat)
    OBVIOUS
  <2>3. ValueOf(Append(<<>>, 0)) = ValueOf(<<>>) * RADIX + 0
    BY <2>2, ValueOfAppend
  <2>4. ValueOf(Append(<<>>, 0)) = 0
    BY <2>3, ValueOfNothing, Digits
  <2>5. ValueOf(<<0>>) = 0
    BY <2>2, <2>4, Zenon
  <2>6. ~(Len(<<0>>) > 1)
    BY <2>2
  <2> QED
    BY <1>2, <2>1, <2>2, <2>5, <2>6, Zenon
<1>3. CASE num # 0
  <2> DEFINE ch(k) == Digit(num, DIGITS - k)
             one(k, v) == IF v /= <<>> \/ ch(k) > 0 THEN Append(v, ch(k)) ELSE <<>>
             G == [k \in 1 .. DIGITS |-> [v \in Seq(Nat) |-> one(k, v)]]
  <2>1. \A k \in 1 .. DIGITS :
          /\ ch(k) \in Nat
          /\ num \div Power[DIGITS - k]
             = (num \div Power[DIGITS - (k - 1)]) * RADIX + ch(k)
    <3> SUFFICES ASSUME NEW k \in 1 .. DIGITS
                 PROVE  /\ ch(k) \in Nat
                        /\ num \div Power[DIGITS - k]
                           = (num \div Power[DIGITS - (k - 1)]) * RADIX + ch(k)
      OBVIOUS
    <3> DEFINE y == Power[DIGITS - k]
    <3>1. /\ DIGITS - (k - 1) \in 1 .. DIGITS /\ DIGITS - k \in 0 .. DIGITS
          /\ (DIGITS - (k - 1)) - 1 = DIGITS - k
      BY Digits
    <3>2. y \in Nat \ {0} /\ Power[DIGITS - (k - 1)] = RADIX * y
      BY <3>1, Powers
    <3>3. ch(k) = (num \div y) % RADIX
      BY DEF Digit
    <3> HIDE DEF y, ch
    <3>4. /\ (num \div y) % RADIX \in 0 .. RADIX - 1
          /\ num \div y = (num \div (RADIX * y)) * RADIX + ((num \div y) % RADIX)
      BY <1>1, <3>2, DivDigit
    <3> QED
      BY <3>2, <3>3, <3>4, Digits DEF y
  <2> HIDE DEF ch
  <2>2. Steps(DIGITS, Seq(Nat), G)
    <3>1. \A k \in 1 .. DIGITS, v \in Seq(Nat) : one(k, v) \in Seq(Nat)
      BY <2>1
    <3> HIDE DEF one
    <3> QED
      BY <3>1 DEF Steps
  <2>3. PICK f : Follows(f, DIGITS, Seq(Nat), <<>>, G)
    <3> HIDE DEF G
    <3>1. <<>> \in Seq(Nat)
      OBVIOUS
    <3> QED
      BY <2>2, <3>1, Digits, RecursionDefines
  <2>4. /\ f \in [0 .. DIGITS -> Seq(Nat)] /\ f[0] = <<>>
        /\ \A k \in 1 .. DIGITS : f[k] = one(k, f[k - 1])
    <3> HIDE DEF one
    <3>1. /\ f \in [0 .. DIGITS -> Seq(Nat)] /\ f[0] = <<>>
          /\ \A k \in 1 .. DIGITS : f[k] = G[k][f[k - 1]]
      BY <2>3 DEF Follows
    <3>2. \A k \in 1 .. DIGITS : f[k - 1] \in Seq(Nat)
      BY <3>1, Digits
    <3> QED
      BY <3>1, <3>2
  <2> HIDE DEF G
  <2> DEFINE str == CHOOSE str : str = [k \in 0 .. DIGITS |-> IF k = 0 THEN <<>> ELSE one(k, str[k - 1])]
  <2>5. str = [k \in 0 .. DIGITS |-> IF k = 0 THEN <<>> ELSE one(k, str[k - 1])]
    <3> HIDE DEF one
    <3>1. f = [k \in 0 .. DIGITS |-> IF k = 0 THEN <<>> ELSE one(k, f[k - 1])]
      BY <2>4, Digits
    <3> QED
      BY <3>1, Zenon
  <2>6. itoa(num) = str[DIGITS]
    BY <1>3, Zenon DEF itoa, ch
  <2> HIDE DEF str
  <2>7. str[0] = <<>> /\ \A k \in 1 .. DIGITS : str[k] = one(k, str[k - 1])
    <3> HIDE DEF one
    <3> QED
      BY <2>5, Digits
  <2> DEFINE Good(k) == /\ str[k] \in Seq(Nat)
                        /\ str[k] # <<>> => str[k][1] # 0
                        /\ ValueOf(str[k]) = num \div Power[DIGITS - k]
             S == {k \in 0 .. DIGITS : Good(k)}
  <2>8. Good(0)
    <3>1. num \div Power[DIGITS] = 0
      BY <1>1, Powers
    <3>2. <<>> \in Seq(Nat) /\ DIGITS - 0 = DIGITS
      BY Digits
    <3> QED
      BY <2>7, <3>1, <3>2, ValueOfNothing
  <2>9. ASSUME NEW k \in 1 .. DIGITS, Good(k - 1) PROVE Good(k)
    <3> DEFINE s == str[k - 1]
    <3>1. s \in Seq(Nat) /\ (s # <<>> => s[1] # 0) /\ str[k] = one(k, s)
      BY <2>7, <2>9
    <3>2. ValueOf(s) = num \div Power[DIGITS - (k - 1)]
      BY <2>9
    <3>3. ch(k) \in Nat /\ num \div Power[DIGITS - k] = ValueOf(s) * RADIX + ch(k)
      BY <2>1, <3>2
    <3> HIDE DEF s
    <3>4. CASE s /= <<>> \/ ch(k) > 0
      <4>1. str[k] = Append(s, ch(k))
        BY <3>1, <3>4
      <4>2. ValueOf(str[k]) = num \div Power[DIGITS - k]
        BY <3>1, <3>3, <4>1, ValueOfAppend
      <4>3. str[k] \in Seq(Nat) /\ str[k][1] # 0
        <5>1. CASE s = <<>>
          BY <3>3, <3>4, <4>1, <5>1
        <5>2. CASE s # <<>>
          <6>1. Append(s, ch(k)) \in Seq(Nat) /\ Append(s, ch(k))[1] = s[1]
            BY <3>1, <3>3, <5>2
          <6> QED
            BY <3>1, <4>1, <5>2, <6>1
        <5> QED
          BY <5>1, <5>2
      <4> QED
        BY <4>2, <4>3
    <3>5. CASE s = <<>> /\ ~(ch(k) > 0)
      <4>1. str[k] = <<>> /\ ch(k) = 0
        BY <3>1, <3>3, <3>5
      <4>2. num \div Power[DIGITS - k] = 0
        BY <3>3, <3>5, <4>1, ValueOfNothing, Digits
      <4>3. <<>> \in Seq(Nat)
        OBVIOUS
      <4> QED
        BY <4>1, <4>2, <4>3, ValueOfNothing
    <3> QED
      BY <3>4, <3>5
  <2>10. DIGITS \in S
    <3> HIDE DEF Good
    <3>1. 0 \in S /\ \A k \in 1 .. DIGITS : k - 1 \in S => k \in S
      BY <2>8, <2>9, Digits
    <3> HIDE DEF S
    <3>2. \A k \in 0 .. DIGITS : k \in S
      BY <3>1, Digits, Induction
    <3> QED
      BY <3>2, Digits
  <2>11. num \div Power[DIGITS - DIGITS] = num
    <3>1. DIGITS - DIGITS = 0
      BY Digits
    <3>2. num \div 1 = num
      BY <1>1
    <3> QED
      BY <3>1, <3>2, Powers
  <2>12. Good(DIGITS)
    BY <2>10
  <2>13. str[DIGITS] \in Seq(Nat) /\ (str[DIGITS] # <<>> => str[DIGITS][1] # 0)
    BY <2>12
  <2> QED
    <3>1. Len(str[DIGITS]) > 1 => str[DIGITS] # <<>>
      BY <2>13
    <3> QED
      BY <2>6, <2>11, <2>12, <3>1
<1> QED
  BY <1>2, <1>3

-----------------------------------------------------------------------------
(* The numbers that TestB() prints.                                        *)

Number == 0 .. NUMBERS - 1

Printing(p) == at[p] \in {"write", "sys_write"}

PrintInv ==
  /\ DOMAIN at = Proc
  /\ i \in [User -> Number] /\ prints \in [User -> Number]
  /\ DOMAIN buf = User /\ DOMAIN written = User
  /\ \A p \in User :
       /\ Printing(p) => buf[p] = itoa(prints[p]) /\ i[p] = (prints[p] + 1) % NUMBERS
       /\ ~Printing(p) => i[p] = prints[p]
       /\ written[p] /= <<>> =>
            \E w \in Number : written[p] = itoa(w) /\ prints[p] = (w + 1) % NUMBERS

LEMMA NumbersNat == NUMBERS \in Nat \ {0}
BY Powers, Digits DEF NUMBERS

LEMMA NextNumber == \A k \in Number : (k + 1) % NUMBERS \in Number
BY NumbersNat DEF Number

LEMMA InitPrint == Init => PrintInv
<1> SUFFICES ASSUME Init PROVE PrintInv
  OBVIOUS
<1>1. /\ at = [p \in Proc |-> Begin(p)]
      /\ i = [p \in User |-> 0] /\ prints = [p \in User |-> 0]
      /\ buf = [p \in User |-> <<>>] /\ written = [p \in User |-> <<>>]
  BY DEF Init
<1>2. 0 \in Number
  BY NumbersNat DEF Number
<1>3. \A p \in User : ~Printing(p)
  BY <1>1, Begins, Processes DEF Printing
<1> QED
  BY <1>1, <1>2, <1>3 DEF PrintInv

\* A step after which nobody has begun or ended to print.
LEMMA SamePrint ==
  ASSUME PrintInv, UNCHANGED <<i, prints, buf, written>>, DOMAIN at' = Proc,
         \A p \in User : Printing(p)' <=> Printing(p)
  PROVE  PrintInv'
BY DEF PrintInv

LEMMA PrintfPrint ==
  ASSUME PrintInv, NEW p \in User, Printf(p)
  PROVE  PrintInv'
<1>1. /\ at[p] = "printf" /\ at' = [at EXCEPT ![p] = "write"]
      /\ buf' = [buf EXCEPT ![p] = itoa(i[p])]
      /\ i' = [i EXCEPT ![p] = (@ + 1) % NUMBERS]
      /\ UNCHANGED <<prints, written>>
  BY DEF Printf, Execute
<1>2. i[p] \in Number /\ i[p] = prints[p] /\ (i[p] + 1) % NUMBERS \in Number
  BY <1>1, NextNumber DEF PrintInv, Printing
<1>3. i' \in [User -> Number] /\ DOMAIN buf' = User /\ DOMAIN at' = Proc
  BY <1>1, <1>2 DEF PrintInv
<1>4. Printing(p)' /\ buf'[p] = itoa(prints[p]) /\ i'[p] = (prints[p] + 1) % NUMBERS
  BY <1>1, <1>2, Processes DEF PrintInv, Printing
<1>5. \A q \in User \ {p} : (Printing(q)' <=> Printing(q)) /\ buf'[q] = buf[q] /\ i'[q] = i[q]
  BY <1>1, Processes DEF PrintInv, Printing
<1> QED
  BY <1>1, <1>3, <1>4, <1>5 DEF PrintInv

LEMMA SysWritePrint ==
  ASSUME PrintInv, NEW p \in User, SysWrite(p)
  PROVE  PrintInv'
<1>1. /\ at[p] = "sys_write" /\ at' = [at EXCEPT ![p] = "milli_delay"]
      /\ written' = [written EXCEPT ![p] = buf[p]]
      /\ prints' = [prints EXCEPT ![p] = (@ + 1) % NUMBERS]
      /\ UNCHANGED <<i, buf>>
  BY DEF SysWrite, Execute
<1>2. /\ prints[p] \in Number /\ buf[p] = itoa(prints[p])
      /\ i[p] = (prints[p] + 1) % NUMBERS /\ (prints[p] + 1) % NUMBERS \in Number
  BY <1>1, NextNumber DEF PrintInv, Printing
<1>3. prints' \in [User -> Number] /\ DOMAIN written' = User /\ DOMAIN at' = Proc
  BY <1>1, <1>2 DEF PrintInv
<1>4. ~Printing(p)' /\ written'[p] = itoa(prints[p]) /\ prints'[p] = (prints[p] + 1) % NUMBERS
  BY <1>1, <1>2, Processes DEF PrintInv, Printing
<1>5. \A q \in User \ {p} :
        (Printing(q)' <=> Printing(q)) /\ written'[q] = written[q] /\ prints'[q] = prints[q]
  BY <1>1, Processes DEF PrintInv, Printing
<1> QED
  BY <1>1, <1>2, <1>3, <1>4, <1>5 DEF PrintInv

LEMMA OtherPrint ==
  ASSUME PrintInv, NEW p \in User,
         Write(p) \/ CallGetTicks(p) \/ SysGetTicks(p) \/ SysGetTicksAgain(p) \/ Test(p)
  PROVE  PrintInv'
<1>1. /\ UNCHANGED <<i, prints, buf, written>>
      /\ \/ at[p] = "write" /\ at' = [at EXCEPT ![p] = "sys_write"]
         \/ /\ at[p] \notin {"write", "sys_write"}
            /\ \E to \in {"sys_get_ticks", "sys_get_ticks_again", "get_ticks", "test", Begin(p)} :
                 at' = [at EXCEPT ![p] = to]
  BY DEF Write, CallGetTicks, SysGetTicks, SysGetTicksAgain, Test, Execute, data
<1>2. Begin(p) \notin {"write", "sys_write"}
  BY Begins
<1>3. DOMAIN at' = Proc /\ \A q \in User \ {p} : at'[q] = at[q]
  BY <1>1, Processes DEF PrintInv
<1>4. Printing(p)' <=> Printing(p)
  BY <1>1, <1>2, Processes DEF PrintInv, Printing
<1>5. \A q \in User : Printing(q)' <=> Printing(q)
  BY <1>3, <1>4 DEF Printing
<1> QED
  BY <1>1, <1>3, <1>5, SamePrint

LEMMA PrintStep == PrintInv /\ [Next]_vars => PrintInv'
<1> SUFFICES ASSUME PrintInv, [Next]_vars PROVE PrintInv'
  OBVIOUS
<1>1. ASSUME UNCHANGED <<at, i, prints, buf, written>> PROVE PrintInv'
  BY <1>1 DEF PrintInv, Printing
<1>2. CASE TtyTask
  <2>1. UNCHANGED <<i, prints, buf, written>> /\ \E to : at' = [at EXCEPT ![Tty] = to]
    BY <1>2 DEF TtyTask, InitKeyboard, InitTty, Execute, data
  <2>2. DOMAIN at' = Proc /\ \A p \in User : at'[p] = at[p]
    BY <2>1, Processes DEF PrintInv
  <2> QED
    BY <2>1, <2>2 DEF PrintInv, Printing
<1>3. ASSUME NEW p \in User, UserStep(p) PROVE PrintInv'
  BY <1>3, PrintfPrint, SysWritePrint, OtherPrint DEF UserStep
<1>4. CASE Boot \/ Restart \/ Tick \/ Schedule
  BY <1>1, <1>4 DEF Boot, Restart, Tick, Schedule, data
<1>5. ASSUME NEW p \in Proc, NEW v \in ExceptionVector, Exception(p, v) PROVE PrintInv'
  BY <1>1, <1>5 DEF Exception, data
<1>6. CASE UNCHANGED vars
  BY <1>1, <1>6 DEF vars, data
<1> QED
  BY <1>2, <1>3, <1>4, <1>5, <1>6 DEF Next, Halted

\* For every base, every number of digits and every interleaving of the processes.
THEOREM PrintedInOrderTheorem == Spec => []PrintedInOrder
<1>1. PrintInv => PrintedInOrder
  <2> SUFFICES ASSUME PrintInv, NEW p \in User, written[p] /= <<>>
               PROVE  /\ (ValueOf(written[p]) + 1) % NUMBERS = prints[p]
                      /\ Len(written[p]) > 1 => written[p][1] /= 0
    BY DEF PrintedInOrder
  <2>1. PICK w \in Number : written[p] = itoa(w) /\ prints[p] = (w + 1) % NUMBERS
    BY DEF PrintInv
  <2>2. ValueOf(itoa(w)) = w /\ (Len(itoa(w)) > 1 => itoa(w)[1] # 0)
    BY ItoaIsRight DEF Number
  <2> QED
    BY <2>1, <2>2
<1> QED
  BY <1>1, InitPrint, PrintStep, PTL DEF Spec

-----------------------------------------------------------------------------
(* milli_delay() is not late either.                                       *)

LEMMA Turns == \A q \in Proc : Turn(q) \in Nat /\ Share[q] \in Nat \ {0} /\ Share[q] <= Turn(q)
<1> SUFFICES ASSUME NEW q \in Proc
             PROVE  Turn(q) \in Nat /\ Share[q] \in Nat \ {0} /\ Share[q] <= Turn(q)
  OBVIOUS
<1>1. Share[q] \in Nat \ {0}
  BY StartupAssumption DEF Share
<1> HIDE DEF Share
<1> QED
  BY <1>1, UserProcessAssumption DEF Turn

Sums(Q, f) ==
  /\ f \in [0 .. NR_TASKS -> Nat]
  /\ f[0] = 0
  /\ \A q \in 1 .. NR_TASKS : f[q] = f[q - 1] + IF q - 1 \in Q THEN Turn(q - 1) ELSE 0

LEMMA TurnsFound ==
  ASSUME NEW Q
  PROVE  \E f : Sums(Q, f) /\ TurnsOf(Q) = f[NR_TASKS]
<1> DEFINE one(q) == IF q - 1 \in Q THEN Turn(q - 1) ELSE 0
           G == [q \in 1 .. NR_TASKS |-> [x \in Nat |-> x + one(q)]]
<1>1. NR_TASKS \in Nat /\ 0 \in Nat /\ \A q \in 1 .. NR_TASKS : one(q) \in Nat
  <2>1. \A q \in 1 .. NR_TASKS : q - 1 \in Proc
    BY StartupAssumption DEF Proc
  <2> QED
    BY <2>1, Turns, StartupAssumption
<1> HIDE DEF one
<1>2. Steps(NR_TASKS, Nat, G)
  BY <1>1 DEF Steps
<1>3. PICK f : Follows(f, NR_TASKS, Nat, 0, G)
  <2> HIDE DEF G
  <2> QED
    BY <1>1, <1>2, RecursionDefines
<1>4. /\ f \in [0 .. NR_TASKS -> Nat] /\ f[0] = 0
      /\ \A q \in 1 .. NR_TASKS : f[q] = f[q - 1] + one(q)
  <2>1. /\ f \in [0 .. NR_TASKS -> Nat] /\ f[0] = 0
        /\ \A q \in 1 .. NR_TASKS : f[q] = G[q][f[q - 1]]
    BY <1>3 DEF Follows
  <2>2. \A q \in 1 .. NR_TASKS : f[q - 1] \in Nat
    BY <1>1, <2>1
  <2> QED
    BY <2>1, <2>2
<1>5. f = [q \in 0 .. NR_TASKS |-> IF q = 0 THEN 0 ELSE f[q - 1] + one(q)]
  BY <1>1, <1>4
<1> DEFINE sum == CHOOSE sum : sum = [q \in 0 .. NR_TASKS |-> IF q = 0 THEN 0 ELSE sum[q - 1] + one(q)]
<1>6. sum = [q \in 0 .. NR_TASKS |-> IF q = 0 THEN 0 ELSE sum[q - 1] + one(q)]
  BY <1>5, Zenon
<1>7. TurnsOf(Q) = sum[NR_TASKS]
  BY Zenon DEF TurnsOf, one
<1> HIDE DEF sum
<1>8. sum[0] = 0 /\ \A q \in 1 .. NR_TASKS : sum[q] = sum[q - 1] + one(q)
  <2>1. \A q \in 0 .. NR_TASKS : sum[q] = IF q = 0 THEN 0 ELSE sum[q - 1] + one(q)
    BY <1>6, Zenon
  <2>2. 0 \in 0 .. NR_TASKS /\ \A q \in 1 .. NR_TASKS : q \in 0 .. NR_TASKS /\ q # 0
    BY <1>1
  <2> QED
    BY <2>1, <2>2, Zenon
<1>9. Alike(f, sum, NR_TASKS)
  <2>1. StepAlike(f, sum, NR_TASKS)
    BY <1>4, <1>8 DEF StepAlike
  <2> QED
    BY <1>1, <2>1, RecursionUnique
<1>10. sum \in [0 .. NR_TASKS -> Nat]
  BY <1>4, <1>6, <1>9 DEF Alike
<1>11. Sums(Q, sum)
  BY <1>8, <1>10 DEF Sums, one
<1> QED
  BY <1>7, <1>11

LEMMA TurnsNat == \A Q : TurnsOf(Q) \in Nat
<1> SUFFICES ASSUME NEW Q PROVE TurnsOf(Q) \in Nat
  OBVIOUS
<1>1. PICK f : Sums(Q, f) /\ TurnsOf(Q) = f[NR_TASKS]
  BY TurnsFound
<1> QED
  BY <1>1, StartupAssumption DEF Sums

\* More processes take more time.
LEMMA TurnsMonotone ==
  ASSUME NEW Q, NEW R, Q \subseteq R
  PROVE  TurnsOf(Q) <= TurnsOf(R)
<1>1. PICK f : Sums(Q, f) /\ TurnsOf(Q) = f[NR_TASKS]
  BY TurnsFound
<1>2. PICK g : Sums(R, g) /\ TurnsOf(R) = g[NR_TASKS]
  BY TurnsFound
<1> DEFINE S == {k \in 0 .. NR_TASKS : f[k] <= g[k]}
<1>3. NR_TASKS \in Nat
  BY StartupAssumption
<1>4. 0 \in S
  BY <1>1, <1>2, <1>3 DEF Sums
<1>5. ASSUME NEW k \in 1 .. NR_TASKS, k - 1 \in S PROVE k \in S
  <2>1. k - 1 \in Proc /\ Turn(k - 1) \in Nat
    BY <1>3, Turns DEF Proc
  <2>2. f[k - 1] \in Nat /\ g[k - 1] \in Nat /\ f[k - 1] <= g[k - 1]
    BY <1>1, <1>2, <1>3, <1>5 DEF Sums
  <2>3. /\ f[k] = f[k - 1] + IF k - 1 \in Q THEN Turn(k - 1) ELSE 0
        /\ g[k] = g[k - 1] + IF k - 1 \in R THEN Turn(k - 1) ELSE 0
    BY <1>1, <1>2 DEF Sums
  <2> QED
    BY <2>1, <2>2, <2>3
<1> HIDE DEF S
<1>6. \A k \in 0 .. NR_TASKS : k \in S
  BY <1>3, <1>4, <1>5, Induction
<1>7. NR_TASKS \in S
  BY <1>3, <1>6
<1> QED
  BY <1>1, <1>2, <1>7 DEF S

LEMMA TurnsAdd ==
  ASSUME NEW Q, NEW q \in Proc, q \notin Q
  PROVE  TurnsOf(Q \union {q}) = TurnsOf(Q) + Turn(q)
<1> DEFINE R == Q \union {q}
<1>1. PICK f : Sums(Q, f) /\ TurnsOf(Q) = f[NR_TASKS]
  BY TurnsFound
<1>2. PICK g : Sums(R, g) /\ TurnsOf(R) = g[NR_TASKS]
  BY TurnsFound
<1> DEFINE S == {k \in 0 .. NR_TASKS : g[k] = f[k] + IF k > q THEN Turn(q) ELSE 0}
<1>3. NR_TASKS \in Nat /\ q \in 0 .. NR_TASKS - 1
  BY StartupAssumption DEF Proc
<1>4. 0 \in S
  BY <1>1, <1>2, <1>3 DEF Sums
<1>5. ASSUME NEW k \in 1 .. NR_TASKS, k - 1 \in S PROVE k \in S
  <2>1. k - 1 \in Proc /\ Turn(k - 1) \in Nat /\ Turn(q) \in Nat
    BY <1>3, Turns DEF Proc
  <2>2. f[k - 1] \in Nat /\ g[k - 1] = f[k - 1] + IF k - 1 > q THEN Turn(q) ELSE 0
    BY <1>1, <1>3, <1>5 DEF Sums
  <2>3. /\ f[k] = f[k - 1] + IF k - 1 \in Q THEN Turn(k - 1) ELSE 0
        /\ g[k] = g[k - 1] + IF k - 1 \in R THEN Turn(k - 1) ELSE 0
    BY <1>1, <1>2 DEF Sums
  <2>4. CASE k - 1 = q
    <3>1. g[k] = f[k] + Turn(q) /\ k > q
      BY <1>3, <2>1, <2>2, <2>3, <2>4
    <3> QED
      BY <3>1
  <2>5. CASE k - 1 # q
    <3>1. (k - 1 \in R <=> k - 1 \in Q) /\ (k > q <=> k - 1 > q)
      BY <1>3, <2>5
    <3> HIDE DEF R
    <3>2. g[k] = f[k] + IF k > q THEN Turn(q) ELSE 0
      BY <2>1, <2>2, <2>3, <3>1
    <3> QED
      BY <3>2
  <2> QED
    BY <2>4, <2>5
<1> HIDE DEF S
<1>6. \A k \in 0 .. NR_TASKS : k \in S
  BY <1>3, <1>4, <1>5, Induction
<1>7. NR_TASKS \in S /\ NR_TASKS > q
  BY <1>3, <1>6
<1> QED
  BY <1>1, <1>2, <1>7 DEF S

-----------------------------------------------------------------------------
\* A process that has not run in this round has all of its share, one that has
\* run has nothing left, and whoever has run had no smaller share than those
\* who have not.
RoundInv ==
  /\ owner \in Proc \union {NoProc}
  /\ used \in [Proc -> Nat]
  /\ owner = NoProc => moved = 0
  /\ \A q \in Proc : used[q] <= Share[q] /\ (q /= owner => used[q] \in {0, Share[q]})
  /\ \A p \in User, q \in Proc :
       (owner = p \/ used[p] > 0) /\ used[q] = 0 /\ q /= owner => Share[q] <= Share[p]
  /\ \A p \in User : used[p] > 0 /\ owner \notin {p, NoProc} => Share[owner] <= Share[p]
  /\ pc \notin {"run", "halted"} => owner = NoProc /\ \A q \in Proc : used[q] = 0

\* A tick beyond the share falls into a system call or into the handler of the
\* keyboard, but for the last one.
OverrunInv ==
  /\ overrun \in 0 .. MAX_OVERRUN + 1
  /\ nested => owner \in Proc
  /\ \A q \in Proc : at[q] \in InSystem => owner = q
  /\ overrun = MAX_OVERRUN + 1 => moved = 0 /\ owner \in Proc /\ at[owner] \notin InSystem /\ ~nested
  /\ overrun > 0 => owner \in Proc /\ FS!Left(owner) = 0

LEMMA InitRound == Init => RoundInv /\ OverrunInv
<1> SUFFICES ASSUME Init PROVE RoundInv /\ OverrunInv
  OBVIOUS
<1>1. /\ owner = NoProc /\ used = [p \in Proc |-> 0] /\ moved = 0 /\ nested = FALSE /\ overrun = 0
      /\ at = [p \in Proc |-> Begin(p)]
  BY DEF Init
<1>2. \A q \in Proc : q = Tty \/ q \in User
  BY DEF User
<1>3. \A q \in Proc : at[q] \notin InSystem
  BY <1>1, <1>2, Begins DEF InSystem
<1>4. owner \notin Proc
  BY <1>1 DEF Proc
<1>5. MAX_OVERRUN \in Nat
  BY UserProcessAssumption
<1>6. RoundInv
  BY <1>1, <1>4, Turns, Processes DEF RoundInv
<1>7. OverrunInv
  BY <1>1, <1>3, <1>5, Processes DEF OverrunInv
<1> QED
  BY <1>6, <1>7

\* A step of the process that has the processor.
LEMMA ExecuteRound ==
  ASSUME RoundInv, OverrunInv, ConsoleInv,
         NEW p \in Proc, NEW from, NEW to, Execute(p, from, to)
  PROVE  RoundInv' /\ OverrunInv'
<1>1. /\ pc = "run" /\ owner = p /\ ~MustSchedule /\ at' = [at EXCEPT ![p] = to]
      /\ moved' \in Nat /\ nested' = FALSE /\ UNCHANGED <<pc, owner, used, overrun>>
  BY DEF Execute, sched, ConsoleInv
<1>2. owner \in Proc /\ owner /= NoProc
  BY <1>1 DEF Proc
<1>3. RoundInv'
  BY <1>1, <1>2 DEF RoundInv
<1>4. ~(FS!Left(owner) = 0 /\ moved = 0 /\ at[owner] \notin InSystem /\ ~nested)
  BY <1>1, <1>2 DEF MustSchedule
<1>5. FS!Left(owner)' = FS!Left(owner)
  BY <1>1 DEF FS!Left
<1>6. overrun /= MAX_OVERRUN + 1
  BY <1>4, UserProcessAssumption DEF OverrunInv
<1>7. \A q \in Proc : at'[q] \in InSystem => owner' = q
  BY <1>1 DEF OverrunInv, ConsoleInv
<1> QED
  BY <1>1, <1>2, <1>3, <1>5, <1>6, <1>7 DEF OverrunInv

LEMMA TickRound ==
  ASSUME RoundInv, OverrunInv, ConsoleInv, Tick
  PROVE  RoundInv' /\ OverrunInv'
<1>1. /\ pc = "run" /\ pc' = pc /\ at' = at /\ moved = SPEED /\ moved' = 0
      /\ SPEED > 0 /\ MAX_OVERRUN \in Nat
  BY UserProcessAssumption DEF Tick, data
<1>2. CASE FS!Charge /\ UNCHANGED overrun
  <2>1. /\ owner \in Proc /\ owner' = owner /\ used[owner] \in Nat /\ Share[owner] \in Nat
        /\ Share[owner] - used[owner] > 0
        /\ used' = [used EXCEPT ![owner] = @ + 1] /\ overrun' = overrun
    BY <1>2, Turns DEF FS!Charge, FS!Left, RoundInv
  <2>2. overrun = 0
    BY <2>1 DEF OverrunInv, FS!Left
  <2>3. /\ used' \in [Proc -> Nat] /\ used'[owner] = used[owner] + 1
        /\ \A q \in Proc \ {owner} : used'[q] = used[q]
    BY <2>1 DEF RoundInv
  <2>4. owner /= NoProc
    BY <2>1 DEF Proc
  <2>5. RoundInv'
    <3>1. \A q \in Proc : used'[q] <= Share[q] /\ (q /= owner' => used'[q] \in {0, Share[q]})
      BY <2>1, <2>3 DEF RoundInv
    <3>2. \A p \in User, q \in Proc :
            (owner' = p \/ used'[p] > 0) /\ used'[q] = 0 /\ q /= owner' => Share[q] <= Share[p]
      BY <2>1, <2>3, Processes DEF RoundInv
    <3>3. \A p \in User : used'[p] > 0 /\ owner' \notin {p, NoProc} => Share[owner'] <= Share[p]
      BY <2>1, <2>3, Processes DEF RoundInv
    <3> QED
      BY <1>1, <2>1, <2>3, <2>4, <3>1, <3>2, <3>3 DEF RoundInv
  <2>6. OverrunInv'
    BY <1>1, <2>1, <2>2 DEF OverrunInv
  <2> QED
    BY <2>5, <2>6
<1>3. CASE ~(FS!Charge /\ UNCHANGED overrun)
  <2>1. /\ owner /= NoProc /\ FS!Left(owner) = 0
        /\ (nested' \/ at[owner] \in InSystem) => overrun < MAX_OVERRUN
        /\ overrun' = overrun + 1 /\ owner' = owner /\ used' = used
    BY <1>3 DEF Tick, sched
  <2>2. owner \in Proc
    BY <2>1 DEF RoundInv
  <2>3. overrun /= MAX_OVERRUN + 1 /\ overrun \in 0 .. MAX_OVERRUN
    BY <1>1 DEF OverrunInv
  <2>4. FS!Left(owner)' = 0
    BY <2>1 DEF FS!Left
  <2>5. RoundInv'
    BY <1>1, <2>1 DEF RoundInv
  <2>6. OverrunInv'
    BY <1>1, <2>1, <2>2, <2>3, <2>4 DEF OverrunInv
  <2> QED
    BY <2>5, <2>6
<1> QED
  BY <1>2, <1>3

LEMMA ScheduleRound ==
  ASSUME RoundInv, OverrunInv, ConsoleInv, Schedule
  PROVE  RoundInv' /\ OverrunInv'
<1>1. /\ pc = "run" /\ pc' = pc /\ at' = at /\ moved' = moved /\ nested' = nested
      /\ overrun' = 0 /\ MAX_OVERRUN \in Nat
  BY UserProcessAssumption DEF Schedule, data
<1>2. NoProc \notin Proc
  BY DEF Proc
<1>3. \A q \in Proc : used[q] \in Nat /\ Share[q] \in Nat \ {0}
  BY Turns DEF RoundInv
<1>4. CASE MustSchedule /\ FS!Deschedule
  <2>1. /\ owner \in Proc /\ Share[owner] - used[owner] = 0 /\ moved = 0
        /\ at[owner] \notin InSystem /\ ~nested /\ owner' = NoProc /\ used' = used
    BY <1>4 DEF MustSchedule, FS!Deschedule, FS!Left
  <2>2. used[owner] = Share[owner] /\ used[owner] > 0
    BY <1>3, <2>1
  <2>3. RoundInv'
    <3>1. \A q \in Proc : used'[q] <= Share[q] /\ (q /= owner' => used'[q] \in {0, Share[q]})
      BY <2>1, <2>2 DEF RoundInv
    <3>2. \A p \in User, q \in Proc :
            (owner' = p \/ used'[p] > 0) /\ used'[q] = 0 /\ q /= owner' => Share[q] <= Share[p]
      BY <1>2, <2>1, <2>2, Processes DEF RoundInv
    <3> QED
      BY <1>1, <2>1, <3>1, <3>2 DEF RoundInv
  <2>4. OverrunInv'
    BY <1>1, <1>2, <2>1, Processes DEF OverrunInv
  <2> QED
    BY <2>3, <2>4
<1>5. CASE FS!NewRound
  <2>1. owner = NoProc /\ owner' = NoProc /\ used' = [p \in Proc |-> 0]
    BY <1>5 DEF FS!NewRound
  <2>2. RoundInv'
    BY <1>1, <1>2, <1>3, <2>1, Processes DEF RoundInv
  <2>3. OverrunInv'
    BY <1>1, <1>2, <2>1, Processes DEF OverrunInv
  <2> QED
    BY <2>2, <2>3
<1>6. ASSUME NEW d \in Proc, FS!Dispatch(d) PROVE RoundInv' /\ OverrunInv'
  <2>1. /\ owner = NoProc /\ owner' = d /\ used' = used /\ Share[d] - used[d] > 0
        /\ \A q \in Proc : Share[q] - used[q] <= Share[d] - used[d]
    BY <1>6 DEF FS!Dispatch, FS!Left
  <2>2. used[d] = 0
    BY <1>2, <1>3, <2>1 DEF RoundInv
  <2>3. \A q \in Proc : used[q] = 0 => Share[q] <= Share[d]
    BY <1>3, <2>1, <2>2
  <2>4. RoundInv'
    <3>1. \A q \in Proc : used'[q] <= Share[q] /\ (q /= owner' => used'[q] \in {0, Share[q]})
      BY <1>2, <2>1 DEF RoundInv
    <3>2. \A p \in User, q \in Proc :
            (owner' = p \/ used'[p] > 0) /\ used'[q] = 0 /\ q /= owner' => Share[q] <= Share[p]
      BY <1>2, <2>1, <2>3, Processes DEF RoundInv
    <3>3. \A p \in User : used'[p] > 0 /\ owner' \notin {p, NoProc} => Share[owner'] <= Share[p]
      BY <1>2, <2>1, <2>2, Processes DEF RoundInv
    <3> QED
      BY <1>1, <1>2, <2>1, <3>1, <3>2, <3>3 DEF RoundInv
  <2>5. OverrunInv'
    <3>1. moved' = 0
      BY <1>1, <2>1 DEF RoundInv
    <3>2. \A q \in Proc : at'[q] \notin InSystem
      BY <1>1, <1>2, <2>1 DEF OverrunInv
    <3> QED
      BY <1>1, <2>1, <3>1, <3>2 DEF OverrunInv
  <2> QED
    BY <2>4, <2>5
<1> QED
  BY <1>4, <1>5, <1>6 DEF Schedule

LEMMA RoundStep == StartInv /\ ConsoleInv /\ RoundInv /\ OverrunInv /\ [Next]_vars => RoundInv' /\ OverrunInv'
<1> SUFFICES ASSUME StartInv, ConsoleInv, RoundInv, OverrunInv, [Next]_vars
             PROVE  RoundInv' /\ OverrunInv'
  OBVIOUS
<1>1. CASE Boot
  <2>1. UNCHANGED <<owner, used, moved, nested, overrun, at>>
    BY <1>1 DEF Boot, sched, data
  <2>2. pc \notin {"run", "halted"} /\ pc' \notin {"run", "halted"}
    BY <1>1 DEF Boot, StartupNext, Sgdt, CStart, Init8259A, InitIdt, InitTss, InitLdt, Lgdt,
                HappyMain, InitProc
  <2>3. OverrunInv'
    BY <2>1 DEF OverrunInv, FS!Left
  <2> QED
    BY <2>1, <2>2, <2>3 DEF RoundInv
<1>2. CASE Restart
  <2>1. /\ pc = "restart" /\ pc' = "run" /\ owner' = Tty
        /\ UNCHANGED <<used, moved, nested, overrun, at>>
    BY <1>2 DEF Restart, StartInv, LinesInv, data, Tty
  <2>2. /\ owner = NoProc /\ moved = 0 /\ ~nested /\ overrun = 0
        /\ \A q \in Proc : used[q] = 0 /\ at[q] \notin InSystem
    <3>1. owner = NoProc /\ moved = 0 /\ \A q \in Proc : used[q] = 0
      BY <2>1 DEF RoundInv
    <3>2. owner \notin Proc
      BY <3>1 DEF Proc
    <3> QED
      BY <3>1, <3>2, Processes DEF OverrunInv
  <2>3. Share[Tty] \in Nat \ {0} /\ MAX_OVERRUN \in Nat
    BY Turns, Processes, UserProcessAssumption
  <2>4. RoundInv'
    BY <2>1, <2>2, <2>3, Turns, Processes DEF RoundInv
  <2>5. OverrunInv'
    BY <2>1, <2>2, <2>3, Processes DEF OverrunInv
  <2> QED
    BY <2>4, <2>5
<1>3. CASE Tick
  BY <1>3, TickRound
<1>4. CASE Schedule
  BY <1>4, ScheduleRound
<1>5. CASE TtyTask
  <2>1. \E from, to : Execute(Tty, from, to)
    BY <1>5 DEF TtyTask, InitKeyboard, InitTty
  <2> QED
    BY <2>1, ExecuteRound, Processes
<1>6. ASSUME NEW p \in User, UserStep(p) PROVE RoundInv' /\ OverrunInv'
  <2>1. \E from, to : Execute(p, from, to)
    BY <1>6 DEF UserStep, Printf, Write, SysWrite, CallGetTicks, SysGetTicks, SysGetTicksAgain, Test
  <2> QED
    BY <2>1, ExecuteRound, Processes
<1>7. ASSUME NEW p \in Proc, NEW v \in ExceptionVector, Exception(p, v)
      PROVE RoundInv' /\ OverrunInv'
  BY <1>7 DEF Exception, RoundInv, OverrunInv, FS!Left, sched, data
<1>8. CASE UNCHANGED vars
  BY <1>8 DEF vars, RoundInv, OverrunInv, FS!Left, sched, data
<1> QED
  BY <1>1, <1>2, <1>3, <1>4, <1>5, <1>6, <1>7, <1>8 DEF Next, Halted

-----------------------------------------------------------------------------
(* How long process p waits between two looks at the clock.                *)

\* The processes whose turn has been since p had the processor last.
Behind(p) ==
  {q \in Proc \ {p, owner} :
     IF FS!Left(p) = 0 THEN FS!Left(q) = 0 /\ Share[q] < Share[p]
     ELSE FS!Left(q) = 0 \/ Share[q] < Share[p]}

\* How many ticks fell into their turns, and into the one under way, at most.
Current   == IF owner = NoProc THEN 0 ELSE used[owner] + overrun
Away(p)   == TurnsOf(Behind(p)) + Current
Others(p) == TurnsOf(Proc \ {p})

\* While p runs: c ticks since the last look but one, y since the last one.  The
\* others had a turn each in between if p has just begun its own.
Running(p, c, y) ==
  \E D \in {0, Others(p)} :
    /\ D /= 0 => used[p] = 0 \/ (at[p] = "test" /\ moved = 0 /\ y <= 1 /\ FS!Left(p) >= 1)
    /\ at[p] = "get_ticks" => c = 0 \/ (c <= 1 + D /\ moved <= 1)
    /\ at[p] = "sys_get_ticks_again" => c = 0 \/ (c <= 1 + D /\ moved <= 2)
    /\ at[p] = "test" => (y = 0 /\ c <= 1 + D) \/ (moved = 0 /\ y <= 1 + D /\ c <= 2 + D)

\* While it does not.
Kept(p, c, y) ==
  /\ at[p] = "get_ticks" => c <= 1 + Away(p)
  /\ at[p] = "test" => c <= 2 + Away(p) /\ y <= 1 + Away(p)
  /\ at[p] /= "sys_get_ticks_again"

\* After s0 ticks the clock showed p that its time was not over yet; at "test" it
\* has been read again, after s ticks.
Looked(p, s0, s) ==
  /\ s0 * SECOND < ms(p) * HZ
  /\ at[p] = "test" => Shows(eax[p], t[p], s)
  /\ owner = p => Running(p, since[p] - s0, since[p] - s)
  /\ owner /= p => Kept(p, since[p] - s0, since[p] - s)

NotLate(p) == at[p] \in Waiting => \E s0, s \in 0 .. since[p] : Looked(p, s0, s)

LateInv == \A p \in User : Alone(p) => NotLate(p)

LEMMA InitLate == Init => LateInv
<1> SUFFICES ASSUME Init PROVE LateInv
  OBVIOUS
<1>1. \A p \in User : at[p] \notin Waiting
  BY Begins, Processes DEF Init, Waiting
<1> QED
  BY <1>1 DEF LateInv, NotLate

LEMMA AwayNat ==
  ASSUME RoundInv, OverrunInv, NEW p
  PROVE  Away(p) \in Nat /\ TurnsOf(Behind(p)) \in Nat /\ Current \in Nat /\ Others(p) \in Nat
<1>1. Current \in Nat
  BY UserProcessAssumption DEF Current, RoundInv, OverrunInv
<1> QED
  BY <1>1, TurnsNat DEF Away, Others

\* The turn under way is not longer than a turn may be.
LEMMA TurnBound ==
  ASSUME RoundInv, OverrunInv, owner \in Proc
  PROVE  Current <= Turn(owner) /\ Current \in Nat /\ Turn(owner) \in Nat
<1>1. /\ owner /= NoProc /\ used[owner] \in Nat /\ overrun \in Nat /\ Share[owner] \in Nat
      /\ used[owner] <= Share[owner] /\ overrun <= MAX_OVERRUN + 1
      /\ MAX_OVERRUN \in Nat
  BY Turns, UserProcessAssumption DEF RoundInv, OverrunInv, Proc
<1> HIDE DEF Share
<1> QED
  BY <1>1 DEF Current, Turn

\* Every other process has at most one turn.
LEMMA AwayBound ==
  ASSUME RoundInv, OverrunInv, NEW p \in Proc, owner /= p
  PROVE  Away(p) <= Others(p)
<1>1. Behind(p) \subseteq Proc \ {p} /\ owner \notin Behind(p)
  BY DEF Behind
<1>2. TurnsOf(Behind(p)) <= Others(p)
  BY <1>1, TurnsMonotone DEF Others
<1>3. CASE owner = NoProc
  BY <1>2, <1>3, TurnsNat DEF Away, Current
<1>4. CASE owner /= NoProc
  <2>1. owner \in Proc
    BY <1>4 DEF RoundInv
  <2>2. TurnsOf(Behind(p) \union {owner}) = TurnsOf(Behind(p)) + Turn(owner)
    BY <1>1, <2>1, TurnsAdd
  <2>3. Behind(p) \union {owner} \subseteq Proc \ {p}
    BY <1>1, <2>1
  <2>4. TurnsOf(Behind(p) \union {owner}) <= Others(p)
    BY <2>3, TurnsMonotone DEF Others
  <2>5. TurnsOf(Behind(p)) \in Nat /\ Others(p) \in Nat
    BY TurnsNat DEF Others
  <2> QED
    BY <2>1, <2>2, <2>4, <2>5, TurnBound DEF Away
<1> QED
  BY <1>3, <1>4

\* Between two looks at the clock there are at most MaxLate(p) ticks.
LEMMA LookBound ==
  ASSUME RoundInv, OverrunInv, DelayInv, NEW p \in User, at[p] \in Waiting,
         NEW s0 \in 0 .. since[p], NEW s \in 0 .. since[p], Looked(p, s0, s)
  PROVE  /\ since[p] - s0 <= MaxLate(p)
         /\ MaxLate(p) \in Nat /\ since[p] \in Nat /\ s0 \in Nat /\ s \in Nat
<1>1. /\ since[p] \in Nat /\ MaxLate(p) = Others(p) + 2 /\ Others(p) \in Nat /\ p \in Proc
      /\ Away(p) \in Nat
  BY TurnsNat, AwayNat, Processes DEF DelayInv, MaxLate, Others
<1>2. CASE owner = p
  <2>1. PICK D \in {0, Others(p)} :
          /\ at[p] = "get_ticks" => since[p] - s0 = 0 \/ since[p] - s0 <= 1 + D
          /\ at[p] = "sys_get_ticks_again" => since[p] - s0 = 0 \/ since[p] - s0 <= 1 + D
          /\ at[p] = "test" => since[p] - s0 <= 1 + D \/ since[p] - s0 <= 2 + D
    BY <1>2, Zenon DEF Looked, Running
  <2> QED
    BY <1>1, <2>1 DEF Waiting
<1>3. CASE owner /= p
  <2>1. /\ at[p] = "get_ticks" => since[p] - s0 <= 1 + Away(p)
        /\ at[p] = "test" => since[p] - s0 <= 2 + Away(p)
        /\ at[p] /= "sys_get_ticks_again"
    BY <1>3 DEF Looked, Kept
  <2>2. Away(p) <= Others(p)
    BY <1>1, <1>3, AwayBound
  <2> QED
    BY <1>1, <2>1, <2>2 DEF Waiting
<1> QED
  BY <1>2, <1>3, <1>1

-----------------------------------------------------------------------------
(* The steps in which p does not have the processor.                       *)

\* Nothing happens to p, and the others' turns do not get shorter.
LEMMA KeptLate ==
  ASSUME RoundInv, OverrunInv, DelayInv, NEW p \in User, NotLate(p),
         at'[p] = at[p], since'[p] = since[p], eax'[p] = eax[p], t'[p] = t[p],
         owner /= p, owner' /= p, Away(p)' \in Int, Away(p)' >= Away(p)
  PROVE  NotLate(p)'
<1> SUFFICES ASSUME at[p] \in Waiting PROVE NotLate(p)'
  BY DEF NotLate
<1>1. PICK s0 \in 0 .. since[p], s \in 0 .. since[p] : Looked(p, s0, s)
  BY DEF NotLate
<1>2. Away(p) \in Nat /\ since[p] \in Nat
  BY AwayNat DEF DelayInv
<1>3. Kept(p, since[p] - s0, since[p] - s)'
  <2>1. Kept(p, since[p] - s0, since[p] - s)
    BY <1>1 DEF Looked
  <2> QED
    BY <1>2, <2>1 DEF Kept
<1>4. Looked(p, s0, s)'
  BY <1>1, <1>3 DEF Looked, Shows
<1> QED
  BY <1>4 DEF NotLate

\* Nothing happens to p, and nobody's share changes.
LEMMA SameLate ==
  ASSUME RoundInv, OverrunInv, DelayInv, NEW p \in User, NotLate(p),
         at'[p] = at[p], since'[p] = since[p], eax'[p] = eax[p], t'[p] = t[p],
         UNCHANGED <<owner, used, overrun>>, owner = p => moved' = moved
  PROVE  NotLate(p)'
<1>1. CASE owner = p
  <2> SUFFICES ASSUME at[p] \in Waiting PROVE NotLate(p)'
    BY DEF NotLate
  <2>1. PICK s0 \in 0 .. since[p], s \in 0 .. since[p] : Looked(p, s0, s)
    BY DEF NotLate
  <2>2. Running(p, since[p] - s0, since[p] - s)'
    BY <1>1, <2>1 DEF Looked, Running, FS!Left
  <2>3. Looked(p, s0, s)'
    BY <1>1, <2>1, <2>2 DEF Looked, Shows
  <2> QED
    BY <2>3 DEF NotLate
<1>2. CASE owner /= p
  <2>1. Behind(p)' = Behind(p)
    BY DEF Behind, FS!Left
  <2>2. Away(p)' = Away(p)
    BY <2>1 DEF Away, Current
  <2>3. Away(p) \in Nat
    BY AwayNat
  <2> QED
    BY <1>2, <2>2, <2>3, KeptLate
<1> QED
  BY <1>1, <1>2

LEMMA TickOthers ==
  ASSUME RoundInv, OverrunInv, DelayInv, NEW p \in User, NotLate(p), Tick, owner /= p
  PROVE  NotLate(p)'
<1> SUFFICES ASSUME at[p] \in Waiting PROVE NotLate(p)'
  BY DEF NotLate, Tick, data
<1>1. /\ at' = at /\ eax' = eax /\ t' = t /\ since'[p] = since[p] + 1 /\ owner' = owner
      /\ moved = SPEED /\ SPEED > 0
  BY UserProcessAssumption DEF Tick, data, sched, FS!Charge
<1>2. owner /= NoProc /\ owner \in Proc
  BY <1>1 DEF RoundInv
<1>3. Current' = Current + 1 /\ \A q \in Proc \ {owner} : used'[q] = used[q]
  <2>1. CASE FS!Charge /\ UNCHANGED overrun
    BY <1>1, <1>2, <2>1 DEF FS!Charge, Current, RoundInv, OverrunInv
  <2>2. CASE overrun' = overrun + 1 /\ UNCHANGED sched
    BY <1>1, <1>2, <2>2 DEF sched, Current, RoundInv, OverrunInv
  <2> QED
    BY <2>1, <2>2 DEF Tick
<1>4. Behind(p)' = Behind(p)
  <2>1. \A q \in Proc \ {owner} : FS!Left(q)' = FS!Left(q)
    BY <1>3 DEF FS!Left
  <2> QED
    BY <1>1, <2>1, Processes DEF Behind
<1>5. /\ Away(p) \in Nat /\ TurnsOf(Behind(p)) \in Nat /\ Current \in Nat /\ since[p] \in Nat
  BY AwayNat DEF DelayInv
<1>6. Away(p)' = Away(p) + 1
  BY <1>3, <1>4, <1>5 DEF Away
<1>7. PICK s0 \in 0 .. since[p], s \in 0 .. since[p] : Looked(p, s0, s)
  BY DEF NotLate
<1>8. Kept(p, since[p] - s0, since[p] - s)'
  <2>1. Kept(p, since[p] - s0, since[p] - s)
    BY <1>7 DEF Looked
  <2>2. since'[p] - s0 = since[p] - s0 + 1 /\ since'[p] - s = since[p] - s + 1
    BY <1>1, <1>5
  <2> HIDE DEF Away
  <2> QED
    BY <1>1, <1>5, <1>6, <2>1, <2>2 DEF Kept
<1>9. Looked(p, s0, s)'
  BY <1>1, <1>7, <1>8 DEF Looked, Shows
<1>10. s0 \in 0 .. since'[p] /\ s \in 0 .. since'[p]
  BY <1>1, <1>5
<1> QED
  BY <1>9, <1>10 DEF NotLate

\* The turn of another process ends.
LEMMA DescheduleOthers ==
  ASSUME RoundInv, OverrunInv, DelayInv, NEW p \in User, Alone(p), NotLate(p),
         FS!Deschedule, overrun' = 0, UNCHANGED <<at, data, since>>, owner /= p
  PROVE  NotLate(p)'
<1>1. /\ owner \in Proc /\ owner' = NoProc /\ used' = used /\ FS!Left(owner) = 0
      /\ at' = at /\ eax' = eax /\ t' = t /\ since' = since /\ p \in Proc /\ p /= NoProc
  BY Processes DEF FS!Deschedule, data, Proc
<1>2. \A q \in Proc : FS!Left(q)' = FS!Left(q) /\ used[q] \in Nat /\ Share[q] \in Nat \ {0}
  BY <1>1, Turns DEF FS!Left, RoundInv
<1>3. FS!Left(p) = 0 => Share[owner] < Share[p]
  <2> SUFFICES ASSUME FS!Left(p) = 0 PROVE Share[owner] < Share[p]
    OBVIOUS
  <2>1. used[p] > 0 /\ owner \notin {p, NoProc}
    BY <1>1, <1>2 DEF FS!Left, Proc
  <2>2. Share[owner] <= Share[p] /\ Share[owner] /= Share[p]
    BY <1>1, <2>1 DEF RoundInv, Alone
  <2> QED
    BY <1>1, <1>2, <2>2
<1>4. Behind(p) \union {owner} \subseteq Behind(p)'
  BY <1>1, <1>2, <1>3 DEF Behind, Proc
<1>5. owner \notin Behind(p)
  BY DEF Behind
<1>6. TurnsOf(Behind(p)) + Turn(owner) <= TurnsOf(Behind(p)')
  <2>1. TurnsOf(Behind(p) \union {owner}) = TurnsOf(Behind(p)) + Turn(owner)
    BY <1>1, <1>5, TurnsAdd
  <2>2. TurnsOf(Behind(p) \union {owner}) <= TurnsOf(Behind(p)')
    BY <1>4, TurnsMonotone
  <2> QED
    BY <2>1, <2>2
<1>7. Current' = 0 /\ Away(p)' = TurnsOf(Behind(p)')
  <2>1. Current' = 0
    BY <1>1 DEF Current
  <2> QED
    BY <2>1, TurnsNat DEF Away
<1>8. Away(p)' >= Away(p) /\ Away(p)' \in Nat
  <2>1. /\ TurnsOf(Behind(p)) \in Nat /\ TurnsOf(Behind(p)') \in Nat
        /\ Current <= Turn(owner) /\ Current \in Nat /\ Turn(owner) \in Nat
    BY <1>1, TurnBound, TurnsNat
  <2> QED
    BY <1>6, <1>7, <2>1 DEF Away
<1> QED
  BY <1>1, <1>8, KeptLate

LEMMA NewRoundLate ==
  ASSUME RoundInv, OverrunInv, DelayInv, NEW p \in User, NotLate(p),
         FS!NewRound, overrun' = 0, UNCHANGED <<at, data, since>>
  PROVE  NotLate(p)'
<1>1. /\ owner = NoProc /\ owner' = NoProc /\ \A q \in Proc : FS!Left(q) = 0
      /\ at' = at /\ eax' = eax /\ t' = t /\ since' = since /\ p \in Proc /\ p /= NoProc
      /\ used' = [q \in Proc |-> 0]
  BY Processes DEF FS!NewRound, data, Proc
<1>2. \A q \in Proc : FS!Left(q)' = Share[q] /\ Share[q] \in Nat \ {0}
  BY <1>1, Turns DEF FS!Left
<1>3. Behind(p)' = Behind(p)
  BY <1>1, <1>2 DEF Behind
<1>4. Away(p)' = Away(p)
  BY <1>1, <1>3 DEF Away, Current
<1>5. Away(p) \in Nat
  BY AwayNat
<1> QED
  BY <1>1, <1>4, <1>5, KeptLate

\* The turn of another process begins: it is not one of those that p is behind.
LEMMA DispatchOthers ==
  ASSUME RoundInv, OverrunInv, DelayInv, NEW p \in User, NotLate(p),
         NEW d \in Proc, d /= p, FS!Dispatch(d), overrun' = 0, UNCHANGED <<at, data, since>>
  PROVE  NotLate(p)'
<1>1. /\ owner = NoProc /\ owner' = d /\ used' = used /\ FS!Left(d) > 0
      /\ \A q \in Proc : FS!Left(q) <= FS!Left(d)
      /\ at' = at /\ eax' = eax /\ t' = t /\ since' = since /\ p \in Proc /\ p /= NoProc
      /\ NoProc \notin Proc
  BY Processes DEF FS!Dispatch, data, Proc
<1>2. \A q \in Proc : /\ FS!Left(q)' = FS!Left(q) /\ FS!Left(q) = Share[q] - used[q]
                      /\ Share[q] \in Nat \ {0} /\ used[q] \in {0, Share[q]}
  BY <1>1, Turns DEF FS!Left, RoundInv
<1>3. used[d] = 0 /\ FS!Left(d) = Share[d]
  BY <1>1, <1>2
<1>4. d \notin Behind(p)
  <2>1. FS!Left(p) = 0 \/ FS!Left(p) = Share[p]
    BY <1>1, <1>2
  <2>2. FS!Left(d) /= 0 /\ (FS!Left(p) = Share[p] => ~(Share[d] < Share[p]))
    BY <1>1, <1>2, <1>3
  <2>3. Share[p] /= 0
    BY <1>1, <1>2
  <2> QED
    BY <2>1, <2>2, <2>3 DEF Behind
<1>5. Behind(p)' = Behind(p)
  BY <1>1, <1>2, <1>4 DEF Behind
<1>6. Away(p)' = Away(p)
  <2>1. Current = 0 /\ Current' = 0
    BY <1>1, <1>3 DEF Current
  <2> QED
    BY <1>5, <2>1 DEF Away
<1>7. Away(p) \in Nat
  BY AwayNat
<1> QED
  BY <1>1, <1>6, <1>7, KeptLate

-----------------------------------------------------------------------------
(* The steps of p.                                                         *)

LEMMA TickSelf ==
  ASSUME RoundInv, OverrunInv, DelayInv, NEW p \in User, Alone(p), NotLate(p), Tick, owner = p
  PROVE  NotLate(p)'
<1> SUFFICES ASSUME at[p] \in Waiting PROVE NotLate(p)'
  BY DEF NotLate, Tick, data
<1>1. /\ at' = at /\ eax' = eax /\ t' = t /\ since'[p] = since[p] + 1 /\ owner' = p
      /\ moved >= 3 /\ moved' = 0 /\ since[p] \in Nat /\ Others(p) \in Nat /\ p \in Proc
  BY AwayNat, Processes, UserProcessAssumption DEF Tick, data, sched, FS!Charge, DelayInv
<1>2. PICK s0 \in 0 .. since[p], s \in 0 .. since[p] : Looked(p, s0, s)
  BY DEF NotLate
<1>3. PICK c \in Nat, y \in Nat : c = since[p] - s0 /\ y = since[p] - s
  BY <1>1
<1>4. since'[p] - s0 = c + 1 /\ since'[p] - s = y + 1
  BY <1>1, <1>3
<1>5. /\ at[p] \in {"get_ticks", "sys_get_ticks_again"} => c = 0
      /\ at[p] = "test" => y = 0 /\ (c <= 1 \/ (used[p] = 0 /\ c <= 1 + Others(p)))
  <2>1. Running(p, c, y)
    BY <1>1, <1>2, <1>3 DEF Looked
  <2>2. PICK D \in {0, Others(p)} :
          /\ D /= 0 => used[p] = 0 \/ (at[p] = "test" /\ moved = 0)
          /\ at[p] = "get_ticks" => c = 0 \/ moved <= 1
          /\ at[p] = "sys_get_ticks_again" => c = 0 \/ moved <= 2
          /\ at[p] = "test" => (y = 0 /\ c <= 1 + D) \/ moved = 0
    BY <2>1, Zenon DEF Running
  <2>3. moved \in Int /\ ~(moved <= 2) /\ ~(moved <= 1) /\ moved /= 0
    BY <1>1, UserProcessAssumption DEF Tick
  <2>4. at[p] \in {"get_ticks", "sys_get_ticks_again"} => c = 0
    BY <2>2, <2>3, Zenon
  <2>5. at[p] = "test" => y = 0 /\ c <= 1 + D /\ (D = 0 \/ used[p] = 0)
    BY <2>2, <2>3, Zenon
  <2> QED
    BY <2>2, <2>4, <2>5
<1>6. ASSUME at[p] /= "test" PROVE Running(p, c + 1, y + 1)'
  BY <1>1, <1>3, <1>5, <1>6 DEF Running, Waiting
<1>7. ASSUME at[p] = "test", c <= 1 PROVE Running(p, c + 1, y + 1)'
  BY <1>1, <1>3, <1>5, <1>7 DEF Running
<1>8. ASSUME at[p] = "test", used[p] = 0, c <= 1 + Others(p) PROVE Running(p, c + 1, y + 1)'
  <2>1. FS!Left(p) = Share[p] /\ Share[p] \in Nat /\ Share[p] > 1
    BY <1>1, <1>8, Turns DEF FS!Left, Alone
  <2>2. FS!Charge
    BY <2>1 DEF Tick
  <2>3. FS!Left(p)' = FS!Left(p) - 1
    BY <1>1, <2>1, <2>2 DEF FS!Charge, FS!Left, RoundInv
  <2>4. FS!Left(p)' >= 1
    BY <2>1, <2>3
  <2> QED
    BY <1>1, <1>3, <1>5, <1>8, <2>4 DEF Running
<1>9. Running(p, c + 1, y + 1)'
  BY <1>5, <1>6, <1>7, <1>8
<1>10. Running(p, since[p] - s0, since[p] - s)'
  BY <1>4, <1>9 DEF Running
<1>11. Looked(p, s0, s)'
  BY <1>1, <1>2, <1>10 DEF Looked, Shows
<1>12. s0 \in 0 .. since'[p] /\ s \in 0 .. since'[p]
  BY <1>1
<1> QED
  BY <1>11, <1>12 DEF NotLate

\* The turn of p ends: the others have had none since its last look.
LEMMA DescheduleSelf ==
  ASSUME RoundInv, OverrunInv, DelayInv, NEW p \in User, NotLate(p),
         MustSchedule, FS!Deschedule, overrun' = 0, UNCHANGED <<at, data, since>>, owner = p
  PROVE  NotLate(p)'
<1> SUFFICES ASSUME at[p] \in Waiting PROVE NotLate(p)'
  BY DEF NotLate, data
<1>1. /\ owner' = NoProc /\ owner' /= p /\ used' = used /\ FS!Left(p) = 0 /\ at[p] \notin InSystem
      /\ at' = at /\ eax' = eax /\ t' = t /\ since' = since /\ p \in Proc /\ since[p] \in Nat
  BY Processes DEF MustSchedule, FS!Deschedule, data, Proc, DelayInv
<1>2. PICK s0 \in 0 .. since[p], s \in 0 .. since[p] : Looked(p, s0, s)
  BY DEF NotLate
<1> DEFINE c == since[p] - s0
           y == since[p] - s
<1>3. c \in Nat /\ y \in Nat
  BY <1>1
<1>4. Running(p, c, y)
  BY <1>2 DEF Looked
<1> HIDE DEF c, y
<1>5. used[p] /= 0
  BY <1>1, Turns DEF FS!Left
<1>6. /\ at[p] = "get_ticks" => c <= 1
      /\ at[p] = "test" => c <= 2 /\ y <= 1
  BY <1>1, <1>3, <1>4, <1>5 DEF Running
<1>7. Away(p)' \in Nat
  <2>1. Current' = 0
    BY <1>1 DEF Current
  <2> QED
    BY <2>1, TurnsNat DEF Away
<1>8. Kept(p, c, y)'
  <2>1. /\ at[p] = "get_ticks" => c <= 1 + Away(p)'
        /\ at[p] = "test" => c <= 2 + Away(p)' /\ y <= 1 + Away(p)'
    BY <1>3, <1>6, <1>7
  <2>2. c' = c /\ y' = y
    BY <1>1 DEF c, y
  <2> QED
    BY <1>1, <2>1, <2>2 DEF Kept, InSystem
<1>9. Looked(p, s0, s)'
  BY <1>1, <1>2, <1>8 DEF Looked, Shows, c, y
<1> QED
  BY <1>1, <1>9 DEF NotLate

\* The turn of p begins.
LEMMA DispatchSelf ==
  ASSUME RoundInv, OverrunInv, DelayInv, NEW p \in User, NotLate(p),
         FS!Dispatch(p), UNCHANGED <<moved, at, data, since>>
  PROVE  NotLate(p)'
<1> SUFFICES ASSUME at[p] \in Waiting PROVE NotLate(p)'
  BY DEF NotLate, data
<1>1. /\ owner = NoProc /\ owner' = p /\ owner /= p /\ used' = used /\ FS!Left(p) > 0
      /\ at' = at /\ eax' = eax /\ t' = t /\ since' = since /\ p \in Proc /\ since[p] \in Nat
      /\ moved' = 0
  BY Processes DEF FS!Dispatch, data, Proc, DelayInv, RoundInv
<1>2. PICK s0 \in 0 .. since[p], s \in 0 .. since[p] : Looked(p, s0, s)
  BY DEF NotLate
<1> DEFINE c == since[p] - s0
           y == since[p] - s
<1>3. c \in Nat /\ y \in Nat
  BY <1>1
<1>4. Kept(p, c, y)
  BY <1>1, <1>2 DEF Looked
<1> HIDE DEF c, y
<1>5. used[p] = 0
  BY <1>1, Turns DEF FS!Left, RoundInv
<1>6. Away(p) <= Others(p) /\ Away(p) \in Nat /\ Others(p) \in Nat
  BY <1>1, AwayBound, AwayNat
<1>7. /\ at[p] = "get_ticks" => c <= 1 + Others(p)
      /\ at[p] = "test" => c <= 2 + Others(p) /\ y <= 1 + Others(p)
      /\ at[p] /= "sys_get_ticks_again"
  BY <1>3, <1>4, <1>6 DEF Kept
<1>8. c' = c /\ y' = y
  BY <1>1 DEF c, y
<1>9. Running(p, c, y)'
  BY <1>1, <1>5, <1>6, <1>7, <1>8 DEF Running
<1>10. Looked(p, s0, s)'
  BY <1>1, <1>2, <1>9 DEF Looked, Shows, c, y
<1> QED
  BY <1>1, <1>10 DEF NotLate

LEMMA DivNotLess ==
  ASSUME NEW x \in Nat, NEW y \in Nat, y * HZ <= x
  PROVE  y <= x \div HZ
<1> DEFINE q == x \div HZ
<1>1. q \in Nat /\ x < HZ * q + HZ
  BY WordNat
<1> HIDE DEF q
<1>2. ASSUME q < y PROVE FALSE
  <2>1. HZ * (q + 1) <= HZ * y
    BY <1>1, <1>2, WordNat
  <2>2. HZ * (q + 1) = HZ * q + HZ /\ HZ * y = y * HZ /\ HZ * y \in Nat /\ HZ * q \in Nat
    BY <1>1, WordNat
  <2> QED
    BY <1>1, <2>1, <2>2, WordNat
<1>3. y <= q
  BY <1>1, <1>2
<1> QED
  BY <1>3 DEF q

\* milli_delay() goes on only if its time is not over.
LEMMA NotOver ==
  ASSUME TurnsAreShort, DelayInv, NEW p \in User, Alone(p), at[p] = "test", ~DelayIsOver(p),
         NEW s0 \in Nat, NEW s \in Nat, Shows(eax[p], t[p], s), s0 * SECOND < ms(p) * HZ,
         MaxLate(p) \in Nat, s <= s0 + MaxLate(p)
  PROVE  s * SECOND < ms(p) * HZ
<1>1. eax[p] \in 0 .. WORD - 1 /\ t[p] \in 0 .. WORD - 1
  BY DEF DelayInv
<1>2. ms(p) \in Nat /\ 2 * (ms(p) * HZ + MaxLate(p) * SECOND) < WORD
  BY UserProcessAssumption DEF TurnsAreShort
<1> HIDE DEF ms, MaxLate
<1>3. s * SECOND <= s0 * SECOND + MaxLate(p) * SECOND
  <2>1. s * SECOND <= (s0 + MaxLate(p)) * SECOND
    BY WordNat
  <2>2. (s0 + MaxLate(p)) * SECOND = s0 * SECOND + MaxLate(p) * SECOND
    BY WordNat
  <2> QED
    BY <2>1, <2>2
<1>4. /\ s * SECOND \in Nat /\ s0 * SECOND \in Nat /\ MaxLate(p) * SECOND \in Nat
      /\ ms(p) * HZ \in Nat
  BY <1>2, WordNat
<1>5. 2 * (s * SECOND) < WORD
  BY <1>2, <1>3, <1>4, WordNat
<1>6. Elapsed(eax[p], t[p]) = (s * SECOND) \div HZ
  BY <1>1, <1>5, ElapsedIsExact
<1>7. (s * SECOND) \div HZ \in Int
  BY <1>4, WordNat
<1>8. (s * SECOND) \div HZ < ms(p)
  BY <1>2, <1>6, <1>7 DEF DelayIsOver
<1>9. ASSUME ms(p) * HZ <= s * SECOND PROVE FALSE
  <2>1. ms(p) <= (s * SECOND) \div HZ
    BY <1>2, <1>4, <1>9, DivNotLess
  <2> QED
    BY <1>2, <1>7, <1>8, <2>1
<1> QED
  BY <1>4, <1>9

LEMMA SysGetTicksLate ==
  ASSUME DelayInv, NEW p \in User, SysGetTicks(p)
  PROVE  NotLate(p)'
<1>1. /\ owner' = p /\ at'[p] = "get_ticks" /\ since'[p] = 0
  BY Processes DEF SysGetTicks, Execute, sched, DelayInv
<1>2. 0 * SECOND < ms(p) * HZ
  <2>1. ms(p) \in Nat \ {0}
    BY UserProcessAssumption
  <2> HIDE DEF ms
  <2> QED
    BY <2>1, WordNat
<1>3. Looked(p, 0, 0)'
  BY <1>1, <1>2 DEF Looked, Running
<1> QED
  BY <1>1, <1>3 DEF NotLate

LEMMA CallGetTicksLate ==
  ASSUME RoundInv, OverrunInv, ConsoleInv, DelayInv, NEW p \in User, NotLate(p), CallGetTicks(p)
  PROVE  NotLate(p)'
<1>1. CASE at[p] = "milli_delay"
  BY <1>1, Processes DEF CallGetTicks, Execute, DelayInv, NotLate, Waiting
<1>2. CASE at[p] /= "milli_delay"
  <2>1. /\ owner = p /\ owner' = p /\ at[p] = "get_ticks" /\ at'[p] = "sys_get_ticks_again"
        /\ since' = since /\ used' = used /\ moved' \in Int /\ moved' <= moved + 1
        /\ moved \in Int /\ since[p] \in Nat /\ Others(p) \in Nat
    BY <1>2, AwayNat, Processes, UserProcessAssumption
       DEF CallGetTicks, Execute, DelayInv, ConsoleInv, sched, data
  <2>2. PICK s0 \in 0 .. since[p], s \in 0 .. since[p] : Looked(p, s0, s)
    BY <2>1 DEF NotLate, Waiting
  <2>3. PICK c \in Nat, y \in Nat : c = since[p] - s0 /\ y = since[p] - s
    BY <2>1
  <2>4. Running(p, c, y)
    BY <2>1, <2>2, <2>3 DEF Looked
  <2>5. Running(p, c, y)'
    BY <2>1, <2>3, <2>4 DEF Running
  <2>6. Looked(p, s0, s)'
    BY <2>1, <2>2, <2>3, <2>5 DEF Looked
  <2> QED
    BY <2>1, <2>6 DEF NotLate
<1> QED
  BY <1>1, <1>2

LEMMA SysGetTicksAgainLate ==
  ASSUME RoundInv, OverrunInv, ConsoleInv, DelayInv,
         NEW p \in User, NotLate(p), SysGetTicksAgain(p)
  PROVE  NotLate(p)'
<1>1. /\ owner = p /\ owner' = p /\ at[p] = "sys_get_ticks_again" /\ at'[p] = "test"
      /\ since' = since /\ used' = used /\ since[p] \in Nat /\ Others(p) \in Nat
      /\ eax'[p] = ticks /\ t' = t /\ Shows(ticks, t[p], since[p])
  BY AwayNat, Processes DEF SysGetTicksAgain, Execute, DelayInv, sched, Waiting
<1>2. PICK s0 \in 0 .. since[p], s \in 0 .. since[p] : Looked(p, s0, s)
  BY <1>1 DEF NotLate, Waiting
<1>3. PICK c \in Nat, y \in Nat : c = since[p] - s0 /\ y = since[p] - s
  BY <1>1
<1>4. Running(p, c, y)
  BY <1>1, <1>2, <1>3 DEF Looked
<1>5. Running(p, c, 0)'
  BY <1>1, <1>3, <1>4 DEF Running
<1>6. Looked(p, s0, since[p])'
  <2>1. Shows(eax[p], t[p], since[p])'
    BY <1>1 DEF Shows
  <2>2. since'[p] - s0 = c /\ since'[p] - since'[p] = 0
    BY <1>1, <1>3
  <2>3. Running(p, since[p] - s0, since[p] - since[p])'
    BY <1>5, <2>2 DEF Running
  <2> QED
    BY <1>1, <1>2, <2>1, <2>3 DEF Looked
<1>7. s0 \in 0 .. since'[p] /\ since'[p] \in 0 .. since'[p]
  BY <1>1
<1> QED
  BY <1>6, <1>7 DEF NotLate

LEMMA TestLate ==
  ASSUME TurnsAreShort, RoundInv, OverrunInv, ConsoleInv, DelayInv,
         NEW p \in User, Alone(p), NotLate(p), Test(p)
  PROVE  NotLate(p)'
<1>1. CASE DelayIsOver(p)
  <2>1. at'[p] \notin Waiting
    BY <1>1, Begins, Processes DEF Test, Execute, DelayInv, Waiting
  <2> QED
    BY <2>1 DEF NotLate
<1>2. CASE ~DelayIsOver(p)
  <2>1. /\ owner = p /\ owner' = p /\ at[p] = "test" /\ at'[p] = "get_ticks"
        /\ since' = since /\ used' = used /\ since[p] \in Nat /\ Others(p) \in Nat
        /\ moved = 0 => moved' = 1
    BY <1>2, AwayNat, Processes, UserProcessAssumption DEF Test, Execute, DelayInv, sched
  <2>2. PICK s0 \in 0 .. since[p], s \in 0 .. since[p] : Looked(p, s0, s)
    BY <2>1 DEF NotLate, Waiting
  <2>3. /\ since[p] - s0 <= MaxLate(p) /\ MaxLate(p) \in Nat /\ s0 \in Nat /\ s \in Nat
        /\ s <= since[p]
    BY <2>1, <2>2, LookBound DEF Waiting
  <2>4. s * SECOND < ms(p) * HZ
    <3>1. s <= s0 + MaxLate(p)
      BY <2>1, <2>3
    <3> QED
      BY <1>2, <2>1, <2>2, <2>3, <3>1, NotOver DEF Looked
  <2>5. PICK c \in Nat, y \in Nat : c = since[p] - s0 /\ y = since[p] - s
    BY <2>1
  <2>6. Running(p, c, y)
    BY <2>1, <2>2, <2>5 DEF Looked
  <2>7. Running(p, y, y)'
    BY <2>1, <2>5, <2>6 DEF Running
  <2>8. Looked(p, s, s)'
    BY <2>1, <2>4, <2>5, <2>7 DEF Looked
  <2> QED
    BY <2>1, <2>8 DEF NotLate
<1> QED
  BY <1>1, <1>2

-----------------------------------------------------------------------------
(* LateInv is inductive.                                                   *)

LEMMA TickLate ==
  ASSUME RoundInv, OverrunInv, DelayInv, NEW p \in User, Alone(p), NotLate(p), Tick
  PROVE  NotLate(p)'
BY TickSelf, TickOthers

LEMMA ScheduleLate ==
  ASSUME RoundInv, OverrunInv, DelayInv, NEW p \in User, Alone(p), NotLate(p), Schedule
  PROVE  NotLate(p)'
<1>1. overrun' = 0 /\ UNCHANGED <<moved, at, data, since>>
  BY DEF Schedule
<1>2. CASE MustSchedule /\ FS!Deschedule
  BY <1>1, <1>2, DescheduleSelf, DescheduleOthers
<1>3. CASE FS!NewRound
  BY <1>1, <1>3, NewRoundLate
<1>4. ASSUME NEW d \in Proc, FS!Dispatch(d) PROVE NotLate(p)'
  BY <1>1, <1>4, DispatchSelf, DispatchOthers
<1> QED
  BY <1>2, <1>3, <1>4 DEF Schedule

\* A step of another process.
LEMMA ExecuteLate ==
  ASSUME RoundInv, OverrunInv, DelayInv, NEW p \in User, NotLate(p),
         NEW q \in Proc, q /= p, NEW from, NEW to, Execute(q, from, to),
         since'[p] = since[p], eax'[p] = eax[p], t'[p] = t[p]
  PROVE  NotLate(p)'
<1>1. /\ owner = q /\ owner /= p /\ UNCHANGED <<owner, used, overrun>>
      /\ at'[p] = at[p]
  BY Processes DEF Execute, sched, DelayInv
<1> QED
  BY <1>1, SameLate

LEMMA UserLate ==
  ASSUME TurnsAreShort, RoundInv, OverrunInv, ConsoleInv, DelayInv,
         NEW p \in User, Alone(p), NotLate(p), NEW q \in User, UserStep(q)
  PROVE  NotLate(p)'
<1>1. CASE q = p
  <2>1. CASE Printf(p) \/ Write(p) \/ SysWrite(p)
    <3>1. at'[p] \notin Waiting
      BY <2>1, Processes DEF Printf, Write, SysWrite, Execute, DelayInv, Waiting
    <3> QED
      BY <3>1 DEF NotLate
  <2> QED
    BY <1>1, <2>1, CallGetTicksLate, SysGetTicksLate, SysGetTicksAgainLate, TestLate DEF UserStep
<1>2. CASE q /= p
  <2>1. \E from, to : Execute(q, from, to)
    BY DEF UserStep, Printf, Write, SysWrite, CallGetTicks, SysGetTicks, SysGetTicksAgain, Test
  <2>2. since'[p] = since[p] /\ eax'[p] = eax[p] /\ t'[p] = t[p]
    BY <1>2 DEF UserStep, Printf, Write, SysWrite, CallGetTicks, SysGetTicks, SysGetTicksAgain,
                Test, data, DelayInv
  <2> QED
    BY <1>2, <2>1, <2>2, ExecuteLate, Processes
<1> QED
  BY <1>1, <1>2

LEMMA LateStep ==
  ASSUME TurnsAreShort
  PROVE  ConsoleInv /\ DelayInv /\ RoundInv /\ OverrunInv /\ LateInv /\ [Next]_vars => LateInv'
<1> SUFFICES ASSUME ConsoleInv, DelayInv, RoundInv, OverrunInv, LateInv, [Next]_vars,
                    NEW p \in User, Alone(p)
             PROVE  NotLate(p)'
  BY DEF LateInv, Alone
<1> NotLate(p)
  BY DEF LateInv
<1>1. ASSUME pc \notin {"run", "halted"}, at' = at PROVE NotLate(p)'
  BY <1>1 DEF DelayInv, NotLate
<1>2. CASE Boot
  BY <1>1, <1>2 DEF Boot, StartupNext, Sgdt, CStart, Init8259A, InitIdt, InitTss, InitLdt, Lgdt,
                    HappyMain, InitProc
<1>3. CASE Restart
  BY <1>1, <1>3 DEF Restart
<1>4. CASE Tick
  BY <1>4, TickLate
<1>5. CASE Schedule
  BY <1>5, ScheduleLate
<1>6. CASE TtyTask
  <2>1. (\E from, to : Execute(Tty, from, to)) /\ UNCHANGED <<since, eax, t>>
    BY <1>6 DEF TtyTask, InitKeyboard, InitTty, data
  <2> QED
    BY <2>1, ExecuteLate, Processes
<1>7. ASSUME NEW q \in User, UserStep(q) PROVE NotLate(p)'
  BY <1>7, UserLate
<1>8. ASSUME NEW q \in Proc, NEW v \in ExceptionVector, Exception(q, v) PROVE NotLate(p)'
  BY <1>8, SameLate DEF Exception, sched, data
<1>9. CASE UNCHANGED vars
  BY <1>9, SameLate DEF vars, sched, data
<1> QED
  BY <1>2, <1>3, <1>4, <1>5, <1>6, <1>7, <1>8, <1>9 DEF Next, Halted

LEMMA LateFound ==
  ASSUME RoundInv, OverrunInv, DelayInv, LateInv PROVE NeverLate
<1> SUFFICES ASSUME NEW p \in User, Alone(p), at[p] \in Waiting
             PROVE  (since[p] - MaxLate(p)) * SECOND < ms(p) * HZ
  BY DEF NeverLate
<1>1. PICK s0 \in 0 .. since[p], s \in 0 .. since[p] : Looked(p, s0, s)
  BY DEF LateInv, NotLate
<1>2. /\ since[p] - s0 <= MaxLate(p) /\ MaxLate(p) \in Nat /\ since[p] \in Nat /\ s0 \in Nat
  BY <1>1, LookBound
<1>3. s0 * SECOND < ms(p) * HZ /\ ms(p) \in Nat
  BY <1>1, UserProcessAssumption DEF Looked
<1> HIDE DEF ms, MaxLate
<1>4. (since[p] - MaxLate(p)) * SECOND <= s0 * SECOND
  BY <1>2, WordNat
<1>5. /\ (since[p] - MaxLate(p)) * SECOND \in Int /\ s0 * SECOND \in Int /\ ms(p) * HZ \in Int
  BY <1>2, <1>3, WordNat
<1> QED
  BY <1>3, <1>4, <1>5

\* When milli_delay() is still at it, not more time than it was asked for has
\* gone by, and one turn of every other process.
THEOREM NeverLateTheorem ==
  ASSUME TurnsAreShort
  PROVE  Spec => []NeverLate
<1>1. Init => ConsoleInv /\ DelayInv /\ RoundInv /\ OverrunInv /\ LateInv
  BY InitConsole, InitDelay, InitRound, InitLate
<1>2. ASSUME StartInv, ConsoleInv, DelayInv, RoundInv, OverrunInv, LateInv, [Next]_vars
      PROVE  ConsoleInv' /\ DelayInv' /\ RoundInv' /\ OverrunInv' /\ LateInv'
  BY <1>2, ConsoleStep, DelayStep, RoundStep, LateStep
<1>3. RoundInv /\ OverrunInv /\ DelayInv /\ LateInv => NeverLate
  BY LateFound
<1> QED
  BY <1>1, <1>2, <1>3, StartCorrect, PTL DEF Spec
=============================================================================
