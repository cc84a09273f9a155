------------------------------ MODULE Startup ------------------------------
(***************************************************************************)
(* From the kernel's first instruction to the first process: _start of     *)
(* kernel.asm, cstart(), init_descriptors(), init_idt(), init_8259A() and  *)
(* happy_main(), which build the tables that the processor and the rest of *)
(* the kernel rely on.  Interrupts are off throughout.  The loader clears  *)
(* no memory: a variable holds Junk until the code stores something in it. *)
(*                                                                         *)
(* Abstractions.  A descriptor is its kind, its privilege and, for an LDT, *)
(* the process whose ldts it describes; that stands for base and limit.  A *)
(* selector is its index, its table and its RPL.                           *)
(***************************************************************************)
EXTENDS Integers, Sequences

CONSTANTS
  NR_TASKS,
  NR_IRQ,             \* lines of the two 8259A
  GDT_SIZE,
  task_table,         \* task_table[p]: [initial_eip, stack_size, priority, type]
  STACK_SIZE_TOTAL,   \* the size of task_stack
  Junk                \* what memory holds that nothing was stored in

Proc   == 0 .. NR_TASKS - 1
NoProc == -1
Line   == 0 .. NR_IRQ - 1

CLOCK_IRQ    == 0
KEYBOARD_IRQ == 1

PRIVILEGE_KRNL == 0
PRIVILEGE_TASK == 1
PRIVILEGE_USER == 3

INDEX_FLAT_C    == 1
INDEX_FLAT_RW   == 2
INDEX_VIDEO     == 3
INDEX_TSS       == 4
INDEX_LDT_FIRST == 5

\* The stacks are cut from the end of task_stack, which is large enough.
ASSUME StartupAssumption ==
  /\ NR_TASKS \in Nat \ {0}
  /\ NR_IRQ \in Nat /\ NR_IRQ > KEYBOARD_IRQ
  /\ GDT_SIZE \in Nat /\ GDT_SIZE >= INDEX_LDT_FIRST + NR_TASKS
  /\ STACK_SIZE_TOTAL \in Nat
  /\ \A p \in Proc :
       /\ task_table[p].stack_size \in Nat \ {0}
       /\ task_table[p].priority \in Nat \ {0}
       /\ task_table[p].type \in {"TASK", "USER"}
  /\ \E top \in [0 .. NR_TASKS -> 0 .. STACK_SIZE_TOTAL] :
       /\ top[0] = STACK_SIZE_TOTAL
       /\ \A p \in Proc : top[p + 1] = top[p] - task_table[p].stack_size

Descriptor == [kind : {"dummy", "code", "data", "video", "tss", "ldt"},
               dpl : 0 .. 3, of : Proc \union {NoProc}]
Desc(kind, dpl, of)     == [kind |-> kind, dpl |-> dpl, of |-> of]
Selector(index, ti, rpl) == [index |-> index, ti |-> ti, rpl |-> rpl]

VARIABLES
  pc,            \* the function the processor is in
  n,             \* its loop variable
  gdt_ptr,       \* how many bytes of which table lgdt and sgdt transfer
  gdtr,          \* the table the processor uses
  gdt, idt,
  idt_loaded,
  tss_esp0,      \* the PCB that tss.esp0 points to
  imr, irq_table,
  k_reenter, ticks, p_proc_ready,
  p_task_stack,  \* how much of task_stack is below the next stack
  proc_table

tables  == <<gdt_ptr, gdtr, gdt, idt, idt_loaded, tss_esp0>>
lines   == <<imr, irq_table>>
globals == <<k_reenter, p_proc_ready, p_task_stack, proc_table>>
boot    == <<n, tables, lines, globals>>

\* LABEL_GDT and GdtPtr of loader.asm, whose limit is the table's length.
LoaderGdt == [k \in 0 .. 3 |->
  Desc(<<"dummy", "code", "data", "video">>[k + 1],
       IF k = INDEX_VIDEO THEN PRIVILEGE_USER ELSE PRIVILEGE_KRNL, NoProc)]
SizeOfDescriptor == 8
GdtLen == 4 * SizeOfDescriptor

StartupInit ==
  /\ pc = "_start"
  /\ n = 0
  /\ gdt_ptr = Junk
  /\ gdtr = [table |-> "loader", limit |-> GdtLen]
  /\ gdt = [k \in 0 .. GDT_SIZE - 1 |-> Junk]
  /\ idt = Junk
  /\ idt_loaded = FALSE
  /\ tss_esp0 = Junk
  /\ imr = Junk
  /\ irq_table = [l \in Line |-> Junk]
  /\ k_reenter = Junk
  /\ ticks = Junk
  /\ p_proc_ready = Junk
  /\ p_task_stack = Junk
  /\ proc_table = [p \in Proc |-> Junk]

-----------------------------------------------------------------------------
(* _start and cstart().                                                    *)

Sgdt ==
  /\ pc = "_start"
  /\ gdt_ptr' = gdtr
  /\ pc' = "cstart"
  /\ UNCHANGED <<n, gdtr, gdt, idt, idt_loaded, tss_esp0, lines, globals, ticks>>

\* memcpy() copies bytes: so many whole descriptors.
Copied(limit) == limit \div SizeOfDescriptor

CStart ==
  /\ pc = "cstart"
  /\ gdt' = [k \in DOMAIN gdt |->
               IF k < Copied(gdt_ptr.limit) THEN LoaderGdt[k] ELSE gdt[k]]
  /\ gdt_ptr' = [table |-> "kernel", limit |-> GDT_SIZE * SizeOfDescriptor]
  /\ pc' = "init_8259A"
  /\ UNCHANGED <<n, gdtr, idt, idt_loaded, tss_esp0, lines, globals, ticks>>

-----------------------------------------------------------------------------
(* init_idt() and init_descriptors().                                      *)

\* All lines masked, all handlers spurious.
Init8259A ==
  /\ pc = "init_8259A"
  /\ imr' = Line
  /\ irq_table' = [l \in Line |-> "spurious_irq"]
  /\ pc' = "init_idt"
  /\ UNCHANGED <<n, tables, globals, ticks>>

ExceptionVector  == (0 .. 14) \union {16}
INT_VECTOR_BREAKPOINT == 3
INT_VECTOR_OVERFLOW   == 4
INT_VECTOR_PROTECTION == 13
INT_VECTOR_IRQ0       == 32
INT_VECTOR_SYS_CALL   == 144
Vector == ExceptionVector \union {INT_VECTOR_IRQ0 + l : l \in Line} \union {INT_VECTOR_SYS_CALL}

\* The gates that an int instruction of a process may use.
GateDpl(v) ==
  IF v \in {INT_VECTOR_BREAKPOINT, INT_VECTOR_OVERFLOW, INT_VECTOR_SYS_CALL}
  THEN PRIVILEGE_USER ELSE PRIVILEGE_KRNL

\* Every gate leads to the entry in kernel.asm that is named for its vector.
InitIdt ==
  /\ pc = "init_idt"
  /\ idt' = [v \in Vector |-> [entry |-> v, dpl |-> GateDpl(v)]]
  /\ pc' = "init_tss"
  /\ UNCHANGED <<n, gdt_ptr, gdtr, gdt, idt_loaded, tss_esp0, lines, globals, ticks>>

InitTss ==
  /\ pc = "init_tss"
  /\ tss_esp0' = NoProc
  /\ gdt' = [gdt EXCEPT ![INDEX_TSS] = Desc("tss", PRIVILEGE_KRNL, NoProc)]
  /\ n' = 0
  /\ pc' = "init_ldt"
  /\ UNCHANGED <<gdt_ptr, gdtr, idt, idt_loaded, lines, globals, ticks>>

\* selector_ldt goes up by one descriptor with each process.
InitLdt ==
  /\ pc = "init_ldt"
  /\ gdt' = [gdt EXCEPT ![INDEX_LDT_FIRST + n] = Desc("ldt", PRIVILEGE_KRNL, n)]
  /\ n' = n + 1
  /\ pc' = IF n + 1 \in Proc THEN pc ELSE "lgdt"
  /\ UNCHANGED <<gdt_ptr, gdtr, idt, idt_loaded, tss_esp0, lines, globals, ticks>>

Lgdt ==
  /\ pc = "lgdt"
  /\ gdtr' = gdt_ptr
  /\ idt_loaded' = TRUE
  /\ pc' = "happy_main"
  /\ UNCHANGED <<n, gdt_ptr, gdt, idt, tss_esp0, lines, globals, ticks>>

-----------------------------------------------------------------------------
(* happy_main().                                                           *)

\* (Wrong: what the C standard says of static variables is taken for true.)
HappyMainTrusting ==
  /\ pc = "happy_main"
  /\ irq_table' = [irq_table EXCEPT ![CLOCK_IRQ] = "clock_handler"]
  /\ imr' = imr \ {CLOCK_IRQ}
  /\ p_task_stack' = STACK_SIZE_TOTAL
  /\ n' = 0
  /\ pc' = "init_proc"
  /\ UNCHANGED <<tables, k_reenter, ticks, p_proc_ready, proc_table>>

\* init_clock(), and what the loop begins with.
HappyMain ==
  /\ pc = "happy_main"
  /\ irq_table' = [irq_table EXCEPT ![CLOCK_IRQ] = "clock_handler"]
  /\ imr' = imr \ {CLOCK_IRQ}
  /\ k_reenter' = 0
  /\ ticks' = 0
  /\ p_task_stack' = STACK_SIZE_TOTAL
  /\ n' = 0
  /\ pc' = "init_proc"
  /\ UNCHANGED <<tables, p_proc_ready, proc_table>>

Privilege(type) == IF type = "TASK" THEN PRIVILEGE_TASK ELSE PRIVILEGE_USER
Iopl(type)      == IF type = "TASK" THEN PRIVILEGE_TASK ELSE PRIVILEGE_KRNL

\* (Wrong: the copies of the kernel's descriptors keep their privilege.)
LdtCopied(rank) == <<gdt[INDEX_FLAT_C], gdt[INDEX_FLAT_RW]>>

\* Copies of the kernel's descriptors with the privilege changed.
Ldt(rank) == <<[gdt[INDEX_FLAT_C] EXCEPT !.dpl = rank], [gdt[INDEX_FLAT_RW] EXCEPT !.dpl = rank]>>

\* es, fs and ss are as ds.  nr_tty is the TTY sys_write() takes.
Pcb(p) ==
  LET task == task_table[p]
      rank == Privilege(task.type)
  IN  [ticks |-> task.priority, priority |-> task.priority,
       ldt_selector |-> Selector(INDEX_LDT_FIRST + p, "gdt", PRIVILEGE_KRNL),
       ldts |-> Ldt(rank),
       cs |-> Selector(0, "ldt", rank), ds |-> Selector(1, "ldt", rank),
       gs |-> Selector(INDEX_VIDEO, "gdt", rank),
       eip |-> task.initial_eip, esp |-> p_task_stack, iopl |-> Iopl(task.type),
       nr_tty |-> 0]

StackAfter(p) == p_task_stack - task_table[p].stack_size

InitProc ==
  /\ pc = "init_proc"
  /\ proc_table' = [proc_table EXCEPT ![n] = Pcb(n)]
  /\ p_task_stack' = StackAfter(n)
  /\ n' = n + 1
  /\ IF n + 1 \in Proc THEN UNCHANGED <<pc, p_proc_ready>>
     ELSE p_proc_ready' = 0 /\ pc' = "restart"
  /\ UNCHANGED <<tables, lines, k_reenter, ticks>>

StartupNext ==
  Sgdt \/ CStart \/ Init8259A \/ InitIdt \/ InitTss \/ InitLdt \/ Lgdt \/ HappyMain \/ InitProc

-----------------------------------------------------------------------------
(* What the processor makes of the tables.                                 *)

\* The descriptor that a selector of process p stands for, after lldt.
SegmentOf(p, s) ==
  LET ldt == gdt[proc_table[p].ldt_selector.index]
  IN  IF s.ti = "gdt" THEN gdt[s.index] ELSE proc_table[ldt.of].ldts[s.index + 1]

Usable(d, kinds, rank) == d \in Descriptor /\ d.kind \in kinds /\ d.dpl >= rank

\* lldt, the pops and iretd of restart find the process's own LDT, code and
\* stack of exactly its ring, and data and video segments its ring may use;
\* the TTY task alone has the I/O privilege for cli, sti, in and out.
RunsInItsRing(p) ==
  LET pcb == proc_table[p]
      cpl == pcb.cs.rpl
      ldt == gdt[pcb.ldt_selector.index]
      cs  == SegmentOf(p, pcb.cs)
      ss  == SegmentOf(p, pcb.ds)
  IN  /\ Usable(ldt, {"ldt"}, PRIVILEGE_KRNL) /\ ldt.of = p
      /\ Usable(cs, {"code"}, cpl) /\ cs.dpl = cpl
      /\ Usable(ss, {"data"}, cpl) /\ ss.dpl = cpl
      /\ Usable(SegmentOf(p, pcb.gs), {"video"}, cpl)
      /\ cpl > PRIVILEGE_KRNL /\ (cpl <= pcb.iopl <=> task_table[p].type = "TASK")

\* Inside task_stack and apart from every other process's.
StackOf(p) == proc_table[p].esp - task_table[p].stack_size + 1 .. proc_table[p].esp
StackIsItsOwn(p) ==
  /\ StackOf(p) \subseteq 1 .. STACK_SIZE_TOTAL
  /\ \A q \in Proc \ {p} : StackOf(p) \intersect StackOf(q) = {}

\* When restart() is called every process can be resumed: the tables that the
\* loader, start.c, protect.c and main.c each build a part of agree with the
\* selectors in its PCB, and no process runs on another's stack.
ReadyToRun ==
  pc \in {"restart", "run"} =>
    /\ gdtr.table = "kernel"
    /\ \A p \in Proc : RunsInItsRing(p) /\ StackIsItsOwn(p)

\* Kernel begins where happy_main() calls restart(): the registers of process p
\* are its own when they lead to its first instruction.
Context(p) == [regs |-> p, eax |-> p]
NoFrame ==
  [vec |-> -1, pc |-> "none", ret |-> "none", esi |-> NoProc, caller |-> NoProc,
   p_proc |-> NoProc, len |-> 0, p |-> 0, greatest |-> 0]
BootFrame == [NoFrame EXCEPT !.pc = "boot", !.ret = "restart"]

K == INSTANCE Kernel WITH
       Priority   <- [p \in Proc |-> task_table[p].priority],
       WORD       <- 8, TICK_WORD <- 1, MAX_OVERRUN <- 0, MAX_WRITE <- 0,
       ticks_left <- [p \in Proc |-> proc_table[p].ticks],
       kstack     <- [l \in 1 .. 3 |-> IF l = 1 THEN BootFrame ELSE NoFrame],
       esp        <- 1,
       pcb        <- [p \in Proc |-> Context(IF proc_table[p].eip = task_table[p].initial_eip
                                             THEN p ELSE NoProc)],
       cpu        <- Context(NoProc),
       int_on     <- FALSE,
       imr        <- imr \intersect {CLOCK_IRQ, KEYBOARD_IRQ},
       irr        <- {},
       irq_table  <- [l \in {CLOCK_IRQ, KEYBOARD_IRQ} |-> irq_table[l]],
       tty_pc     <- "disable"

\* The start-up code leaves the machine as Kernel takes it to be: counters,
\* shares, masks, handlers and register areas were all set, in whatever order
\* the functions are called, and no other line is open.
StartsAsKernel == pc = "restart" => K!Init /\ imr = Line \ {CLOCK_IRQ}

-----------------------------------------------------------------------------
(* Exceptions.  The processor pushes what it knows, the entry its number   *)
(* and, if the processor pushed no error code, one that means none.        *)

CpuPushesCode == {8} \union (10 .. 14)
CpuPushes(v) ==
  IF v \in CpuPushesCode THEN <<"code", "eip", "cs", "eflags">> ELSE <<"eip", "cs", "eflags">>

\* (Wrong: the page fault's entry pushes a code as well.)
EntryPushesCode(v) == IF v \in {8} \union (10 .. 13) THEN <<v>> ELSE <<v, "none">>

EntryPushes(v) == IF v \in {8} \union (10 .. 14) THEN <<v>> ELSE <<v, "none">>

\* int3 and into go through the gate only if its DPL allows it.
Taken(v, cpl) ==
  IF v \in {INT_VECTOR_BREAKPOINT, INT_VECTOR_OVERFLOW} /\ idt[v].dpl < cpl
  THEN INT_VECTOR_PROTECTION ELSE v

\* The five arguments that exception_handler() finds: on top of the stack is
\* what the entry pushed, below it what the processor pushed.
Arguments(v) ==
  LET entry == EntryPushes(idt[v].entry)
  IN  [k \in 1 .. 5 |-> IF k <= Len(entry) THEN entry[k] ELSE CpuPushes(v)[k - Len(entry)]]
=============================================================================
