# happyOS: a verification project

happyOS is a small 32-bit x86 operating system: a FAT12 boot sector and a
loader, a kernel with two processes, preemptive scheduling, system calls, a
keyboard driver and three text consoles, and, outside the kernel image, a
simulated FAT file system. This directory holds TLA+ modules that model it, the
TLC configurations that check them, and proofs that TLAPS checks.

## 1. Inventory of the system

| Component | Source | State | Operations |
|---|---|---|---|
| Interrupt and system call entry | `kernel/kernel.asm`, `kernel/syscall.asm` | `k_reenter`, kernel stack, `tss.esp0`, the PCBs' register areas, `eflags.IF` | `save`, `restart`, `restart_reenter`, `hwint_master`, `sys_call` |
| Interrupt controller | `kernel/8259.c`, `lib/klib.asm` | 8259A masks and requests, `irq_table` | `put_irq_handler`, `enable_irq`, `disable_irq`, `disable_int`, `enable_int` |
| Scheduler and clock | `kernel/clock.c`, `kernel/process.c` | `ticks`, `p_proc_ready`, `PROCESS.ticks`, `PROCESS.priority` | `clock_handler`, `schedule`, `sys_get_ticks`, `milli_delay` |
| Keyboard buffer | `kernel/keyboard.c` 17-62 | `kb_in`: ring, head, tail, count | `keyboard_handler`, `get_byte_from_kb_buf`, `init_keyboard` |
| Keyboard decoder | `kernel/keyboard.c` 65-172, `include/keymap.h` | modifier flags, `code_with_E0` | `keyboard_read` |
| TTY | `kernel/tty.c` | per TTY ring `in_buf`, `in_count`, `p_console` | `tty_task`, `tty_do_read`, `tty_do_write`, `put_key`, `in_process`, `sys_write` |
| Console | `kernel/console.c` | per console `cursor`, `current_start_addr`; CRTC registers; video memory; `nr_current_console` | `init_screen`, `out_char`, `scroll_screen`, `select_console`, `flush`, `set_cursor` |
| Boot | `boot/boot.asm`, `boot/loader.asm` | disc, FAT chain, memory image, page tables | directory search, `GetFATEntry`, chain load, `InitKernel`, `SetupPaging` |
| Library | `lib/` | `disp_pos` | `itoa`, `vsprintf`, `printf`, `disp_str`, string and memory routines |
| File system simulator | `bak/fat16.c` | `myvhard`, two FATs, open file table | format, mkdir, rmdir, create, rm, open, close, read, write, exit |
| Start-up | `kernel/kernel.asm` 73-99, `kernel/start.c`, `kernel/main.c` | `gdt_ptr`, `proc_table`, `p_task_stack`, the counters | `_start`, `cstart`, `happy_main` |
| Descriptors and exceptions | `kernel/protect.c`, `kernel/interupt.c`, `kernel/kernel.asm` 246-309 | GDT, LDTs, IDT, TSS | `init_descriptors`, `init_idt`, the exception entries, `exception_handler` |
| User processes | `kernel/main.c` 10-33, `lib/mylib.c`, `kernel/clock.c` 37-40 | local variables on their stacks | `TestA`, `TestB`, `printf`, `milli_delay` |
| Protected-mode demonstrations | `pm/` | - | stand-alone programs of an earlier stage |

How they interact. Interrupts enter through `hwint_master`, which saves the
interrupted process into its PCB and calls the handler in `irq_table`. The
clock's handler charges the current process and calls `schedule`, which moves
`p_proc_ready`; `restart` then resumes that process. The keyboard's handler puts
a byte into `kb_in`; `tty_task`, a process in ring 1, takes it out, decodes it and
passes a key to `in_process`, which queues a character for the current TTY,
scrolls it or selects another one; `tty_task` then echoes the character through
`out_char`. A user process writes by the system call `write`, which runs
`out_char` too, in ring 0, on the TTY of the caller. `tty_task` can be preempted
anywhere in `out_char`, a system call cannot be.

### What is hard here, and what makes each part correct

- **Entry and exit.** `hwint_master` and `sys_call` run their handlers with
  interrupts on, on one kernel stack, and decide by one unsigned counter whether
  they came from a process. Correct means: every process resumes with its own
  registers, nested entries return to the code they interrupted, a line is masked
  exactly while its handler runs, no line is opened before its handler is
  installed, and a system call answers the process that made it.
- **Scheduler.** A tick may land anywhere, also in the kernel, where it is
  charged but does not schedule. Correct means: shares are respected round by
  round, and everybody runs again and again.
- **Keyboard buffer.** An interrupt fills what a process empties, and only a
  `cli`/`sti` pair in ring 1 keeps them apart. Correct means: a bounded queue.
- **Decoder.** Keys send one to six bytes, at any time, into a buffer that may
  lose one. Correct means: keys come out as they went in, and the decoder does not
  wait for bytes that are not on their way.
- **TTY.** A key acts at once or is queued; the console may change in between.
  Correct means: everything typed has its effect once, in order, where the user
  saw it.
- **Console.** Two parties share cursors, windows and one indexed device;
  `out_char` is not atomic for one of them. Correct means: nobody writes outside
  his video memory, the device gets whole addresses, the screen shows what the
  tables say, and the scrolling loop ends.
- **Boot and loader.** Arithmetic at the edges of sectors, tracks and segments,
  loops that test after their body, one buffer for two purposes. Correct means:
  the right bytes in the right place, or a message.
- **Start-up.** Four files and the loader each build a part of the tables by which
  the processor resumes a process, and the loader clears no memory, so that what C
  takes for zero is not. Correct means: when `restart` is called nothing that was
  never set is relied on, and every process has a ring, segments and a stack of its own.
- **User processes.** A process that waits or prints is preempted between reading
  the clock and comparing, between converting a number and writing it, and starts
  without asking whether the console is ready. Correct means: not too early, not too
  late, in order, and never before there is a console.
- **Exceptions.** Some push an error code, some do not. Correct means: the handler is
  told what happened.
- **File system.** The same fact is kept in several places (an FCB in its
  directory, in the open file table and in its own `.` entry; a chain in two FATs),
  each command updates some of them, and only `exit` saves. Correct means: no
  block shared or lost, files hold what was written, the copies agree.

PROJECT.json lists the hazards one by one, each at its line, with the properties
that watch it.

## 2. The modules

| Module | What it is | Source |
|---|---|---|
| `Kernel` | entries, exits, masks, clock, `schedule`, system calls | `kernel.asm`, `clock.c`, `process.c`, `8259.c`, `klib.asm` |
| `FairShare` | what the scheduler promises; `Kernel` implements it | `clock.c`, `process.c` |
| `KernelProofs` | theorems about `Kernel` | |
| `KbBuffer` | `kb_in`, instruction by instruction | `keyboard.c` 17-62 |
| `ByteQueue` | a bounded queue; `KbBuffer` implements it | |
| `KbBufferProofs` | theorems about `KbBuffer` | |
| `KeyboardRead` | the keyboard and `keyboard_read` | `keyboard.c` 65-172, `keymap.h` |
| `Tty` | `tty_task`, buffers, routing of keys | `tty.c` |
| `TtyProofs` | theorems about `KeyboardRead` and `Tty` | |
| `Console` | `out_char`, scrolling, the CRT controller, two parties | `console.c`, `tty.c` |
| `ConsoleProofs` | theorems about `Console` | |
| `Startup` | from `_start` to `restart`; what the processor makes of a selector; exception entries | `kernel.asm`, `start.c`, `protect.c`, `interupt.c`, `main.c` |
| `UserProcess` | the TTY task's initialisation, `TestB`, `TestA`, `printf`, `milli_delay`, on `FairShare` and its clock; EXTENDS `Startup` | `main.c`, `mylib.c`, `clock.c`, `tty.c` |
| `UserProcessProofs` | theorems about `Startup` and `UserProcess` | |
| `Fat12` | sectors and FAT entries, as operators | `boot.asm`, `loader.asm` |
| `Boot` | real mode: search and load, both programs; EXTENDS `Fat12` | `boot.asm`, `loader.asm` |
| `Loader` | protected mode: memory, paging, ELF; EXTENDS `Boot` | `loader.asm`, `boot/include/lib.inc` |
| `LoaderProofs` | theorems about `Fat12`, `Boot` and `Loader` | |
| `FileSystem` | the simulated FAT file system | `bak/fat16.c` |
| `FileSystemProofs` | theorems about `FileSystem`: the root directory and the open files; lemmas about the tree of files | |
| `FilesProofs` | theorems about `FileSystem`: the files and directories, command by command; EXTENDS `FileSystemProofs` | |
| `MC...` | the instances for TLC | |

The modules compose by what they promise each other, because a product of all of
them would be out of reach and is not needed: the parts meet at few, narrow
places.

- `KbBuffer` makes `keyboard_handler` one step, because `Kernel` shows that no
  process runs between an entry and its return (`ContextIntact`).
- `KeyboardRead` receives its bytes from a bounded queue that loses the newest,
  which is `ByteQueue`.
- `Tty` receives keys in the order typed, of which the last may be incomplete,
  which is what `KeyboardRead` shows.
- `Console` lets a system call fall into the TTY task's call but not the reverse,
  which is `NoSwitchInsideKernel` and `ReenterCountsNesting` of `Kernel`.
- `Loader` extends `Boot`, which extends `Fat12`: one machine, from the boot
  sector to the kernel's first instruction.
- `Startup` begins there, and `Kernel` where `happy_main` is about to execute
  `restart`. `StartsAsKernel` joins the two: `Startup` instantiates `Kernel` with its own
  tables and states that they satisfy `Kernel`'s `Init`.
- `UserProcess` schedules its processes by the actions of `FairShare`, which
  `Kernel` implements (`ImplementsFairShare`, `FairShareTheorem`); its system calls
  are single steps because they come back to their caller (`SyscallReturns`,
  `NoSwitchInsideKernel`).

### How state and actions correspond to the code

**Kernel.** `kstack[i]` is frame i of the kernel stack: which line it serves, where
its handler is (`pc`), the label `save` pushed, `esi`, and the local variables of
`schedule` and of the system call. `pcb[p]` and `cpu` are register files, represented
by whose they are and whose system call computed `eax`. Between an entry and its
`sti`, and between the `cli` and the `iretd`, nothing can happen: `IrqEnter`,
`SysEnter`, `IrqLeave` and `SysReturn` are one step each. In between every statement
that another line could interrupt is a step: the count of the tick, the test of
`k_reenter`, each iteration of `schedule`, each character of a `write`. The spurious
default handler, the order of priorities of the 8259A and its latches are there.

**KbBuffer.** `kb_in.count--` is a load and a store (`Load`, `StoreCount`), as in the
build; the pointers are indexes.

**KeyboardRead.** One step per byte that `keyboard_read` takes, one for the decoding,
one for the call of `in_process`. `Make` and `Break` are the keyboard's, from the
table in `keymap.h`. The undefined `make` of the Pause key (`keyboard.c` 68 and 162)
is a choice between both values; if it is 0 the key is never passed on, and `dropped` records that.

**Tty.** One step per stage of the polling loop; `output` records the calls of
`out_char` and `scroll_screen`.

**Console.** Two parties, `"tty"` and `"sys"`, each with a program counter, the
register it loaded and the progress of its four `out_byte`. `p_vmem` is taken from
the cursor on entry and used later, as in the code.

**Boot, Loader.** One step per sector searched, directory entry compared, cluster
loaded, `int 15h`, memory range and program header. A byte carries where it comes
from, so that misplaced bytes show.

**Startup.** One step per function, or per round of its loop. Every variable that no
initialiser of the image sets begins as `Junk`. A descriptor is its kind, its
privilege and whose it is; a selector is its index, its table and its RPL, so that an index
that does not fit the table built elsewhere shows. `GdtPtr` of the loader holds the table's
length, not its last byte, and `cstart` copies that many bytes: all four descriptors.
`SegmentOf` and `Usable` are the processor's lookup and its checks when a segment is loaded.

**UserProcess.** `at[p]` is where process p is in its loop: before the conversion of
`printf`, before `write`, in the system call, between the two halves of the test in
`milli_delay`. A tick charges the owner, and the clock's handler schedules if it found
user mode: not in a system call, and not while it interrupts `keyboard_handler` (`nested`), which
`hwint_master` runs with interrupts on over whatever the processor was doing, from the moment
`init_keyboard` has enabled its line. The time a process needs is counted in steps: `SPEED` of them at least lie between two
ticks. `Int32` is the multiplication of C, which wraps in the build; the division of C
truncates and `\div` rounds down, which makes no difference to a comparison with a positive delay.
An exception may be raised at any instruction of a process, in each of the sixteen
kinds; `Arguments` is the stack as `exception_handler` reads it.

**FileSystem.** One step per command. `findblock`, `do_read`, `do_write`, `my_open` and
`my_close` are operators that commands compose as the C functions call each other;
each yields the disc, the table of open files and `broken`. `broken` names the places where
the program reads a variable it has not set, leaves its tables or its buffers, or gives back the blocks of a file that
keeps its entry: what happens then depends on what lies in memory, and nothing is claimed of it. Reading
commands (`ls`, `read`) change nothing and have no action. A path is a sequence of
single steps, as `my_cd` splits it. `RootIsFound` is what `startsys` relies on: it takes the first
FCB of block 5 for the root's, without a look at its name. A name is a member of `Name`, and `Split`
says what `strtok` makes of it: `my_open` cuts every name at its `.`, `my_create` and `my_rm` cut theirs,
and `my_mkdir` and `my_rmdir` write and look for theirs whole and then call `my_open`. Where a name has a `.`,
they open something else than the entry, a file or nothing; the ghost `dotted` records that such a directory was
made or removed, and the properties that such a command breaks are claimed while it was not (`Regular`).
`Fits` is the size of the buffers that `do_read` fills without asking (`MAXTEXT`): where what is read does not fit,
`broken` says so. `OnTheWayUp` is about the table: commands
that open a file for a while (`my_mkdir`, `my_rmdir`) have several ways out, and what one of them
left open would stay so until the next start.

## 3. The runs

| Run | Instance | What it shows |
|---|---|---|
| `kernel` | 3 processes, shares 1, 2, 1, two lines | contexts, nesting, masks, `FairShare`, everybody runs, calls return |
| `kb_buffer` | ring of 3 | a bounded queue in every interleaving; no byte stays |
| `keyboard_read` | 8 keys, 2 held at once, buffer of 2, one byte lost | decoded in order; none missing but a Pause; no useless wait; a loss is not for ever |
| `tty` | 2 TTYs, buffers of 2, all sequences of 4 keys of 8 kinds | echo in order and in place; everything read |
| `console_serial` | 2 consoles of 7 cells, windows of 2 rows of 2 | stores in their region; screen in step; cursor at the end of what is shown |
| `console_race` | 1 console of 11 cells, rows of 3, `sys_write` anywhere | device not torn; excess bounded; the loop ends |
| `console_race_store` | the same | *violation*: a store outside the region |
| `console_scroll` | the same, with scroll keys | *violation*: the screen is behind |
| `loader` | 7560 floppies and memory maps, and a BIOS that may fail to report them | files found, loaded whole, kernel in place, memory mapped, boot ends |
| `user_process` | the TTY task (share 3) and TestB (share 2), 2 consoles, 4 lines, an `int` of 64 values, numbers of two digits | start-up complete and as `Kernel` begins; nobody writes too early; delays neither short nor long; numbers in order; exceptions reported |
| `file_system` | 3 free blocks, 3 open files, 2 names with a `.` and 1 without, each given for files and for directories, buffers of 10 units | until a directory is made or removed under a name with a `.`: one owner per block, files read back, copies agree, the root's length is saved; whatever the names: the root's entries stay, what is opened is closed |
| `file_system_cut` | the same, 1 name with a `.`, buffers of 12 | *violation*: `fcbstate` does not tell |

### Bounds, and why they are enough

- `kernel`: `NR_TASKS` 3 so that a search passes over, takes and ties; one priority
  larger than the others, so that a round has turns of different length. `WORD` 8 stands for
  2^32: all that matters is that it exceeds the deepest nesting, which
  `KernelAssumption` states and the proofs use. `MAX_OVERRUN` bounds how far below
  zero a process's ticks are counted; they are only compared with zero. `MAX_WRITE`
  1 gives a system call of several steps. The proofs need none of these values.
- `kb_buffer`: three bytes let head and tail wrap at different times and the
  buffer fill up; two scan codes tell the order.
- `keyboard_read`: the buffer of two bytes is shorter than three of the sequences,
  so that waiting inside a key and losing its last byte both happen; keys that
  share a scan code (left and right Alt, arrow and key pad) are there, and
  modifiers with keys that depend on them. `MaxLost` 1: the user slows down after a
  loss; from there on only `LossIsNotForEver` claims anything.
- `tty`: Alt+F3 is the first one beyond two consoles; four keys are enough for
  character, switch, character, switch back.
- `console_*`: as in the code (5461 cells, rows of 80, windows of 2000) the region
  is not a whole number of rows, the last window reaches past the region's end, and the boot
  messages end inside it. `SysBurst`: TestB prints a few characters, less than a row, once in
  ten seconds, and one `sys_write` at most falls into one call of the TTY task.
  `LayoutAssumption` states that it does not fill the row the region leaves incomplete (10
  digits, 21 cells left over, rows of 80) and that the window is two rows at least and fits.
- `loader`: sectors of four bytes and two FATs of three sectors put FAT entries at
  all places relative to the end of a sector, and a directory of two sectors with
  two entries lets the files lie at every place of it. `SegmentSize` 16 is larger
  than each file; `BootAssumption` states that, and the code does not check it. The first FAT lies
  in one track, as in the code (sectors 1 to 9 of 18): `Fat12Assumption`, which reading two
  sectors at once needs. `FloppyAssumption` describes the disc: chains of clusters that the disc
  has and the FAT can number, none of them twice. `LoaderAssumption` describes what was linked,
  program headers whose segments lie in the file and do not overlap, and memory that ends below 4 GB.
  `DWORD` 16 stands for 2^32. Chains end with 0FFFh, as the systems that write
  floppies leave them. A machine without a memory map ends in stage `no_map`.
- `user_process`: `HZ` 2 and `SECOND` 3 (100 and 1000 in the code) make the division
  leave a remainder, so that a delay of 4 is not a whole number of ticks; `WORD` 64
  lets `ticks` wrap during a delay, and `UserProcessAssumption` excludes delays whose
  product would overflow, which in the code begin at 2147483 ticks. `RADIX` 4 and `DIGITS`
  2 (16 and 8) have zeros in both digits, and all numbers are printed and wrap. `SPEED` 3
  is one pass of the loop in `milli_delay`; a tick of the code is thousands of
  them, and the initialisation of the TTY task takes far less than its share of 15.
  `MAX_OVERRUN` 1 is how many further ticks may hit the kernel, a system call or the keyboard's
  handler, after a process's share is used: both are short against a tick, and the keyboard sends a
  byte in a millisecond at most; `NeverLate` allows each other process so many in its turn; `FAULT_TICKS` bounds when exceptions are raised. Two processes, as in `main.c`;
  `NeverLate` is for shares of more than one tick of which no two are equal (15 and 5 in the
  code), since two processes with one share may take turns for longer. The proofs are for any number of
  processes and need none of the other values.
- `file_system`: blocks of 7 units and FCBs of 2 put FCBs across blocks; three
  free blocks make the disc full, the table of three makes it overflow, files grow over
  a second block. `MAXTEXT` 10 (10000 in the code) has room for five entries, of which `do_read` can still
  read four, so that files of 12 units and full directories overflow the buffers. All eight values of
  `broken` but "no" are reached. The runs use a VIEW, which drops what no command can read: the content of blocks that cannot be reached from
  the root, the entries that were removed, and the saved image while the program
  runs, since a kill leads to the state in which the image was saved; all states with
  the same `broken` count as one, as nothing follows them. Deadlock is not
  checked there because a broken program stops; everywhere else it is.

### Fairness

- `Kernel.FairSpec`: the processor executes the frame it is in. Interrupts can
  interrupt it again and again but come at a finite rate, so each level of the stack
  gets its turn infinitely often and then moves (strong fairness per level). The
  8253 ticks for ever and finds user mode from time to time; no process keeps
  interrupts off (`TtyEnableInt`). Nothing is assumed of the keyboard, nor that a
  process ever makes a system call.
- `KbBuffer`, `Tty`, `KeyboardRead`, `Console`: weak fairness of the TTY task's next step,
  which is `EveryoneRuns` of `Kernel`, and of a system call's, which is
  `SyscallReturns`. A keyboard that has begun a key sends it to the end. The user need
  not type, scroll or write; `LossIsNotForEver` states its condition on the user itself.
- `Loader.Spec`: weak fairness of the machine; a sector that is read again and again
  is read in the end.
- `FileSystem`: none; only safety is claimed.
- `UserProcess`: none. That a delay ends is stated as a bound in ticks (`NeverLate`), and
  that ticks come and processes run is `EveryoneRuns` of `Kernel`.

### What the violations show

1. `console_race_store`: `out_char('\b')` computes `p_vmem` on entry (`console.c:68`)
   and tests the cursor later (`:76`). A `sys_write` in between makes the test succeed for a
   cursor that was at the start: the blank is stored one cell below the console's
   memory. `NearHome` of `console_race` bounds the rest.
2. `console_scroll`: Shift+Up and Shift+Down change `current_start_addr` without
   `flush` (`tty.c:91`): nothing scrolls until the next character.
3. `file_system_cut`: a cut write with no line changes the FCB and not `fcbstate`
   (`fat16.c:646`), so that `close` forgets the cut.

Two more things that the code does are in the models and need no run to be seen.

- `mkdir f.x` writes the entry with the whole name, and `my_open` then looks for a file `f` with extension `x`
  (`fat16.c:524`). If there is none, `my_mkdir` returns at line 278: the directory has no `.` and `..`, and its
  parent's `.` keeps the old length (line 306 is not reached), so that, in the root, a restart does not see the entry
  and its block is lost. If there is one, the two entries overwrite its first units (lines 290 and 301), and a later
  `rmdir f.x` gives the file's blocks back (line 353) while the file keeps its entry: the model stops there. So
  `OneOwner`, `ReadBack`, `CopiesAgree`, `RootIsUpToDate` and `SecondFatLags` are claimed only until a directory is made
  or removed under a name with a `.`; without that condition they are false of the code.
- Nothing sets `make` for a Pause (`keyboard.c:83`), and if it holds 0 line 162 drops the key. `NothingForgotten`
  is about all other keys.

## 4. The proofs

TLAPS checks all proofs; nothing is taken on trust but the named assumptions on
the constants (`KernelAssumption`, `KbBufferAssumption`, `TtyAssumption`,
`ConsoleAssumption`, `LayoutAssumption`, `StartupAssumption`, `UserProcessAssumption`,
`KeyboardReadAssumption`, `Fat12Assumption`, `BootAssumption`, `FloppyAssumption`,
`LoaderAssumption`, `FileSystemAssumption`), which TLC evaluates on the runs. `TypeOK` of `Kernel`, `KbBuffer`, `Tty` and `Console` is a theorem;
the runs leave it to the proofs.

**KernelProofs**, for any number of processes, priorities and bounds. None of the
safety properties is inductive: each needs to know what can be on the stack. `IInv`
joins them with `FrameShape` (handlers above at most one system call or the boot
frame, `schedule` only at the bottom), `BootFirst`, `InterruptsOff` (off only before
the first restart and in `tty_task`) and `HandlersInstalled`. The proof has one lemma for
steps inside a frame (`InFrameStep`), one for entries (`EntryStep`) and one for exits
(`ExitStep`), and a lemma per action that reduces to them. That at most three frames
are live follows from `MaskedIffInService`: two lines, each once, above one other
frame. From `IInv` follow `TypeOK`, `ReenterCountsNesting`, `MaskedIffInService`,
`NoSwitchInsideKernel`, `ContextIntact` and `NoSpuriousDispatch`.

In the same module: `Spec => ImplementsFairShare`. The abstract owner is
`p_proc_ready`, or nobody while `schedule` searches, and what a process has used is
its priority less its positive ticks. The proof adds to `IInv` what the search has
found so far (`FoundSoFar`): no process seen has more than `greatest`, and
`p_proc_ready` has just that. A tick cannot fall into the search, because the
search runs in the clock's own handler (`MaskedIffInService`); every other step leaves
the abstract state alone (`Steady`).

**KbBufferProofs**, for every size of the buffer: `TypeOK`, `RingConsistent` and
`Spec => ImplementsByteQueue`. The invariant ties the program counter of
`get_byte_from_kb_buf` to what may be relied on there: interrupts are off from
`disable_int` to `enable_int`, so the loaded `count` is still the one in memory, and a
byte that was seen is still there, since the handler only adds.

**TtyProofs** follows a key from the keyboard to the echo and extends both `KeyboardRead` and `Tty`; so that
both can be spoken of in one module, the definitions of `Tty` with a common name are `TtyInit`, `TtyNext`, `TtySpec`,
`TtyFairSpec` and `tty_vars` there. Its first half is about `KeyboardRead`, for any set of keys without Power, any buffer and any number of keys
held down: `DecodedInOrder`, `NothingForgotten` (no key is missing in the end but a Pause) and `WaitsOnlyForTheRest`. A byte does not say
to which key it belongs: left and right Alt share a code, and what 42 means depends on
the bytes before it. So the invariant cannot speak of the bytes alone. It says that there is a way to
tag them: the byte read last and all bytes on their way belong each to an event of the keyboard
and are its `at`-th byte (`Tagged`); the tags follow one another as a keyboard sends; the last
event is complete (`Complete`), and the keys of the events that are typed are those
expected (`Awaited`), from which only a Pause may be dropped. `Parser` then says where `keyboard_read` stands after the byte with that
tag, with the modifiers that were down before or after its event. Pressing a key appends
tags (`Sending`), reading a byte takes the first (`Reading`), and each of the four kinds of
byte has a lemma. The hypothesis `"POWER" \notin Key` is needed: the row of Power in `keymap[]`
is empty (`keymap.h:118`), so that `in_process` gets 0 for it.

The second half is about `Tty`, for any number of TTYs, any size of their buffers and any keys: `TypeOK`,
`NothingDropped` and `EchoedInOrder`. The invariant says that every buffer is empty when a key is
read and holds one character at most when it is printed, and that the pointers of an empty buffer
meet, so that what is printed is what was stored. `EchoInv` then says that what the consoles were told
is what the keys handled so far ask for, but for the one character that is in a buffer when
`tty_do_write` runs (`Printed`). What the keys ask for is a recursion along the keys typed, and that there is
just one function with its equation needs an induction; here it is that of the
state invariant (`Foreseen`), since keys are handled one by one: `ExpectedOfAppend` extends the
function by one key.

**ConsoleProofs**, for any number of consoles, any video memory and any length of the
`sys_write` that falls into the TTY task's call: `TypeOK` and `CrtNotTorn`. The CRT
controller is a critical section whose two parties keep each other out by different
means: `OneAtThePorts` says that the TTY task is there with interrupts off and no system
call in progress, or that it is not there at all. `PortProgress` says what each
`out_byte` so far has left in the index and the data registers. All steps away from
the ports reduce to one lemma (`QuietInv`).

In the same module, wherever a system call falls: `NearHome`. A statement of the TTY task
relies on a test made some statements before, and in between a system call may have moved the
cursor or the window. What saves it is that a system call only adds, and only within
the region, and that it is short. `HInv` says so: `CursorProgress` and `WindowProgress` state
for each statement what the test is still worth, up to the `Remaining` characters of a system call in
progress and the `Bonus` of one that has run; `NextRowFits` shows that even then a newline ends at
the region's end at most, which is where `LayoutAssumption` is needed. A system call's step is
shown to be a `Grows` step, and `GrowsProgress` that such steps keep the worth of the
tests. With `VInv`, which follows the address that `out_char` took on entry, plain characters
are stored in their own console's region (`PlainStoresAtHome`). That the erasing of `\b` is too holds if no
system call falls into a call (`SerialStoresAtHome`); `console_race_store` shows that the condition is needed.

The rest of the module is for a TTY task alone (`SysBurst = 0`) and any number of consoles:
`CursorAtEnd` and, if the user does not scroll, `CrtInSync`. `EInv` says of every console that
is up that its cursor is in its region and that the text ends there, with one cell of `Slack` while a
character is stored and not passed, or passed back and not erased; it needs that regions have no cell
in common (`RegionsApart`) and that only `init_screen` brings a console up (`UpAfter`). `CInv` says
of each statement of a call which of the controller's two addresses is up to date, and that whatever
`out_char` has changed it is still going to show. That the second half of an address leaves the first
register alone comes from `PortProgress`.

**UserProcessProofs**, for any task table, any number of processes, lines and
consoles, any size of the GDT and any word length. `StartInv` says for each stage of the start-up
what has been set so far: the first descriptors once `cstart` has copied them, the LDT
descriptors of the processes the loop has passed, the PCBs of those `happy_main` has
passed, and that `p_task_stack` is where the stacks before it end. That stacks do
not overlap follows from `Top`, the positions at which `StartupAssumption` says the stacks
can be cut. `ReadyToRun`, `StartsAsKernel` and `ExceptionReported` follow from it. For
`ConsoleBeforeWrite` the invariant `ConsoleInv` counts: as long as the TTY task is setting up
its TTYs it has been the owner since `restart`, and `SPEED * used + moved` is at most the number
of steps it has made, which its share exceeds; so no tick has taken the processor from it.
For `NeverEarly` the invariant
`DelayInv` says that while p waits, the clock it read first and the ticks since then give the clock now,
modulo the word; `ElapsedIsExact` shows that the comparison in C, with
its wrapping subtraction and product, then never counts more ticks than there were.

`NeverLate` needs what the scheduler does between two looks at the clock. `RoundInv` says that
a process that has run in this round has used its share up and that whoever has not run yet has
no larger one; `OverrunInv` that only a tick in a system call or over the keyboard's handler goes beyond a share, the
TTY task's too, and one more that schedules. `Behind(p)`
are the processes whose turn has been since p ran last: none of them gets another before p, so
that the ticks since then are at most `Away(p)`, a sum of turns (`AwayBound`). While p runs itself
(`Running`), the ticks since its last look but one are those of the others' turns and two of its own,
one before and one after the last look, since a pass of the loop takes less than a tick; a process
with a share of two ticks cannot lose the processor in the same pass again. `NotOver` then says that
a test that goes on has seen less time than the delay. It needs `TurnsAreShort`, which the theorem
assumes of the constants and the run evaluates: a delay and a turn of every other process are
less than half the range of an int, for otherwise the counter may wrap while the others run.

`PrintedInOrder` rests on `ItoaIsRight`: the digits that `itoa` leaves stand for the number and
do not begin with a zero unless they are just that. It is an induction on the digits done: the string so
far stands for the number without the digits to come. Inductions over data (here also for `ValueOf`,
the powers and the sum of turns) go by `Induction`, for a set of numbers, which the
well-foundedness of `<` gives; `RecursionDefines` and `RecursionUnique` get from it that a recursive
function is what its equation says.

**LoaderProofs**, for any geometry of the floppy, any directory, chains, memory map and program
headers that the assumptions allow. `FatEntryRead` is what all loading rests on: the twelve
bits that `GetFATEntry` returns are those of the cluster's entry, wherever it lies relative to bytes
and sectors. It goes by half bytes: entry c is the half bytes 3c to 3c + 2, which the division
by two and the shift pick, and `ReadSector`'s cylinder, head and sector lead back to the
sector they were computed from. On it rests `LoadIsExact`. Its invariant says that the
directory has been compared in order up to the entry at `di` (`SearchInv`), so that a file is missing
only if it is not there, and that the clusters before the one on the stack are in memory,
in order and behind one another (`LoadInv`); that `bx` does not wrap needs
`SegmentSize`. For `MemoryMapped`, `MapInv` and `SizeInv` say that the map is as the BIOS
reported it so far and that `dwMemSize` is not below an end of a usable range seen so far, and
`PagingInv` that the page tables are the identity; that their number times `PTES` does not overflow
needs `PTES` (1024) to divide 2^32. For `KernelInPlace`, `KernelInv` says that the segments of the
headers passed are in place, which later copies leave so since segments do not overlap.

**FileSystemProofs** and **FilesProofs**, for any size of the disc, its blocks and FCBs, any table and any names and
lines: all seven properties of the run `file_system`, two of them whatever the names and five while no directory
was made or removed under a name with a `.`, by two invariants, one on top of the other.

`RootInv` (theorem `DiscCorrect` of `FileSystemProofs`) needs nothing of the chains but that they stay off the root. Its half
`DiscInv` holds of the saved image and, while the program runs, of the disc in use: a chain leads to
no block up to the root's first, and not off the disc; every FCB on the disc has its type, a
user's name in it never goes with a block of the root's, and a directory's length has room for its first two
entries; the root's own two are in place. The other half, `TableInv`, says of every open file
that its FCB is such a one, that its father is open, that its place in the father's directory is
none of the first two, and gives each a depth below its father's (`Depths`), so that the fathers lead to the root
and, as no two open files have one depth, reach it within the size of the table. It holds also where `my_mkdir`
writes the two entries of a directory into a file that it opened instead. From it follow
`RootIsFound` and `OnTheWayUp`. Commands compose
`do_write`, `my_open` and `my_close`, so the proof is one lemma for each of these (what a
write leaves of other FCBs: it overwrites whole ones, at a place computed through a chain that may
have just grown) and one per command. `FileSystemAssumption` says what the commands' input is: no name is
empty, `.` or `..`, nor what is left of it before the `.`, and a line is not empty and fits into a buffer.

`FilesGood` (theorem `FilesStayGood` of `FilesProofs`) is about the files, of the disc in use and of the saved image,
each while it is not `dotted`: an `exit` saves the mark with the image, and a restart takes it over. None of the five other properties is
inductive: that a file is read back needs that no write reaches its blocks, hence that no two chains
meet; that they do not meet when one grows needs that every block in use is in some chain; that `rm`
frees the blocks of one file only, and that nothing is lost by it, needs that the file has one entry; and that the entry
is found again needs that names are where the table says. The program keeps no list of its
files, so the invariant says that there is one, a witness `w` (`AtEase`): the first blocks of all files
(`w.heads`) and of the directories among them, and for each the directory and the place of its
entry, its length, the directories above it and its depth. Of such a witness hold (`FilesInv`, in `FileSystemProofs`)

- `ChainsInv`: each file has a whole chain, no two meet, and each block that is not free is in one;
  `LagInv`: where the second FAT lags;
- `UnitsInv`, `PlacesInv`, `SizesInv`: an FCB with a user's name is the entry of one file, at the file's place
  in a directory long enough, and there is none in free blocks or beyond the length of a directory;
- `FilledInv`: a directory has its `.` and `..`. If `my_mkdir` could not open it, because another
  of its name was open further up, it never gets them; but then it is never opened either, for whoever
  opens it stands below the other one, which is still open;
- `AboveInv`: the directories are a tree, no deeper than the table is long;
- `OpenInv`: the open files are those on the way to `curdir`, their FCBs are those of their entries but for
  a length that will be written back, and a file that is not open has its length in its entry;
- `TextInv`: what the chain of a file holds is the user's text.

While a command is under way a new file has a chain and no entry yet (`w.orphans`), an entry of a
removed one has no chain (`w.holes`), and a new directory lacks its two entries (`w.raw`). The lemmas on the
steps that commands share (`do_write`, `my_open`, `my_close`, a block taken, a chain freed, an FCB written into a
directory) take any such witness to the next, and a command ends with the three sets empty (`AtRest`).
`ImageInv` says the same of the saved image with all files closed; `exit` establishes it by closing its way up
to the root, and a restart takes it over. `RootIsUpToDate` is part of the invariant, for `ImageInv` rests on it:
a restart knows the root's length from its `.` entry alone. The one command that leaves it behind is
a `my_mkdir` in the root which does not find the entry it has just made. That happens with a name that has a `.`; with
any other `OpenInv` and `PlacesInv` say that it finds it. `OneOwner`
and `ReadBack` speak of the `Tree` that is found level by level from the root; by induction on the depth (`TreeIs`) it
is the files of the witness.

Only model-checked: liveness, under the fairness of section 3 (fairness and ENABLED are out of the
prover's reach): `EveryoneRuns` and `SyscallReturns` of `Kernel`, `EveryByteIsRead` of `KbBuffer`,
`EveryCallReturns` of `Console`, `LossIsNotForEver` of `KeyboardRead`, `EveryKeyIsRead` of `Tty` and `BootEnds`
of `Loader`. Every other property of a passing run, all invariants among them, is proved.

## 5. What is not modelled

- The text of exceptions and of the boot messages (`disp_str`, `disp_int`, `delay`);
  `hwint_slave`, which has no device; the switch to protected mode inside the loader, one step.
- What an exception does to the PCB: the processor pushes onto the register area of the
  process, calls the handler there and halts, so that nobody reads it again.
- The base and limit of a descriptor, which stand for what it describes.
- `strcpy`, `strlen` and `write`, which change `esi`, `edi` or `ebx` without saving them: C code
  compiled by the makefile's flags may rely on them, which cannot be read from the source. (A
  register that is overwritten without explanation is reported in `src/README.md` under
  2023.1.1; `ContextIntact` shows that it is not the entry and exit code.)
- Memory that is read and never set: `code_with_E0` of the keyboard, which
  `KeyboardRead` takes to be clear at first, and the gates of unused vectors.
- `milli_delay` counts ticks: in real time it may end up to a tick early, since the
  first one is under way. Delays whose product overflows.
- A machine whose BIOS reports no memory: the loop of `DispMemInfo` then goes round 2^32
  times (`loader.asm:425`, a `for` loop in the comment of line 403); the model stops there.
- In the file system: field widths, the splitting of a path at `\` (a path is its steps), names with several dots or with
  nothing on one side of the dot, offsets of 64 KB and more, a
  kill in the middle of saving, and what follows an error return that no caller recognises (`broken`).
- `src/pm/`, the makefile and the bochs configuration.

## 6. Plan

The order followed was: `Kernel` with its proofs, since all else rests on it;
`KbBuffer` with its proofs; the drivers above it (`Console`, `KeyboardRead`, `Tty`), with
proofs about `Console` and `Tty`; booting; the file system; the start-up and the user
processes, with their proofs; then proofs about booting and the keyboard decoder; at last those about
the file system. What would come next:

1. `FileSystem`: `my_exitsys` in steps (close, write the image, free), so that a kill can fall between
   `fopen` and `fclose`, and what `ImageInv` becomes then; names of a bounded length, with any number of dots.
2. `FileSystem`: the error returns at which the model stops (`broken`), one by one, with
   the values that the variables can have there.
3. `Kernel` and the drivers: proofs that what liveness needs step by step holds (a rank that
   each step lowers), as far as it can be said without fairness.
