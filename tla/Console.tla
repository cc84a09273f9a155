------------------------------- MODULE Console -------------------------------
(***************************************************************************)
(* The consoles of console.c: each one owns a region of video memory, has  *)
(* a cursor and a window in its region, and the current one is shown by    *)
(* the CRT controller.  Two parties write to them: the TTY task, which     *)
(* runs in ring 1 and may be preempted wherever interrupts are on, and     *)
(* sys_write(), which runs in the kernel for a user process.               *)
(*                                                                         *)
(* A system call runs to its end before any process runs again             *)
(* (NoSwitchInsideKernel of Kernel): while "sys" is busy "tty" does not    *)
(* move.  The reverse does not hold: "sys" may start in the middle of      *)
(* whatever "tty" is doing, unless it has disabled interrupts.  Fields of  *)
(* a console that a statement reads and writes back are loaded into a      *)
(* register first, as the unoptimised build does.                          *)
(*                                                                         *)
(* Addresses are in cells (two bytes).  A cell is inked or blank.          *)
(***************************************************************************)
EXTENDS Integers, Sequences

CONSTANTS
  NR_CONSOLES,
  SCREEN_WIDTH,     \* cells of a row
  SCREEN_SIZE,      \* cells of the window
  V_MEM_LIMIT,      \* cells of a console's region
  DispPos,          \* where the boot messages may end, in cells
  TtyChars,         \* the characters the TTY task prints
  ScrollKeys,       \* can the user scroll?
  SysBurst,         \* the most characters of one sys_write(): TestB prints
                    \* the digits of a number
  Watched           \* the cells whose content the model records

ASSUME ConsoleAssumption ==
  /\ NR_CONSOLES \in Nat \ {0}
  /\ SCREEN_WIDTH \in Nat \ {0}
  /\ SCREEN_SIZE \in Nat \ {0}
  /\ V_MEM_LIMIT \in Nat \ {0}
  /\ DispPos \subseteq 0 .. V_MEM_LIMIT - 1
  /\ TtyChars \subseteq {"x", "newline", "backspace"}
  /\ ScrollKeys \in BOOLEAN
  /\ SysBurst \in Nat

\* The window is two rows at least and fits into the region, and one system
\* call does not fill the row that the division of the video memory leaves
\* incomplete: here 2000, 80, 5461 and ten digits.
ASSUME LayoutAssumption ==
  /\ 2 * SCREEN_WIDTH <= SCREEN_SIZE
  /\ SCREEN_SIZE <= V_MEM_LIMIT
  /\ SysBurst + (V_MEM_LIMIT % SCREEN_WIDTH) <= SCREEN_WIDTH

VARIABLES
  cursor, current_start_addr,   \* console_table, by console
  nr_current_console,
  ink,              \* the watched cells that hold a character
  index,            \* the CRT controller: the register that is selected
  crtc,             \* and its four data registers
  int_on,           \* the interrupt flag of the TTY task
  pc,               \* pc[a]: the next statement of party a
  call,             \* call[a]: the calls a has still to make, current first
  p_vmem,           \* p_vmem[a]: local variable of out_char()
  reg,              \* reg[a]: a register: a loaded field, or an argument
  port,             \* port[a]: progress in a sequence of out_byte()
  written,          \* has sys_write() run since the TTY task's call began?
  started           \* what tty_task() has initialised: init_tty() of so many
                    \* consoles, and select_console(0)

screen == <<cursor, current_start_addr, nr_current_console, ink>>
crt    == <<index, crtc>>
flow   == <<pc, call, written, started>>
locals == <<p_vmem, reg, port>>
vars   == <<screen, crt, int_on, flow, locals>>

ConsoleId == 0 .. NR_CONSOLES - 1
Party     == {"tty", "sys"}
TestBTty  == 0

origal_addr(c) == c * V_MEM_LIMIT
Limit(c)       == origal_addr(c) + V_MEM_LIMIT
Region(c)      == origal_addr(c) .. Limit(c) - 1

\* out_byte() writes an address in two parts.
ByteBase == 5
Hi(addr) == addr \div ByteBase
Lo(addr) == addr % ByteBase
Shown(r) == crtc[<<r, "hi">>] * ByteBase + crtc[<<r, "lo">>]

-----------------------------------------------------------------------------
OutChar(c, ch) == [op |-> "out_char", c |-> c, ch |-> ch]
SetCursor(c)   == [op |-> "set_cursor", c |-> c, ch |-> "x"]
InitScreen(c)  == [op |-> "init_screen", c |-> c, ch |-> "x"]
Select(c)      == [op |-> "select", c |-> c, ch |-> "x"]
ScrollUp(c)    == [op |-> "scroll_up", c |-> c, ch |-> "x"]
ScrollDown(c)  == [op |-> "scroll_down", c |-> c, ch |-> "x"]

\* The calls of tty_task() before its loop: init_tty() of each console, and
\* the choice of the first.
StartCalls(n) ==
  CASE n = NR_CONSOLES -> <<Select(0)>>
    [] n = 0           -> <<InitScreen(0), SetCursor(0)>>
    [] OTHER           -> <<InitScreen(n), OutChar(n, "x"), OutChar(n, "x"), SetCursor(n)>>

Init ==
  /\ cursor = [c \in ConsoleId |-> 0]
  /\ current_start_addr = [c \in ConsoleId |-> 0]
  /\ nr_current_console = 0
  /\ ink = {}
  /\ index = <<"start", "hi">>
  /\ crtc = [r \in {"start", "cursor"} \X {"hi", "lo"} |-> 0]
  /\ int_on = TRUE
  /\ pc = [a \in Party |-> "idle"]
  /\ call = [a \in Party |-> <<>>]
  /\ p_vmem = [a \in Party |-> 0]
  /\ reg = [a \in Party |-> 0]
  /\ port = [a \in Party |-> 0]
  /\ written = FALSE
  /\ started = 0

Idle(a) == pc[a] = "idle" /\ call[a] = <<>>

\* Who has the processor: the TTY task waits for the system call to end.
Runs(a) == a = "tty" => Idle("sys")

At(a, from) == pc[a] = from /\ Runs(a)
Jump(a, to) == pc' = [pc EXCEPT ![a] = to] /\ UNCHANGED <<call, written, started>>
Goto(a, to) == Jump(a, to) /\ UNCHANGED <<p_vmem, reg>>

\* What is local to a call dies with it.
Return(a) ==
  /\ pc' = [pc EXCEPT ![a] = "idle"]
  /\ call' = [call EXCEPT ![a] = Tail(@)]
  /\ written' = (a = "sys" /\ written)
  /\ UNCHANGED started
  /\ p_vmem' = [p_vmem EXCEPT ![a] = 0]
  /\ reg' = [reg EXCEPT ![a] = 0]

This(a) == Head(call[a]).c
Char(a) == Head(call[a]).ch

Set(f, a, v) == f' = [f EXCEPT ![a] = v]

-----------------------------------------------------------------------------
(* The callers: in_process() and tty_do_write() in the loop of tty_task(), *)
(* and sys_write().                                                        *)

TtyStart ==
  /\ Runs("tty") /\ Idle("tty")
  /\ started <= NR_CONSOLES
  /\ started' = started + 1
  /\ Set(call, "tty", StartCalls(started))
  /\ UNCHANGED <<screen, crt, int_on, pc, written, locals>>

TtyCall ==
  /\ Runs("tty") /\ Idle("tty")
  /\ started > NR_CONSOLES
  /\ \E c \in ConsoleId :
       \/ \E ch \in TtyChars : Set(call, "tty", <<OutChar(c, ch)>>)
       \/ Set(call, "tty", <<Select(c)>>)
       \/ /\ ScrollKeys
          /\ c = nr_current_console
          /\ \/ Set(call, "tty", <<ScrollUp(c)>>)
             \/ Set(call, "tty", <<ScrollDown(c)>>)
  /\ UNCHANGED <<screen, crt, int_on, pc, written, started, locals>>

\* sys_write() begins once tty_task() has set up the consoles (Booted).  TestB
\* writes once in ten seconds and the TTY task is scheduled in between, so
\* that one write at most falls into one of its calls.
Up(c) ==
  c < started /\ \A i \in 1 .. Len(call["tty"]) : call["tty"][i] /= InitScreen(c)

Booted == \A c \in ConsoleId : Up(c)

SysWrite ==
  /\ int_on
  /\ Booted
  /\ Idle("sys")
  /\ ~written
  /\ written' = TRUE
  /\ \E len \in 1 .. SysBurst :
       Set(call, "sys", [i \in 1 .. len |-> OutChar(TestBTty, "x")])
  /\ UNCHANGED <<screen, crt, int_on, pc, started, locals>>

Entry == [out_char |-> "vmem", set_cursor |-> "cursor_arg", init_screen |-> "init",
          select |-> "select", scroll_up |-> "up", scroll_down |-> "down"]

Call(a) ==
  /\ At(a, "idle") /\ call[a] /= <<>>
  /\ Goto(a, Entry[Head(call[a]).op])
  /\ UNCHANGED <<screen, crt, int_on, port>>

-----------------------------------------------------------------------------
(* init_screen() and select_console().                                     *)

InitFields(a) ==
  /\ At(a, "init")
  /\ Set(current_start_addr, This(a), origal_addr(This(a)))
  /\ \E pos \in IF This(a) = 0 THEN DispPos ELSE {origal_addr(This(a))} :
       Set(cursor, This(a), pos)
  /\ Return(a)
  /\ UNCHANGED <<nr_current_console, ink, crt, int_on, port>>

SelectConsole(a) ==
  /\ At(a, "select")
  /\ nr_current_console' = This(a)
  /\ Goto(a, "flush")
  /\ UNCHANGED <<cursor, current_start_addr, ink, crt, int_on, port>>

-----------------------------------------------------------------------------
(* out_char().                                                             *)

\* The address is taken from the cursor on entry.
VideoAddress(a) ==
  /\ At(a, "vmem")
  /\ Set(p_vmem, a, cursor[This(a)])
  /\ Jump(a, "switch")
  /\ UNCHANGED <<screen, crt, int_on, reg, port>>

\* (Wrong: the last cell of the region is printed to as well.)
FitsLast(a) ==
  LET c == This(a) IN
  CASE Char(a) = "newline"   -> cursor[c] < Limit(c) - SCREEN_WIDTH
    [] Char(a) = "backspace" -> cursor[c] > origal_addr(c)
    [] OTHER                 -> cursor[c] < Limit(c)

\* Is there room for what the character does?
Fits(a) ==
  LET c == This(a) IN
  CASE Char(a) = "newline"   -> cursor[c] < Limit(c) - SCREEN_WIDTH
    [] Char(a) = "backspace" -> cursor[c] > origal_addr(c)
    [] OTHER                 -> cursor[c] < Limit(c) - 1

\* (Wrong: the limits of the region are forgotten.)
TestNothing(a) ==
  /\ At(a, "switch")
  /\ Goto(a, IF Char(a) = "x" THEN "store" ELSE "load")
  /\ UNCHANGED <<screen, crt, int_on, port>>

Test(a) ==
  /\ At(a, "switch")
  /\ Goto(a, IF ~Fits(a) THEN "while" ELSE IF Char(a) = "x" THEN "store" ELSE "load")
  /\ UNCHANGED <<screen, crt, int_on, port>>

StoreChar(a) ==
  /\ At(a, "store")
  /\ ink' = ink \union ({p_vmem[a]} \intersect Watched)
  /\ Goto(a, "load")
  /\ UNCHANGED <<cursor, current_start_addr, nr_current_console, crt, int_on, port>>

LoadCursor(a) ==
  /\ At(a, "load")
  /\ Set(reg, a, cursor[This(a)])
  /\ Jump(a, "move")
  /\ UNCHANGED <<screen, crt, int_on, p_vmem, port>>

NextRow(c, pos) ==
  origal_addr(c) + SCREEN_WIDTH * ((pos - origal_addr(c)) \div SCREEN_WIDTH + 1)

MoveCursor(a) ==
  /\ At(a, "move")
  /\ Set(cursor, This(a), CASE Char(a) = "newline"   -> NextRow(This(a), reg[a])
                            [] Char(a) = "backspace" -> reg[a] - 1
                            [] OTHER                 -> reg[a] + 1)
  /\ Goto(a, IF Char(a) = "backspace" THEN "erase" ELSE "while")
  /\ UNCHANGED <<current_start_addr, nr_current_console, ink, crt, int_on, port>>

\* (Wrong: the cell under the old cursor is blanked.)
EraseHere(a) ==
  /\ At(a, "erase")
  /\ ink' = ink \ {p_vmem[a]}
  /\ Goto(a, "while")
  /\ UNCHANGED <<cursor, current_start_addr, nr_current_console, crt, int_on, port>>

Erase(a) ==
  /\ At(a, "erase")
  /\ ink' = ink \ {p_vmem[a] - 1}
  /\ Goto(a, "while")
  /\ UNCHANGED <<cursor, current_start_addr, nr_current_console, crt, int_on, port>>

BelowWindow(c) == cursor[c] >= current_start_addr[c] + SCREEN_SIZE

While(a) ==
  /\ At(a, "while")
  /\ Goto(a, IF BelowWindow(This(a)) THEN "down" ELSE "flush")
  /\ UNCHANGED <<screen, crt, int_on, port>>

-----------------------------------------------------------------------------
(* scroll_screen(), called by out_char() and for Shift+Up and Shift+Down.  *)

AfterScroll(a) == Head(call[a]).op /= "out_char"

\* (Wrong: the window stops before the last rows.)
RoomToScrollShort(c) == current_start_addr[c] + SCREEN_SIZE + SCREEN_WIDTH < Limit(c)

RoomToScroll(c) == current_start_addr[c] + SCREEN_SIZE < Limit(c)

ScrollTest(a) ==
  /\ \/ /\ At(a, "down")
        /\ IF RoomToScroll(This(a)) THEN Goto(a, "down_load")
           ELSE IF AfterScroll(a) THEN Return(a) ELSE Goto(a, "while")
     \/ /\ At(a, "up")
        /\ IF current_start_addr[This(a)] > origal_addr(This(a)) THEN Goto(a, "up_load")
           ELSE Return(a)
  /\ UNCHANGED <<screen, crt, int_on, port>>

ScrollLoad(a) ==
  /\ \/ At(a, "down_load") /\ Jump(a, "down_store")
     \/ At(a, "up_load") /\ Jump(a, "up_store")
  /\ Set(reg, a, current_start_addr[This(a)])
  /\ UNCHANGED <<screen, crt, int_on, p_vmem, port>>

ScrollStore(a) ==
  /\ \/ /\ At(a, "down_store")
        /\ Set(current_start_addr, This(a), reg[a] + SCREEN_WIDTH)
     \/ /\ At(a, "up_store")
        /\ Set(current_start_addr, This(a), reg[a] - SCREEN_WIDTH)
  /\ IF AfterScroll(a) THEN Return(a) ELSE Goto(a, "while")
  /\ UNCHANGED <<cursor, nr_current_console, ink, crt, int_on, port>>

-----------------------------------------------------------------------------
(* flush(), set_video_start_addr() and set_cursor().                       *)

\* (Wrong: only a console that is not shown is flushed.)
FlushOther(a) ==
  /\ At(a, "flush")
  /\ IF This(a) /= nr_current_console
     THEN /\ Set(reg, a, current_start_addr[This(a)])
          /\ Jump(a, "start")
          /\ UNCHANGED p_vmem
     ELSE Return(a)
  /\ UNCHANGED <<screen, crt, int_on, port>>

Flush(a) ==
  /\ At(a, "flush")
  /\ IF This(a) = nr_current_console
     THEN /\ Set(reg, a, current_start_addr[This(a)])
          /\ Jump(a, "start")
          /\ UNCHANGED p_vmem
     ELSE Return(a)
  /\ UNCHANGED <<screen, crt, int_on, port>>

CursorArgument(a) ==
  /\ At(a, "cursor_arg")
  /\ Set(reg, a, cursor[This(a)])
  /\ Jump(a, "cursor")
  /\ UNCHANGED <<screen, crt, int_on, p_vmem, port>>

\* (Wrong: the ports are written with interrupts on.)
DisableIntNot(a) ==
  /\ pc[a] \in {"start", "cursor"} /\ Runs(a)
  /\ port[a] = 0
  /\ Set(port, a, 1)
  /\ UNCHANGED <<screen, crt, int_on, flow, p_vmem, reg>>

DisableInt(a) ==
  /\ pc[a] \in {"start", "cursor"} /\ Runs(a)
  /\ port[a] = 0
  /\ Set(port, a, 1)
  /\ int_on' = IF a = "tty" THEN FALSE ELSE int_on
  /\ UNCHANGED <<screen, crt, flow, p_vmem, reg>>

OutByte(a) ==
  /\ pc[a] \in {"start", "cursor"} /\ Runs(a)
  /\ \/ /\ port[a] \in {1, 3}
        /\ index' = <<pc[a], IF port[a] = 1 THEN "hi" ELSE "lo">>
        /\ UNCHANGED crtc
     \/ /\ port[a] \in {2, 4}
        /\ crtc' = [crtc EXCEPT ![index] = IF port[a] = 2 THEN Hi(reg[a]) ELSE Lo(reg[a])]
        /\ UNCHANGED index
  /\ Set(port, a, port[a] + 1)
  /\ UNCHANGED <<screen, int_on, flow, p_vmem, reg>>

EnableInt(a) ==
  /\ pc[a] \in {"start", "cursor"} /\ Runs(a)
  /\ port[a] = 5
  /\ Set(port, a, 0)
  /\ int_on' = IF a = "tty" THEN TRUE ELSE int_on
  /\ IF pc[a] = "start" THEN Goto(a, "cursor_arg") ELSE Return(a)
  /\ UNCHANGED <<screen, crt>>

-----------------------------------------------------------------------------
Step(a) ==
  \/ Call(a)
  \/ InitFields(a) \/ SelectConsole(a)
  \/ VideoAddress(a) \/ Test(a) \/ StoreChar(a) \/ LoadCursor(a) \/ MoveCursor(a)
  \/ Erase(a) \/ While(a)
  \/ ScrollTest(a) \/ ScrollLoad(a) \/ ScrollStore(a)
  \/ Flush(a) \/ CursorArgument(a) \/ DisableInt(a) \/ OutByte(a) \/ EnableInt(a)

Next == TtyStart \/ TtyCall \/ SysWrite \/ \E a \in Party : Step(a)

Spec == Init /\ [][Next]_vars

\* A party that is inside a call gets on: both are scheduled (EveryoneRuns and
\* SyscallReturns of Kernel).  Nothing forces a call to be made.
FairSpec == Spec /\ \A a \in Party : WF_vars(Step(a))

-----------------------------------------------------------------------------
(* Properties.                                                             *)

\* Types and ranges.
TypeOK ==
  /\ cursor \in [ConsoleId -> Int]
  /\ current_start_addr \in [ConsoleId -> Int]
  /\ nr_current_console \in ConsoleId
  /\ \A r \in DOMAIN crtc : crtc[r] \in Int
  /\ int_on \in BOOLEAN
  /\ ~int_on => pc["tty"] \in {"start", "cursor"}
  /\ port \in [Party -> 0 .. 5]

\* Even when a system call falls into the middle of out_char(), the cursor
\* passes the last cell of its region by one at most, and never the first one,
\* and the window stays on rows of the region: its last row may be a partial
\* one, and when both parties scroll at once it is one row too far at most.
NearHome ==
  \A c \in ConsoleId : Up(c) =>
    /\ cursor[c] \in Region(c) \union {Limit(c)}
    /\ current_start_addr[c] \in Region(c)
    /\ (current_start_addr[c] - origal_addr(c)) % SCREEN_WIDTH = 0
    /\ current_start_addr[c] + SCREEN_SIZE < Limit(c) + 2 * SCREEN_WIDTH

\* out_char() stores only in the video memory of its console: never below the
\* adapter's memory, and never in the text of another console.
StoresAtHome ==
  \A a \in Party :
    /\ pc[a] = "store" => p_vmem[a] \in Region(This(a))
    /\ pc[a] = "erase" => p_vmem[a] - 1 \in Region(This(a))

\* Between two calls a console's cursor is in its region, and nothing is left at
\* or after it: the last cell stays free, what backspace takes back is gone, and
\* no text is stranded where the next one will be written.
CursorAtEnd ==
  (pc["tty"] = "idle" /\ Idle("sys")) =>
     \A c \in ConsoleId : Up(c) =>
       /\ cursor[c] \in Region(c)
       /\ \A addr \in ink \intersect Region(c) : addr < cursor[c]

\* Between two calls the screen shows the current console: the CRT controller
\* starts where current_start_addr says and its cursor is at cursor.
CrtInSync ==
  (Idle("tty") /\ Idle("sys") /\ started > NR_CONSOLES) =>
     /\ Shown("start") = current_start_addr[nr_current_console]
     /\ Shown("cursor") = cursor[nr_current_console]

\* An address reaches the CRT controller whole: the four out_byte() of one
\* caller are never mixed with those of the other.
CrtNotTorn ==
  \A a \in Party :
    pc[a] \in {"start", "cursor"} /\ port[a] = 5 => Shown(pc[a]) = reg[a]

\* Every call comes back: the loop that scrolls until the cursor is in the
\* window ends.
EveryCallReturns == \A a \in Party : pc[a] /= "idle" ~> pc[a] = "idle"
=============================================================================
