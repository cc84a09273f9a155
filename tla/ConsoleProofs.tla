----------------------------- MODULE ConsoleProofs -----------------------------
(***************************************************************************)
(* Theorems about Console, for any number of consoles, any layout of the   *)
(* video memory and any length of the system calls that fall into the TTY  *)
(* task's: the CRT controller is a critical section.                       *)
(*                                                                         *)
(* The TTY task enters it with interrupts off, so that no system call can  *)
(* start; a system call enters it while the TTY task does not run.         *)
(***************************************************************************)
EXTENDS Console, TLAPS, SequenceTheorems

Chars    == {"x", "newline", "backspace"}
CallType == [op : DOMAIN Entry, c : ConsoleId, ch : Chars]
Register == {"start", "cursor"} \X {"hi", "lo"}
PcType   == {"idle", "init", "select", "vmem", "switch", "store", "load", "move",
             "erase", "while", "down", "down_load", "down_store", "up", "up_load",
             "up_store", "flush", "start", "cursor_arg", "cursor"}
Ports    == {"start", "cursor"}

\* The types that the properties do not mention.
FlowTypes ==
  /\ pc \in [Party -> PcType]
  /\ call \in [Party -> Seq(CallType)]
  /\ \A a \in Party : pc[a] /= "idle" => call[a] /= <<>>
  /\ p_vmem \in [Party -> Int]
  /\ reg \in [Party -> Int]
  /\ started \in Nat
  /\ crtc \in [Register -> Int]
  /\ index \in Register

\* Who is at the ports: the TTY task with interrupts off and no system call
\* running, or a system call.
OneAtThePorts ==
  /\ \A a \in Party : pc[a] \notin Ports => port[a] = 0
  /\ int_on <=> port["tty"] = 0
  /\ port["tty"] > 0 => Idle("sys")

\* What the out_byte() so far have done.
PortProgress ==
  \A a \in Party :
    /\ port[a] \in {2, 3} => index = <<pc[a], "hi">>
    /\ port[a] = 4 => index = <<pc[a], "lo">>
    /\ port[a] >= 3 => crtc[<<pc[a], "hi">>] = Hi(reg[a])
    /\ port[a] = 5 => crtc[<<pc[a], "lo">>] = Lo(reg[a])

IInv ==
  /\ TypeOK
  /\ FlowTypes
  /\ OneAtThePorts
  /\ PortProgress

-----------------------------------------------------------------------------
USE DEF Party

LEMMA InitInv == Init => IInv
<1> USE ConsoleAssumption DEF ConsoleId
<1> SUFFICES ASSUME Init PROVE IInv
  OBVIOUS
<1>1. TypeOK
  <2>1. \A r \in DOMAIN crtc : crtc[r] \in Int
    BY DEF Init
  <2>2. int_on \in BOOLEAN /\ int_on
    BY DEF Init
  <2> QED
    BY <2>1, <2>2 DEF Init, TypeOK
<1>2. FlowTypes
  <2>1. <<>> \in Seq(CallType)
    OBVIOUS
  <2>2. index \in Register /\ crtc \in [Register -> Int]
    BY DEF Init, Register
  <2> QED
    BY <2>1, <2>2 DEF Init, FlowTypes, PcType
<1>3. OneAtThePorts /\ PortProgress
  BY DEF Init, OneAtThePorts, PortProgress
<1> QED
  BY <1>1, <1>2, <1>3 DEF IInv

\* The call a party is in.
LEMMA CallTypes ==
  ASSUME IInv, NEW a \in Party, call[a] /= <<>>
  PROVE  /\ This(a) \in ConsoleId
         /\ Head(call[a]) \in CallType
         /\ Tail(call[a]) \in Seq(CallType)
<1>1. call[a] \in Seq(CallType)
  BY DEF IInv, FlowTypes
<1>2. Head(call[a]) \in CallType /\ Tail(call[a]) \in Seq(CallType)
  BY <1>1, HeadTailProperties
<1> QED
  BY <1>2 DEF This, CallType

\* A step of a that keeps away from the ports.
Quiet(a) ==
  /\ pc' \in [Party -> PcType]
  /\ call' \in [Party -> Seq(CallType)]
  /\ pc'[a] /= "idle" => call'[a] /= <<>>
  /\ \A b \in Party : b /= a => pc'[b] = pc[b] /\ call'[b] = call[b] /\ reg'[b] = reg[b]
  /\ p_vmem' \in [Party -> Int]
  /\ reg' \in [Party -> Int]
  /\ cursor' \in [ConsoleId -> Int]
  /\ current_start_addr' \in [ConsoleId -> Int]
  /\ nr_current_console' \in ConsoleId
  /\ started' \in Nat
  /\ UNCHANGED <<crt, int_on, port>>

LEMMA QuietInv ==
  ASSUME IInv, NEW a \in Party, Quiet(a), pc[a] \notin Ports,
         a = "sys" => ~Idle("sys") \/ int_on
  PROVE  IInv'
<1> USE DEF IInv, Quiet, crt
<1>1. port[a] = 0 /\ (a = "sys" => port["tty"] = 0)
  BY SMTT(30) DEF OneAtThePorts, TypeOK
<1>2. TypeOK'
  <2>1. int_on' \in BOOLEAN /\ port' \in [Party -> 0 .. 5]
    BY DEF TypeOK
  <2>2. ~int_on' => pc'["tty"] \in {"start", "cursor"}
    BY <1>1 DEF TypeOK, OneAtThePorts
  <2> QED
    BY <2>1, <2>2 DEF TypeOK
<1>3. FlowTypes'
  BY DEF FlowTypes
<1>4. OneAtThePorts'
  BY <1>1 DEF OneAtThePorts, Idle
<1>5. PortProgress'
  <2> SUFFICES ASSUME NEW b \in Party PROVE
        /\ port'[b] \in {2, 3} => index' = <<pc'[b], "hi">>
        /\ port'[b] = 4 => index' = <<pc'[b], "lo">>
        /\ port'[b] >= 3 => crtc'[<<pc'[b], "hi">>] = Hi(reg'[b])
        /\ port'[b] = 5 => crtc'[<<pc'[b], "lo">>] = Lo(reg'[b])
    BY DEF PortProgress, Hi, Lo
  <2>1. port' = port /\ index' = index /\ crtc' = crtc
    OBVIOUS
  <2>2. CASE b = a
    <3>1. port'[b] = 0
      BY <1>1, <2>1, <2>2
    <3> QED
      BY <3>1
  <2>3. CASE b /= a
    <3>1. pc'[b] = pc[b] /\ reg'[b] = reg[b]
      BY <2>3
    <3> QED
      BY <2>1, <3>1 DEF PortProgress
  <2> QED
    BY <2>2, <2>3
<1> QED
  BY <1>2, <1>3, <1>4, <1>5

-----------------------------------------------------------------------------
(* Steps away from the ports.                                              *)

\* A party goes on to another statement, or returns.
LEMMA JumpTypes ==
  ASSUME IInv, NEW a \in Party, call[a] /= <<>>, NEW to \in PcType, Jump(a, to)
  PROVE  /\ pc' \in [Party -> PcType]
         /\ call' \in [Party -> Seq(CallType)]
         /\ pc'[a] /= "idle" => call'[a] /= <<>>
         /\ \A b \in Party : b /= a => pc'[b] = pc[b] /\ call'[b] = call[b]
         /\ started' \in Nat
BY DEF Jump, IInv, FlowTypes

LEMMA GotoTypes ==
  ASSUME IInv, NEW a \in Party, call[a] /= <<>>, NEW to \in PcType, Goto(a, to)
  PROVE  /\ pc' \in [Party -> PcType]
         /\ call' \in [Party -> Seq(CallType)]
         /\ pc'[a] /= "idle" => call'[a] /= <<>>
         /\ \A b \in Party : b /= a => pc'[b] = pc[b] /\ call'[b] = call[b] /\ reg'[b] = reg[b]
         /\ started' \in Nat
         /\ p_vmem' \in [Party -> Int] /\ reg' \in [Party -> Int]
<1>1. Jump(a, to) /\ p_vmem' = p_vmem /\ reg' = reg
  BY DEF Goto
<1> QED
  BY <1>1, JumpTypes DEF IInv, FlowTypes

LEMMA ReturnTypes ==
  ASSUME IInv, NEW a \in Party, call[a] /= <<>>, Return(a)
  PROVE  /\ pc' \in [Party -> PcType]
         /\ call' \in [Party -> Seq(CallType)]
         /\ pc'[a] = "idle"
         /\ \A b \in Party : b /= a => pc'[b] = pc[b] /\ call'[b] = call[b] /\ reg'[b] = reg[b]
         /\ started' \in Nat
         /\ p_vmem' \in [Party -> Int] /\ reg' \in [Party -> Int]
<1>1. Tail(call[a]) \in Seq(CallType)
  BY CallTypes
<1>2. call' = [call EXCEPT ![a] = Tail(@)]
  BY DEF Return
<1>3. call' \in [Party -> Seq(CallType)]
  BY <1>1, <1>2 DEF IInv, FlowTypes
<1>4. pc' = [pc EXCEPT ![a] = "idle"] /\ pc \in [Party -> PcType] /\ "idle" \in PcType
  BY DEF Return, IInv, FlowTypes, PcType
<1>5. pc' \in [Party -> PcType] /\ pc'[a] = "idle" /\ \A b \in Party : b /= a => pc'[b] = pc[b]
  BY <1>4
<1>6. /\ p_vmem' \in [Party -> Int] /\ reg' \in [Party -> Int] /\ started' \in Nat
      /\ \A b \in Party : b /= a => reg'[b] = reg[b]
  BY DEF Return, IInv, FlowTypes
<1>7. \A b \in Party : b /= a => call'[b] = call[b]
  BY <1>2 DEF IInv, FlowTypes
<1> QED
  BY <1>3, <1>5, <1>6, <1>7

\* A party at a statement is in a call.
LEMMA InACall ==
  ASSUME IInv, NEW a \in Party, pc[a] /= "idle"
  PROVE  call[a] /= <<>> /\ This(a) \in ConsoleId
BY CallTypes DEF IInv, FlowTypes

\* Statements that only move on.
LEMMA TestQuiet ==
  ASSUME IInv, NEW a \in Party, Call(a) \/ Test(a) \/ StoreChar(a) \/ Erase(a) \/ While(a)
  PROVE  Quiet(a)
<1>1. PICK to \in PcType : Goto(a, to) /\ call[a] /= <<>>
  <2>1. CASE Call(a)
    <3>1. Head(call[a]).op \in DOMAIN Entry
      BY <2>1, CallTypes DEF Call, CallType
    <3>2. Entry[Head(call[a]).op] \in PcType
      BY <3>1 DEF Entry, PcType
    <3> QED
      BY <2>1, <3>2 DEF Call
  <2>2. CASE Test(a)
    BY <2>2, InACall DEF Test, At, PcType
  <2>3. CASE StoreChar(a)
    BY <2>3, InACall DEF StoreChar, At, PcType
  <2>4. CASE Erase(a)
    BY <2>4, InACall DEF Erase, At, PcType
  <2>5. CASE While(a)
    BY <2>5, InACall DEF While, At, PcType
  <2> QED
    BY <2>1, <2>2, <2>3, <2>4, <2>5
<1>2. /\ UNCHANGED <<cursor, current_start_addr, nr_current_console>>
      /\ UNCHANGED <<crt, int_on, port>>
  BY DEF Call, Test, StoreChar, Erase, While, screen
<1>3. /\ cursor' \in [ConsoleId -> Int] /\ current_start_addr' \in [ConsoleId -> Int]
      /\ nr_current_console' \in ConsoleId
  BY <1>2 DEF IInv, TypeOK
<1> QED
  BY <1>1, <1>2, <1>3, GotoTypes DEF Quiet

\* Statements that load a register.
LEMMA LoadQuiet ==
  ASSUME IInv, NEW a \in Party,
         VideoAddress(a) \/ LoadCursor(a) \/ ScrollLoad(a) \/ CursorArgument(a)
  PROVE  Quiet(a)
<1>1. PICK to \in PcType : Jump(a, to) /\ call[a] /= <<>>
  BY InACall DEF VideoAddress, LoadCursor, ScrollLoad, CursorArgument, At, PcType
<1>2. This(a) \in ConsoleId
  BY <1>1, CallTypes
<1>3. cursor[This(a)] \in Int /\ current_start_addr[This(a)] \in Int
  BY <1>2 DEF IInv, TypeOK
<1>4. p_vmem' \in [Party -> Int] /\ reg' \in [Party -> Int]
  BY <1>3 DEF VideoAddress, LoadCursor, ScrollLoad, CursorArgument, Set, IInv, FlowTypes
<1>5. \A b \in Party : b /= a => reg'[b] = reg[b]
  BY DEF VideoAddress, LoadCursor, ScrollLoad, CursorArgument, Set, IInv, FlowTypes
<1>6. UNCHANGED <<screen, crt, int_on, port>>
  BY DEF VideoAddress, LoadCursor, ScrollLoad, CursorArgument
<1>7. /\ cursor' \in [ConsoleId -> Int] /\ current_start_addr' \in [ConsoleId -> Int]
      /\ nr_current_console' \in ConsoleId
  BY <1>6 DEF IInv, TypeOK, screen
<1> QED
  BY <1>1, <1>4, <1>5, <1>6, <1>7, JumpTypes DEF Quiet

\* init_screen(), select_console() and the cursor.
LEMMA InitFieldsQuiet ==
  ASSUME IInv, NEW a \in Party, InitFields(a)
  PROVE  Quiet(a)
<1>1. call[a] /= <<>> /\ This(a) \in ConsoleId
  BY InACall DEF InitFields, At
<1>2. origal_addr(This(a)) \in Int
  BY <1>1, ConsoleAssumption DEF origal_addr, ConsoleId
<1>3. current_start_addr' \in [ConsoleId -> Int]
  BY <1>1, <1>2 DEF InitFields, Set, IInv, TypeOK
<1>4. cursor' \in [ConsoleId -> Int]
  <2>1. PICK pos \in IF This(a) = 0 THEN DispPos ELSE {origal_addr(This(a))} :
          cursor' = [cursor EXCEPT ![This(a)] = pos]
    BY DEF InitFields, Set
  <2>2. pos \in Int
    BY <1>2, <2>1, ConsoleAssumption
  <2> QED
    BY <1>1, <2>1, <2>2 DEF IInv, TypeOK
<1>5. Return(a) /\ nr_current_console' = nr_current_console /\ UNCHANGED <<crt, int_on, port>>
  BY DEF InitFields
<1>6. nr_current_console' \in ConsoleId
  BY <1>5 DEF IInv, TypeOK
<1> QED
  BY <1>1, <1>3, <1>4, <1>5, <1>6, ReturnTypes DEF Quiet

LEMMA SelectQuiet ==
  ASSUME IInv, NEW a \in Party, SelectConsole(a)
  PROVE  Quiet(a)
<1>1. call[a] /= <<>> /\ This(a) \in ConsoleId
  BY InACall DEF SelectConsole, At
<1>2. /\ Goto(a, "flush") /\ nr_current_console' = This(a)
      /\ UNCHANGED <<cursor, current_start_addr>> /\ UNCHANGED <<crt, int_on, port>>
  BY DEF SelectConsole
<1>3. cursor' \in [ConsoleId -> Int] /\ current_start_addr' \in [ConsoleId -> Int]
  BY <1>2 DEF IInv, TypeOK
<1>4. "flush" \in PcType
  BY DEF PcType
<1> QED
  BY <1>1, <1>2, <1>3, <1>4, GotoTypes DEF Quiet

LEMMA MoveQuiet ==
  ASSUME IInv, NEW a \in Party, MoveCursor(a)
  PROVE  Quiet(a)
<1>1. call[a] /= <<>> /\ This(a) \in ConsoleId
  BY InACall DEF MoveCursor, At
<1>2. reg[a] \in Int
  BY DEF IInv, FlowTypes
<1>3. NextRow(This(a), reg[a]) \in Int
  <2>1. origal_addr(This(a)) \in Int
    BY <1>1, ConsoleAssumption DEF origal_addr, ConsoleId
  <2> DEFINE row == (reg[a] - origal_addr(This(a))) \div SCREEN_WIDTH
  <2>2. row \in Int
    BY <1>2, <2>1, ConsoleAssumption
  <2> HIDE DEF row
  <2>3. SCREEN_WIDTH * (row + 1) \in Int
    BY <2>2, ConsoleAssumption
  <2> QED
    BY <2>1, <2>3 DEF NextRow, row
<1>4. \E pos \in Int : cursor' = [cursor EXCEPT ![This(a)] = pos]
  <2> DEFINE pos == CASE Char(a) = "newline"   -> NextRow(This(a), reg[a])
                      [] Char(a) = "backspace" -> reg[a] - 1
                      [] OTHER                 -> reg[a] + 1
  <2>1. cursor' = [cursor EXCEPT ![This(a)] = pos]
    BY DEF MoveCursor, Set
  <2>2. pos \in Int
    BY <1>2, <1>3
  <2> HIDE DEF pos
  <2> QED
    BY <2>1, <2>2
<1>5. cursor' \in [ConsoleId -> Int]
  BY <1>1, <1>4 DEF IInv, TypeOK
<1>6. PICK to \in PcType : Goto(a, to)
  BY DEF MoveCursor, PcType
<1>7. UNCHANGED <<current_start_addr, nr_current_console>> /\ UNCHANGED <<crt, int_on, port>>
  BY DEF MoveCursor
<1>8. current_start_addr' \in [ConsoleId -> Int] /\ nr_current_console' \in ConsoleId
  BY <1>7 DEF IInv, TypeOK
<1> QED
  BY <1>1, <1>5, <1>6, <1>7, <1>8, GotoTypes DEF Quiet

\* scroll_screen() and flush().
LEMMA ScrollQuiet ==
  ASSUME IInv, NEW a \in Party, ScrollTest(a) \/ ScrollStore(a)
  PROVE  Quiet(a)
<1>1. call[a] /= <<>> /\ This(a) \in ConsoleId
  BY InACall DEF ScrollTest, ScrollStore, At
<1>2. (\E to \in PcType : Goto(a, to)) \/ Return(a)
  BY DEF ScrollTest, ScrollStore, PcType
<1>3. reg[a] + SCREEN_WIDTH \in Int /\ reg[a] - SCREEN_WIDTH \in Int
  BY ConsoleAssumption DEF IInv, FlowTypes
<1>4. current_start_addr' \in [ConsoleId -> Int]
  <2>1. CASE ScrollTest(a)
    BY <2>1 DEF ScrollTest, screen, IInv, TypeOK
  <2>2. CASE ScrollStore(a)
    <3>1. \E to \in Int : current_start_addr' = [current_start_addr EXCEPT ![This(a)] = to]
      BY <1>3, <2>2 DEF ScrollStore, Set
    <3> QED
      BY <1>1, <3>1 DEF IInv, TypeOK
  <2> QED
    BY <2>1, <2>2
<1>5. UNCHANGED <<cursor, nr_current_console>> /\ UNCHANGED <<crt, int_on, port>>
  BY DEF ScrollTest, ScrollStore, screen
<1>6. cursor' \in [ConsoleId -> Int] /\ nr_current_console' \in ConsoleId
  BY <1>5 DEF IInv, TypeOK
<1> QED
  BY <1>1, <1>2, <1>4, <1>5, <1>6, GotoTypes, ReturnTypes DEF Quiet

LEMMA FlushQuiet ==
  ASSUME IInv, NEW a \in Party, Flush(a)
  PROVE  Quiet(a)
<1>1. call[a] /= <<>> /\ This(a) \in ConsoleId
  BY InACall DEF Flush, At
<1>2. UNCHANGED <<screen, crt, int_on, port>>
  BY DEF Flush
<1>3. /\ cursor' \in [ConsoleId -> Int] /\ current_start_addr' \in [ConsoleId -> Int]
      /\ nr_current_console' \in ConsoleId
  BY <1>2 DEF IInv, TypeOK, screen
<1>4. CASE Return(a)
  BY <1>1, <1>2, <1>3, <1>4, ReturnTypes DEF Quiet
<1>5. CASE ~Return(a)
  <2>1. /\ Set(reg, a, current_start_addr[This(a)])
        /\ Jump(a, "start") /\ p_vmem' = p_vmem
    BY <1>5 DEF Flush
  <2>2. current_start_addr[This(a)] \in Int
    BY <1>1 DEF IInv, TypeOK
  <2>3. /\ reg' \in [Party -> Int] /\ p_vmem' \in [Party -> Int]
        /\ \A b \in Party : b /= a => reg'[b] = reg[b]
    BY <2>1, <2>2 DEF Set, IInv, FlowTypes
  <2>4. "start" \in PcType
    BY DEF PcType
  <2> QED
    BY <1>1, <1>2, <1>3, <2>1, <2>3, <2>4, JumpTypes DEF Quiet
<1> QED
  BY <1>4, <1>5

-----------------------------------------------------------------------------
(* The ports.                                                              *)

\* The others are away from the ports when a is there and a step of a is allowed.
LEMMA Alone ==
  ASSUME IInv, NEW a \in Party, pc[a] \in Ports, Runs(a)
  PROVE  /\ call[a] /= <<>>
         /\ \A b \in Party : b /= a => port[b] = 0
         /\ a = "sys" => int_on
<1>1. call[a] /= <<>>
  BY DEF IInv, FlowTypes, Ports
<1>2. CASE a = "tty"
  <2>1. pc["sys"] \notin Ports
    BY <1>2 DEF Runs, Idle, Ports
  <2> QED
    BY <1>1, <1>2, <2>1 DEF IInv, OneAtThePorts
<1>3. CASE a = "sys"
  <2>1. ~Idle("sys")
    BY <1>1, <1>3 DEF Idle
  <2>2. port["tty"] = 0
    BY <2>1 DEF IInv, OneAtThePorts, TypeOK
  <2> QED
    BY <1>1, <1>3, <2>2 DEF IInv, OneAtThePorts
<1> QED
  BY <1>2, <1>3

LEMMA DisableIntInv ==
  ASSUME IInv, NEW a \in Party, DisableInt(a)
  PROVE  IInv'
<1> USE DEF IInv
<1>1. /\ pc[a] \in Ports /\ Runs(a) /\ port[a] = 0
      /\ port' = [port EXCEPT ![a] = 1]
      /\ int_on' = IF a = "tty" THEN FALSE ELSE int_on
      /\ UNCHANGED <<cursor, current_start_addr, nr_current_console, index, crtc>>
      /\ UNCHANGED <<pc, call, started, p_vmem, reg>>
  BY DEF DisableInt, Set, Ports, screen, crt, flow
<1>2. /\ call[a] /= <<>> /\ \A b \in Party : b /= a => port[b] = 0
      /\ a = "sys" => int_on
  BY <1>1, Alone
<1>3. /\ port' \in [Party -> 0 .. 5] /\ port'[a] = 1
      /\ \A b \in Party : b /= a => port'[b] = 0
  BY <1>1, <1>2 DEF TypeOK
<1>4. TypeOK'
  BY <1>1, <1>3 DEF TypeOK, Ports
<1>5. FlowTypes'
  BY <1>1 DEF FlowTypes
<1>6. OneAtThePorts'
  <2>1. \A b \in Party : pc'[b] \notin Ports => port'[b] = 0
    BY <1>1, <1>3
  <2>2. int_on' <=> port'["tty"] = 0
    BY <1>1, <1>2, <1>3
  <2>3. port'["tty"] > 0 => Idle("sys")'
    BY <1>1, <1>3 DEF Runs, Idle
  <2> QED
    BY <2>1, <2>2, <2>3 DEF OneAtThePorts
<1>7. PortProgress'
  <2>1. \A b \in Party : port'[b] \in {0, 1}
    BY <1>3
  <2> QED
    BY <2>1 DEF PortProgress
<1> QED
  BY <1>4, <1>5, <1>6, <1>7

LEMMA EnableIntInv ==
  ASSUME IInv, NEW a \in Party, EnableInt(a)
  PROVE  IInv'
<1> USE DEF IInv
<1>1. /\ pc[a] \in Ports /\ Runs(a)
      /\ port' = [port EXCEPT ![a] = 0]
      /\ int_on' = IF a = "tty" THEN TRUE ELSE int_on
      /\ Goto(a, "cursor_arg") \/ Return(a)
      /\ UNCHANGED <<cursor, current_start_addr, nr_current_console, index, crtc>>
  BY DEF EnableInt, Set, Ports, screen, crt
<1>2. /\ call[a] /= <<>> /\ \A b \in Party : b /= a => port[b] = 0
      /\ a = "sys" => int_on
  BY <1>1, Alone
<1>3. port' \in [Party -> 0 .. 5] /\ \A b \in Party : port'[b] = 0
  BY <1>1, <1>2 DEF TypeOK
<1>4. int_on'
  BY <1>1, <1>2
<1>5. "cursor_arg" \in PcType
  BY DEF PcType
<1>6. /\ pc' \in [Party -> PcType] /\ call' \in [Party -> Seq(CallType)]
      /\ pc'[a] /= "idle" => call'[a] /= <<>>
      /\ \A b \in Party : b /= a => pc'[b] = pc[b] /\ call'[b] = call[b]
      /\ started' \in Nat /\ p_vmem' \in [Party -> Int] /\ reg' \in [Party -> Int]
  BY <1>1, <1>2, <1>5, GotoTypes, ReturnTypes
<1>7. TypeOK'
  BY <1>1, <1>3, <1>4 DEF TypeOK
<1>8. FlowTypes'
  BY <1>1, <1>6 DEF FlowTypes
<1>9. OneAtThePorts'
  BY <1>3, <1>4 DEF OneAtThePorts
<1>10. PortProgress'
  BY <1>3 DEF PortProgress
<1> QED
  BY <1>7, <1>8, <1>9, <1>10

LEMMA OutByteInv ==
  ASSUME IInv, NEW a \in Party, OutByte(a)
  PROVE  IInv'
<1> USE DEF IInv
<1>1. /\ pc[a] \in Ports /\ Runs(a) /\ port[a] \in 1 .. 4
      /\ port' = [port EXCEPT ![a] = port[a] + 1]
      /\ int_on' = int_on
      /\ UNCHANGED <<cursor, current_start_addr, nr_current_console>>
      /\ UNCHANGED <<pc, call, started, p_vmem, reg>>
  BY DEF OutByte, Set, Ports, screen, flow
<1>2. /\ call[a] /= <<>> /\ \A b \in Party : b /= a => port[b] = 0
      /\ a = "sys" => int_on
  BY <1>1, Alone
<1>3. /\ port' \in [Party -> 0 .. 5] /\ port'[a] = port[a] + 1
      /\ \A b \in Party : b /= a => port'[b] = 0
  BY <1>1, <1>2 DEF TypeOK
<1>4. <<pc[a], "hi">> \in Register /\ <<pc[a], "lo">> \in Register
  BY <1>1 DEF Register, Ports
<1>5. Hi(reg[a]) \in Int /\ Lo(reg[a]) \in Int
  BY DEF Hi, Lo, ByteBase, FlowTypes
<1>6. \/ /\ port[a] = 1 /\ index' = <<pc[a], "hi">> /\ crtc' = crtc
      \/ /\ port[a] = 3 /\ index' = <<pc[a], "lo">> /\ crtc' = crtc
      \/ /\ port[a] = 2 /\ index' = index
         /\ crtc' = [crtc EXCEPT ![<<pc[a], "hi">>] = Hi(reg[a])]
      \/ /\ port[a] = 4 /\ index' = index
         /\ crtc' = [crtc EXCEPT ![<<pc[a], "lo">>] = Lo(reg[a])]
  <2>1. port[a] = 2 => index = <<pc[a], "hi">>
    BY DEF PortProgress
  <2>2. port[a] = 4 => index = <<pc[a], "lo">>
    BY DEF PortProgress
  <2> QED
    BY <2>1, <2>2 DEF OutByte
<1>7. crtc' \in [Register -> Int] /\ index' \in Register
  BY <1>4, <1>5, <1>6 DEF FlowTypes
<1>8. TypeOK'
  BY <1>1, <1>3, <1>7 DEF TypeOK
<1>9. FlowTypes'
  BY <1>1, <1>7 DEF FlowTypes
<1>10. OneAtThePorts'
  <2>1. \A b \in Party : pc'[b] \notin Ports => port'[b] = 0
    BY <1>1, <1>3
  <2>2. int_on' <=> port'["tty"] = 0
    BY <1>1, <1>2, <1>3 DEF OneAtThePorts
  <2>3. port'["tty"] > 0 => Idle("sys")'
    BY <1>1, <1>3 DEF Runs, Idle
  <2> QED
    BY <2>1, <2>2, <2>3 DEF OneAtThePorts
<1>11. /\ port'[a] \in {2, 3} => index' = <<pc[a], "hi">>
       /\ port'[a] = 4 => index' = <<pc[a], "lo">>
       /\ port'[a] >= 3 => crtc'[<<pc[a], "hi">>] = Hi(reg[a])
       /\ port'[a] = 5 => crtc'[<<pc[a], "lo">>] = Lo(reg[a])
  <2>0. crtc \in [Register -> Int]
    BY DEF FlowTypes
  <2>1. CASE port[a] = 1
    BY <1>3, <1>6, <2>1
  <2>2. CASE port[a] = 2
    BY <1>3, <1>4, <1>6, <2>0, <2>2 DEF PortProgress
  <2>3. CASE port[a] = 3
    BY <1>3, <1>6, <2>3 DEF PortProgress
  <2>4. CASE port[a] = 4
    <3>1. crtc[<<pc[a], "hi">>] = Hi(reg[a])
      BY <2>4 DEF PortProgress
    <3>2. <<pc[a], "hi">> /= <<pc[a], "lo">>
      OBVIOUS
    <3> QED
      BY <1>3, <1>4, <1>6, <2>0, <2>4, <3>1, <3>2
  <2> QED
    BY <1>1, <2>1, <2>2, <2>3, <2>4
<1>12. PortProgress'
  <2>1. \A b \in Party : b /= a => port'[b] = 0
    BY <1>3
  <2>2. pc' = pc /\ reg' = reg
    BY <1>1
  <2> QED
    BY <1>11, <2>1, <2>2 DEF PortProgress, Hi, Lo
<1> QED
  BY <1>8, <1>9, <1>10, <1>12

-----------------------------------------------------------------------------
(* The callers.                                                            *)

LEMMA StepTypes ==
  /\ \A c \in ConsoleId, ch \in Chars : OutChar(c, ch) \in CallType
  /\ \A c \in ConsoleId :
       /\ SetCursor(c) \in CallType /\ InitScreen(c) \in CallType /\ Select(c) \in CallType
       /\ ScrollUp(c) \in CallType /\ ScrollDown(c) \in CallType
BY DEF OutChar, SetCursor, InitScreen, Select, ScrollUp, ScrollDown, CallType, Entry, Chars

LEMMA StartTypes ==
  ASSUME NEW n \in Nat, n <= NR_CONSOLES
  PROVE  StartCalls(n) \in Seq(CallType)
<1> USE ConsoleAssumption
<1>1. CASE n = NR_CONSOLES
  <2>1. Select(0) \in CallType
    BY StepTypes DEF ConsoleId
  <2>2. StartCalls(n) = <<Select(0)>>
    BY <1>1 DEF StartCalls
  <2> QED
    BY <2>1, <2>2
<1>2. CASE n = 0
  <2>1. InitScreen(0) \in CallType /\ SetCursor(0) \in CallType
    BY StepTypes DEF ConsoleId
  <2>2. StartCalls(n) = <<InitScreen(0), SetCursor(0)>>
    BY <1>2 DEF StartCalls
  <2> QED
    BY <2>1, <2>2
<1>3. CASE n /= 0 /\ n /= NR_CONSOLES
  <2>1. n \in ConsoleId /\ "x" \in Chars
    BY <1>3 DEF ConsoleId, Chars
  <2>2. InitScreen(n) \in CallType /\ OutChar(n, "x") \in CallType /\ SetCursor(n) \in CallType
    BY <2>1, StepTypes
  <2>3. StartCalls(n) = <<InitScreen(n), OutChar(n, "x"), OutChar(n, "x"), SetCursor(n)>>
    BY <1>3 DEF StartCalls
  <2> QED
    BY <2>2, <2>3
<1> QED
  BY <1>1, <1>2, <1>3

\* A call that begins.
LEMMA CallerInv ==
  ASSUME IInv, NEW a \in Party, Idle(a), NEW calls \in Seq(CallType),
         call' = [call EXCEPT ![a] = calls], started' \in Nat,
         UNCHANGED <<screen, crt, int_on, pc, locals>>,
         a = "sys" => int_on
  PROVE  IInv'
<1>1. Quiet(a)
  <2>1. UNCHANGED <<cursor, current_start_addr, nr_current_console, p_vmem, reg, port, pc>>
    BY DEF screen, locals
  <2>2. pc'[a] = "idle"
    BY <2>1 DEF Idle
  <2>3. call' \in [Party -> Seq(CallType)] /\ \A b \in Party : b /= a => call'[b] = call[b]
    BY DEF IInv, FlowTypes
  <2> QED
    BY <2>1, <2>2, <2>3 DEF Quiet, IInv, TypeOK, FlowTypes
<1>2. pc[a] \notin Ports
  BY DEF Idle, Ports
<1> QED
  BY <1>1, <1>2, QuietInv

LEMMA CallersInv ==
  ASSUME IInv, TtyStart \/ TtyCall \/ SysWrite
  PROVE  IInv'
<1> USE ConsoleAssumption
<1>0. started \in Nat
  BY DEF IInv, FlowTypes
<1>1. CASE TtyStart
  <2>1. /\ Idle("tty") /\ started <= NR_CONSOLES /\ started' = started + 1
        /\ call' = [call EXCEPT !["tty"] = StartCalls(started)]
        /\ UNCHANGED <<screen, crt, int_on, pc, locals>>
    BY <1>1 DEF TtyStart, Set
  <2>2. StartCalls(started) \in Seq(CallType) /\ started' \in Nat
    BY <1>0, <2>1, StartTypes
  <2> QED
    BY <2>1, <2>2, CallerInv
<1>2. CASE TtyCall
  <2>1. PICK c \in ConsoleId :
          \/ \E ch \in TtyChars : Set(call, "tty", <<OutChar(c, ch)>>)
          \/ Set(call, "tty", <<Select(c)>>)
          \/ Set(call, "tty", <<ScrollUp(c)>>)
          \/ Set(call, "tty", <<ScrollDown(c)>>)
    BY <1>2 DEF TtyCall
  <2>2. \E one \in CallType : Set(call, "tty", <<one>>)
    <3>1. TtyChars \subseteq Chars
      BY DEF Chars
    <3>2. \A ch \in TtyChars : OutChar(c, ch) \in CallType
      BY <3>1, StepTypes
    <3>3. Select(c) \in CallType /\ ScrollUp(c) \in CallType /\ ScrollDown(c) \in CallType
      BY StepTypes
    <3> QED
      BY <2>1, <3>2, <3>3, Zenon
  <2>3. PICK calls \in Seq(CallType) : call' = [call EXCEPT !["tty"] = calls]
    <3>1. PICK one \in CallType : call' = [call EXCEPT !["tty"] = <<one>>]
      BY <2>2 DEF Set
    <3>2. <<one>> \in Seq(CallType)
      OBVIOUS
    <3> QED
      BY <3>1, <3>2
  <2>4. Idle("tty") /\ started' = started /\ UNCHANGED <<screen, crt, int_on, pc, locals>>
    BY <1>2 DEF TtyCall
  <2> QED
    BY <1>0, <2>3, <2>4, CallerInv
<1>3. CASE SysWrite
  <2>1. PICK len \in 1 .. SysBurst :
          call' = [call EXCEPT !["sys"] = [i \in 1 .. len |-> OutChar(TestBTty, "x")]]
    BY <1>3 DEF SysWrite, Set
  <2>2. TestBTty \in ConsoleId /\ "x" \in Chars
    BY DEF TestBTty, ConsoleId, Chars
  <2>3. OutChar(TestBTty, "x") \in CallType
    BY <2>2, StepTypes
  <2>4. [i \in 1 .. len |-> OutChar(TestBTty, "x")] \in Seq(CallType)
    BY <2>3
  <2>5. /\ Idle("sys") /\ int_on /\ started' = started
        /\ UNCHANGED <<screen, crt, int_on, pc, locals>>
    BY <1>3 DEF SysWrite
  <2> QED
    BY <1>0, <2>1, <2>4, <2>5, CallerInv
<1> QED
  BY <1>1, <1>2, <1>3

-----------------------------------------------------------------------------
LEMMA StepInv ==
  ASSUME IInv, NEW a \in Party, Step(a)
  PROVE  IInv'
<1>1. CASE DisableInt(a)
  BY <1>1, DisableIntInv
<1>2. CASE OutByte(a)
  BY <1>2, OutByteInv
<1>3. CASE EnableInt(a)
  BY <1>3, EnableIntInv
<1>4. CASE ~(DisableInt(a) \/ OutByte(a) \/ EnableInt(a))
  <2>1. Quiet(a)
    BY <1>4, TestQuiet, LoadQuiet, InitFieldsQuiet, SelectQuiet, MoveQuiet, ScrollQuiet,
       FlushQuiet DEF Step
  <2>2. pc[a] \notin Ports
    BY <1>4 DEF Step, Call, InitFields, SelectConsole, VideoAddress, Test, StoreChar,
       LoadCursor, MoveCursor, Erase, While, ScrollTest, ScrollLoad, ScrollStore, Flush,
       CursorArgument, At, Ports
  <2>3. ~Idle(a)
    BY <1>4 DEF Step, Call, InitFields, SelectConsole, VideoAddress, Test, StoreChar,
       LoadCursor, MoveCursor, Erase, While, ScrollTest, ScrollLoad, ScrollStore, Flush,
       CursorArgument, At, Idle
  <2> QED
    BY <2>1, <2>2, <2>3, QuietInv
<1> QED
  BY <1>1, <1>2, <1>3, <1>4

LEMMA StutterInv ==
  ASSUME IInv, UNCHANGED vars
  PROVE  IInv'
BY DEF vars, screen, crt, flow, locals, IInv, TypeOK, FlowTypes, OneAtThePorts, PortProgress,
   Idle, Hi, Lo

LEMMA InvariantHolds == Spec => []IInv
<1>1. IInv /\ [Next]_vars => IInv'
  BY CallersInv, StepInv, StutterInv DEF Next
<1> QED
  BY InitInv, <1>1, PTL DEF Spec

\* The cursor and the window of every console, the CRT controller's registers
\* and the program counters keep their types, and the TTY task has interrupts
\* off at the ports only.
THEOREM TypeCorrect == Spec => []TypeOK
<1>1. IInv => TypeOK
  BY DEF IInv
<1> QED
  BY InvariantHolds, <1>1, PTL

LEMMA WholeNow == IInv => CrtNotTorn
<1>1. \A x \in Int : x = (x \div 5) * 5 + (x % 5)
  OBVIOUS
<1> SUFFICES ASSUME IInv, NEW a \in Party, pc[a] \in {"start", "cursor"}, port[a] = 5
             PROVE  Shown(pc[a]) = reg[a]
  BY DEF CrtNotTorn
<1>2. reg[a] \in Int
  BY DEF IInv, FlowTypes
<1>3. crtc[<<pc[a], "hi">>] = Hi(reg[a]) /\ crtc[<<pc[a], "lo">>] = Lo(reg[a])
  BY DEF IInv, PortProgress
<1> QED
  BY <1>1, <1>2, <1>3 DEF Shown, Hi, Lo, ByteBase

\* set_video_start_addr() and set_cursor(): when the fourth out_byte() is done,
\* the controller has the address that the caller wrote, and no half of the
\* address of the other caller.
THEOREM WholeAddresses == Spec => []CrtNotTorn
BY InvariantHolds, WholeNow, PTL

-----------------------------------------------------------------------------
(***************************************************************************)
(* Where cursors, windows and stores can be, although a system call may    *)
(* fall between any two statements of the TTY task.                        *)
(*                                                                         *)
(* What keeps them at home is that a system call only adds to a cursor and *)
(* to a window, and only within the region, and that it is short: each     *)
(* statement of the TTY task that relies on an earlier test still finds    *)
(* the test true up to what one system call can add.                       *)
(***************************************************************************)

\* The first cell of a row of c.
Aligned(addr, c) == \E k \in Nat : addr = origal_addr(c) + SCREEN_WIDTH * k

Home(c) ==
  /\ origal_addr(c) <= cursor[c] /\ cursor[c] <= Limit(c)
  /\ Aligned(current_start_addr[c], c)
  /\ current_start_addr[c] + SCREEN_SIZE < Limit(c) + 2 * SCREEN_WIDTH

Homes == \A c \in ConsoleId : Up(c) => Home(c)

\* sys_write() prints characters on the console of TestB, once the TTY task has
\* set up all of them.
SysPc == {"idle", "vmem", "switch", "store", "load", "move", "while", "down",
          "down_load", "down_store", "flush", "start", "cursor_arg", "cursor"}

SysCalls ==
  /\ call["sys"] \in Seq({OutChar(TestBTty, "x")})
  /\ pc["sys"] \in SysPc
  /\ ~Idle("sys") => written /\ Booted
  /\ written \in BOOLEAN

\* The TTY task initialises a console in the first of the calls that belong to
\* it, and only works on consoles whose turn has come.
Later == {k \in CallType : k.op /= "init_screen" /\ k.c < started}

TtyCalls ==
  call["tty"] /= <<>> =>
    /\ This("tty") < started
    /\ Head(call["tty"]).op = "init_screen" => Head(call["tty"]) = InitScreen(This("tty"))
    /\ pc["tty"] = "init" => Head(call["tty"]).op = "init_screen"
    /\ pc["tty"] \notin {"idle", "init"} => Head(call["tty"]).op /= "init_screen"
    /\ Tail(call["tty"]) \in Seq(Later)

\* The characters the system call has still to add, and how far the cursor may be
\* past what the TTY task has tested.
Moved     == {"while", "down", "down_load", "down_store", "flush", "start",
              "cursor_arg", "cursor"}
Remaining == Len(call["sys"]) - (IF pc["sys"] \in Moved THEN 1 ELSE 0)
Bonus     == IF written THEN SysBurst ELSE 0

\* What the TTY task's tests are worth at the statements that rely on them.
CursorProgress(c) ==
  /\ pc["tty"] = "store" => Char("tty") = "x"
  /\ Char("tty") = "newline" =>
       /\ pc["tty"] = "load" =>
            cursor[c] + Remaining < Limit(c) - SCREEN_WIDTH + Bonus
       /\ pc["tty"] = "move" =>
            /\ origal_addr(c) <= reg["tty"]
            /\ reg["tty"] < Limit(c) - SCREEN_WIDTH + SysBurst
  /\ Char("tty") = "backspace" =>
       /\ pc["tty"] = "load" => origal_addr(c) < cursor[c]
       /\ pc["tty"] = "move" => origal_addr(c) < reg["tty"] /\ reg["tty"] <= Limit(c)
  /\ Char("tty") \notin {"newline", "backspace"} =>
       /\ pc["tty"] \in {"store", "load"} => cursor[c] < Limit(c)
       /\ pc["tty"] = "move" => origal_addr(c) <= reg["tty"] /\ reg["tty"] < Limit(c)

WindowProgress(c) ==
  /\ pc["tty"] = "down_load" => current_start_addr[c] + SCREEN_SIZE < Limit(c) + SCREEN_WIDTH
  /\ pc["tty"] = "down_store" =>
       Aligned(reg["tty"], c) /\ reg["tty"] + SCREEN_SIZE < Limit(c) + SCREEN_WIDTH
  /\ pc["tty"] = "up_load" => origal_addr(c) < current_start_addr[c]
  /\ pc["tty"] = "up_store" =>
       /\ Aligned(reg["tty"], c) /\ origal_addr(c) < reg["tty"]
       /\ reg["tty"] + SCREEN_SIZE < Limit(c) + 2 * SCREEN_WIDTH

TtyProgress ==
  \A c \in ConsoleId :
    pc["tty"] /= "idle" /\ c = This("tty") => CursorProgress(c) /\ WindowProgress(c)

\* Those of the system call are worth what they were: nobody else runs.
SysProgress ==
  /\ pc["sys"] \in {"store", "load", "move"} => cursor[TestBTty] < Limit(TestBTty) - 1
  /\ pc["sys"] = "move" => reg["sys"] = cursor[TestBTty]
  /\ pc["sys"] \in {"down_load", "down_store"} =>
       current_start_addr[TestBTty] + SCREEN_SIZE < Limit(TestBTty)
  /\ pc["sys"] = "down_store" => reg["sys"] = current_start_addr[TestBTty]

HInv ==
  /\ SysCalls
  /\ TtyCalls
  /\ Homes
  /\ TtyProgress
  /\ SysProgress

-----------------------------------------------------------------------------
(* Addresses.                                                              *)

LEMMA Places ==
  ASSUME NEW c \in ConsoleId
  PROVE  /\ origal_addr(c) \in Int
         /\ Limit(c) \in Int
         /\ Limit(c) = origal_addr(c) + V_MEM_LIMIT
BY ConsoleAssumption DEF origal_addr, Limit, ConsoleId

\* Products, as far as they are needed.
LEMMA Products ==
  ASSUME NEW w \in Nat \ {0}, NEW m \in Int, NEW n \in Int
  PROVE  /\ w * m \in Int /\ w * (m + 1) = w * m + w /\ w * (m - 1) = w * m - w
         /\ m < n <=> w * m < w * n
         /\ m <= n <=> w * m <= w * n
         /\ w * 0 = 0
         /\ n = w * (n \div w) + (n % w) /\ n \div w \in Int
         /\ 0 <= n % w /\ n % w < w
BY SMTT(30)

\* '\n' within the last full row but one, and what a system call adds.
LEMMA NextRowFits ==
  ASSUME NEW c \in ConsoleId, NEW pos \in Int,
         origal_addr(c) <= pos, pos < Limit(c) - SCREEN_WIDTH + SysBurst
  PROVE  /\ NextRow(c, pos) \in Int
         /\ origal_addr(c) <= NextRow(c, pos) /\ NextRow(c, pos) <= Limit(c)
<1> DEFINE w == SCREEN_WIDTH
           q == V_MEM_LIMIT \div w
           d == pos - origal_addr(c)
           x == d \div w
<1>1. w \in Nat \ {0} /\ V_MEM_LIMIT \in Int /\ SysBurst \in Nat
  BY ConsoleAssumption
<1>2. d \in Int /\ 0 <= d /\ d < V_MEM_LIMIT - w + SysBurst
  BY <1>1, Places
<1>3. SysBurst + (V_MEM_LIMIT % w) <= w
  BY LayoutAssumption
<1>4. q \in Int /\ V_MEM_LIMIT = w * q + (V_MEM_LIMIT % w)
      /\ 0 <= V_MEM_LIMIT % w /\ V_MEM_LIMIT % w < w
  BY <1>1, Products
<1>5. x \in Int /\ d = w * x + (d % w) /\ 0 <= d % w /\ d % w < w
  BY <1>1, <1>2, Products
<1> HIDE DEF w, q, d, x
<1>6. w * q \in Int /\ w * x \in Int /\ w * (x + 1) = w * x + w
  BY <1>1, <1>4, <1>5, Products
<1>7. d % w \in Int /\ V_MEM_LIMIT % w \in Int
  BY <1>1, <1>2
<1>8. w * x < w * q
  BY <1>1, <1>2, <1>3, <1>4, <1>5, <1>6, <1>7
<1>9. x + 1 <= q
  BY <1>1, <1>4, <1>5, <1>8, Products
<1>10. w * (x + 1) <= w * q
  BY <1>1, <1>4, <1>5, <1>9, Products
<1>11. 0 <= w * (x + 1) /\ w * (x + 1) <= V_MEM_LIMIT
  BY <1>1, <1>2, <1>4, <1>5, <1>6, <1>7, <1>10
<1>12. NextRow(c, pos) = origal_addr(c) + w * (x + 1)
  BY DEF NextRow, w, d, x
<1> QED
  BY <1>1, <1>6, <1>11, <1>12, Places

\* Scrolling by a row.
LEMMA AlignedRows ==
  ASSUME NEW c \in ConsoleId
  PROVE  /\ Aligned(origal_addr(c), c)
         /\ \A addr \in Int : Aligned(addr, c) => Aligned(addr + SCREEN_WIDTH, c)
         /\ \A addr \in Int : Aligned(addr, c) /\ origal_addr(c) < addr =>
              Aligned(addr - SCREEN_WIDTH, c)
         /\ \A addr \in Int : Aligned(addr, c) =>
              /\ origal_addr(c) <= addr
              /\ (addr - origal_addr(c)) % SCREEN_WIDTH = 0
<1> DEFINE w == SCREEN_WIDTH
<1>1. w \in Nat \ {0} /\ origal_addr(c) \in Int
  BY ConsoleAssumption, Places
<1> HIDE DEF w
<1>2. Aligned(origal_addr(c), c)
  <2>1. origal_addr(c) = origal_addr(c) + w * 0
    BY <1>1
  <2> QED
    BY <2>1 DEF Aligned, w
<1>3. ASSUME NEW addr \in Int, Aligned(addr, c)
      PROVE  /\ Aligned(addr + w, c)
             /\ origal_addr(c) < addr => Aligned(addr - w, c)
             /\ origal_addr(c) <= addr /\ (addr - origal_addr(c)) % w = 0
  <2>1. PICK k \in Nat : addr = origal_addr(c) + w * k
    BY <1>3 DEF Aligned, w
  <2>2. /\ w * k \in Int /\ w * (k + 1) = w * k + w /\ w * (k - 1) = w * k - w
        /\ 0 <= w * k /\ (0 < w * k => 1 <= k)
    <3>1. w * 0 = 0 /\ (0 < k <=> w * 0 < w * k) /\ (0 <= k <=> w * 0 <= w * k)
      BY <1>1, Products
    <3>2. w * k \in Int /\ w * (k + 1) = w * k + w /\ w * (k - 1) = w * k - w
      BY <1>1, Products
    <3> QED
      BY <3>1, <3>2
  <2>3. Aligned(addr + w, c)
    <3>1. addr + w = origal_addr(c) + w * (k + 1) /\ k + 1 \in Nat
      BY <1>1, <2>1, <2>2
    <3> QED
      BY <3>1 DEF Aligned, w
  <2>4. origal_addr(c) < addr => Aligned(addr - w, c)
    <3> SUFFICES ASSUME origal_addr(c) < addr PROVE Aligned(addr - w, c)
      OBVIOUS
    <3>1. addr - w = origal_addr(c) + w * (k - 1) /\ k - 1 \in Nat
      BY <1>1, <2>1, <2>2
    <3> QED
      BY <3>1 DEF Aligned, w
  <2>5. (w * k) % w = 0
    <3> DEFINE p == w * k
               q == p \div w
    <3>1. p \in Int /\ q \in Int /\ p = w * q + (p % w) /\ 0 <= p % w /\ p % w < w
      BY <1>1, <2>2, Products
    <3>2. w * q \in Int /\ w * (q + 1) = w * q + w
      BY <1>1, <3>1, Products
    <3>3. p % w \in Int
      BY <1>1, <3>1
    <3>4. w * q <= p /\ p < w * (q + 1)
      BY <1>1, <3>1, <3>2, <3>3
    <3>5. q <= k /\ k < q + 1
      BY <1>1, <3>1, <3>4, Products
    <3>6. q = k
      BY <3>1, <3>5
    <3> QED
      BY <3>1, <3>2, <3>3, <3>6
  <2>6. origal_addr(c) <= addr /\ addr - origal_addr(c) = w * k
    BY <1>1, <2>1, <2>2
  <2>7. (addr - origal_addr(c)) % w = 0
    BY <2>5, <2>6
  <2> QED
    BY <2>3, <2>4, <2>6, <2>7
<1> QED
  BY <1>2, <1>3 DEF w

-----------------------------------------------------------------------------
(* Facts about a state, and about the state after a step.                  *)


LEMMA CallSeq ==
  ASSUME IInv
  PROVE  call["tty"] \in Seq(CallType) /\ call["sys"] \in Seq(CallType)
BY DEF IInv, FlowTypes

LEMMA Typed == IInv =>
  /\ \A c \in ConsoleId : cursor[c] \in Int /\ current_start_addr[c] \in Int
  /\ \A a \in Party : reg[a] \in Int
  /\ started \in Nat
  /\ Len(call["sys"]) \in Nat /\ Remaining \in Int /\ Bonus \in Int
<1> SUFFICES ASSUME IInv
             PROVE  /\ \A c \in ConsoleId : cursor[c] \in Int /\ current_start_addr[c] \in Int
                    /\ \A a \in Party : reg[a] \in Int
                    /\ started \in Nat
                    /\ Len(call["sys"]) \in Nat /\ Remaining \in Int /\ Bonus \in Int
  OBVIOUS
<1>1. call["sys"] \in Seq(CallType)
  BY CallSeq
<1>2. Len(call["sys"]) \in Nat
  BY <1>1
<1> QED
  BY <1>2, ConsoleAssumption DEF IInv, TypeOK, FlowTypes, Remaining, Bonus

\* A console is up when its turn has come and the call in progress is not the one
\* that initialises it.
UpNow(c) ==
  c < started /\ (call["tty"] /= <<>> => Head(call["tty"]) /= InitScreen(c))

LEMMA UpForm == IInv /\ TtyCalls => \A c \in ConsoleId : Up(c) <=> UpNow(c)
<1> SUFFICES ASSUME IInv, TtyCalls, NEW c \in ConsoleId
             PROVE  Up(c) <=> UpNow(c)
  OBVIOUS
<1> DEFINE s == call["tty"]
<1>1. s \in Seq(CallType)
  BY CallSeq
<1>2. CASE s = <<>>
  BY <1>2 DEF Up, UpNow
<1>3. CASE s /= <<>>
  <2>1. /\ Len(s) \in Nat /\ 1 <= Len(s) /\ Head(s) = s[1]
        /\ Tail(s) \in Seq(CallType) /\ Len(Tail(s)) = Len(s) - 1
        /\ \A i \in 1 .. Len(Tail(s)) : Tail(s)[i] = s[i + 1]
    BY <1>1, <1>3, HeadTailProperties, EmptySeq
  <2>2. Tail(s) \in Seq(Later)
    BY <1>3 DEF TtyCalls
  <2>3. \A i \in 2 .. Len(s) : s[i] /= InitScreen(c)
    <3> SUFFICES ASSUME NEW i \in 2 .. Len(s) PROVE s[i] /= InitScreen(c)
      OBVIOUS
    <3>1. i - 1 \in 1 .. Len(Tail(s)) /\ (i - 1) + 1 = i
      BY <2>1
    <3>2. s[i] = Tail(s)[i - 1]
      BY <2>1, <3>1
    <3>3. Tail(s)[i - 1] \in Later
      BY <2>2, <3>1
    <3> QED
      BY <3>2, <3>3 DEF Later, InitScreen
  <2>4. (\A i \in 1 .. Len(s) : s[i] /= InitScreen(c)) <=> s[1] /= InitScreen(c)
    BY <2>1, <2>3
  <2> QED
    BY <1>3, <2>1, <2>4 DEF Up, UpNow
<1> QED
  BY <1>2, <1>3

\* The character of a system call, and where it goes.
LEMMA SysHere ==
  ASSUME IInv, SysCalls, call["sys"] /= <<>>
  PROVE  /\ This("sys") = TestBTty /\ Char("sys") = "x" /\ ~AfterScroll("sys")
         /\ Head(call["sys"]).op = "out_char"
         /\ TestBTty \in ConsoleId /\ Up(TestBTty)
         /\ Tail(call["sys"]) \in Seq({OutChar(TestBTty, "x")})
         /\ Len(Tail(call["sys"])) = Len(call["sys"]) - 1
<1>1. call["sys"] \in Seq({OutChar(TestBTty, "x")})
  BY DEF SysCalls
<1>2. /\ Head(call["sys"]) = OutChar(TestBTty, "x")
      /\ Tail(call["sys"]) \in Seq({OutChar(TestBTty, "x")})
      /\ Len(Tail(call["sys"])) = Len(call["sys"]) - 1
  BY <1>1, HeadTailProperties
<1>3. TestBTty \in ConsoleId
  BY ConsoleAssumption DEF TestBTty, ConsoleId
<1>4. Booted
  BY DEF SysCalls, Idle
<1> QED
  BY <1>2, <1>3, <1>4 DEF This, Char, AfterScroll, OutChar, Booted

\* A step of one party leaves the other's statement, calls and register alone.
LEMMA StepOther ==
  ASSUME IInv, NEW a \in Party, Step(a)
  PROVE  /\ \A b \in Party : b /= a => pc'[b] = pc[b] /\ call'[b] = call[b] /\ reg'[b] = reg[b]
         /\ started' = started
         /\ call[a] /= <<>> /\ This(a) \in ConsoleId
         /\ Runs(a)
<1>1. CASE DisableInt(a) \/ OutByte(a)
  <2>1. pc[a] /= "idle" /\ Runs(a) /\ UNCHANGED <<flow, p_vmem, reg>>
    BY <1>1 DEF DisableInt, OutByte
  <2> QED
    BY <2>1, InACall DEF flow
<1>2. CASE EnableInt(a)
  <2>1. pc[a] /= "idle" /\ Runs(a) /\ (Goto(a, "cursor_arg") \/ Return(a))
    BY <1>2 DEF EnableInt
  <2>2. call[a] /= <<>> /\ This(a) \in ConsoleId
    BY <2>1, InACall
  <2>3. "cursor_arg" \in PcType
    BY DEF PcType
  <2>4. \A b \in Party : b /= a => pc'[b] = pc[b] /\ call'[b] = call[b] /\ reg'[b] = reg[b]
    BY <2>1, <2>2, <2>3, GotoTypes, ReturnTypes
  <2>5. started' = started
    BY <2>1 DEF Goto, Jump, Return
  <2> QED
    BY <2>1, <2>2, <2>4, <2>5
<1>3. CASE ~(DisableInt(a) \/ OutByte(a) \/ EnableInt(a))
  <2>1. Quiet(a)
    BY <1>3, TestQuiet, LoadQuiet, InitFieldsQuiet, SelectQuiet, MoveQuiet, ScrollQuiet,
       FlushQuiet DEF Step
  <2>2. call[a] /= <<>> /\ Runs(a)
    BY <1>3, InACall DEF Step, Call, InitFields, SelectConsole, VideoAddress, Test, StoreChar,
       LoadCursor, MoveCursor, Erase, While, ScrollTest, ScrollLoad, ScrollStore, Flush,
       CursorArgument, At
  <2>3. started' = started
    BY <1>3 DEF Step, Call, InitFields, SelectConsole, VideoAddress, Test, StoreChar,
       LoadCursor, MoveCursor, Erase, While, ScrollTest, ScrollLoad, ScrollStore, Flush,
       CursorArgument, Goto, Jump, Return
  <2> QED
    BY <2>1, <2>2, <2>3, CallTypes DEF Quiet
<1> QED
  BY <1>1, <1>2, <1>3

-----------------------------------------------------------------------------
(* Steps of the system call.                                               *)

\* What a system call may do to a cursor and to a window between two statements
\* of the TTY task.
Grows ==
  /\ pc'["tty"] = pc["tty"] /\ call'["tty"] = call["tty"] /\ reg'["tty"] = reg["tty"]
  /\ started' = started
  /\ \A c \in ConsoleId :
       /\ cursor[c] <= cursor'[c]
       /\ cursor'[c] = cursor[c] \/ cursor'[c] < Limit(c)
       /\ cursor'[c] + Remaining' - Bonus' <= cursor[c] + Remaining - Bonus
       /\ current_start_addr[c] <= current_start_addr'[c]
       /\ \/ current_start_addr'[c] = current_start_addr[c]
          \/ current_start_addr'[c] + SCREEN_SIZE < Limit(c) + SCREEN_WIDTH

LEMMA GrowsUp ==
  ASSUME IInv, TtyCalls, Grows
  PROVE  TtyCalls' /\ \A c \in ConsoleId : Up(c)' <=> Up(c)
BY DEF Grows, TtyCalls, Up, Later, This

LEMMA TypedNext ==
  ASSUME IInv', NEW c \in ConsoleId
  PROVE  /\ cursor'[c] \in Int /\ current_start_addr'[c] \in Int
         /\ Remaining' \in Int /\ Bonus' \in Int
<1>1. cursor' \in [ConsoleId -> Int] /\ current_start_addr' \in [ConsoleId -> Int]
  BY DEF IInv, TypeOK
<1>2. call'["sys"] \in Seq(CallType)
  BY DEF IInv, FlowTypes
<1>3. Len(call'["sys"]) \in Nat
  BY <1>2
<1> QED
  BY <1>1, <1>3, ConsoleAssumption DEF Remaining, Bonus

\* The TTY task's tests keep their worth.
LEMMA GrowsProgress ==
  ASSUME IInv, IInv', TtyProgress, Grows
  PROVE  TtyProgress'
<1> SUFFICES ASSUME NEW c \in ConsoleId, pc'["tty"] /= "idle", c = This("tty")'
             PROVE  CursorProgress(c)' /\ WindowProgress(c)'
  BY DEF TtyProgress
<1>1. CursorProgress(c) /\ WindowProgress(c)
  BY DEF Grows, TtyProgress, This
<1>2. pc'["tty"] = pc["tty"] /\ reg'["tty"] = reg["tty"] /\ Char("tty")' = Char("tty")
  BY DEF Grows, Char
<1>3. /\ cursor[c] <= cursor'[c]
      /\ cursor'[c] = cursor[c] \/ cursor'[c] < Limit(c)
      /\ cursor'[c] + Remaining' - Bonus' <= cursor[c] + Remaining - Bonus
      /\ current_start_addr[c] <= current_start_addr'[c]
      /\ \/ current_start_addr'[c] = current_start_addr[c]
         \/ current_start_addr'[c] + SCREEN_SIZE < Limit(c) + SCREEN_WIDTH
  BY DEF Grows
<1>4. /\ cursor[c] \in Int /\ current_start_addr[c] \in Int /\ Remaining \in Int /\ Bonus \in Int
      /\ cursor'[c] \in Int /\ current_start_addr'[c] \in Int
      /\ Remaining' \in Int /\ Bonus' \in Int
      /\ origal_addr(c) \in Int /\ Limit(c) \in Int
  BY Typed, TypedNext, Places
<1>5. CursorProgress(c)'
  <2>1. ASSUME Char("tty") = "newline", pc["tty"] = "load"
        PROVE  cursor'[c] + Remaining' < Limit(c) - SCREEN_WIDTH + Bonus'
    <3>1. cursor[c] + Remaining < Limit(c) - SCREEN_WIDTH + Bonus
      BY <1>1, <2>1 DEF CursorProgress
    <3> QED
      BY <1>3, <1>4, <3>1, ConsoleAssumption
  <2>2. ASSUME Char("tty") = "backspace", pc["tty"] = "load"
        PROVE  origal_addr(c) < cursor'[c]
    BY <1>1, <1>3, <1>4, <2>2 DEF CursorProgress
  <2>3. ASSUME Char("tty") \notin {"newline", "backspace"}, pc["tty"] \in {"store", "load"}
        PROVE  cursor'[c] < Limit(c)
    BY <1>1, <1>3, <1>4, <2>3 DEF CursorProgress
  <2> QED
    BY <1>1, <1>2, <2>1, <2>2, <2>3 DEF CursorProgress
<1>6. WindowProgress(c)'
  <2>1. ASSUME pc["tty"] = "down_load"
        PROVE  current_start_addr'[c] + SCREEN_SIZE < Limit(c) + SCREEN_WIDTH
    BY <1>1, <1>3, <1>4, <2>1 DEF WindowProgress
  <2>2. ASSUME pc["tty"] = "up_load"
        PROVE  origal_addr(c) < current_start_addr'[c]
    BY <1>1, <1>3, <1>4, <2>2 DEF WindowProgress
  <2> QED
    BY <1>1, <1>2, <2>1, <2>2 DEF WindowProgress, Aligned
<1> QED
  BY <1>5, <1>6

\* A step that touches none of what is looked at here.
LEMMA SameInv ==
  ASSUME HInv,
         UNCHANGED <<cursor, current_start_addr, pc, call, written, started, reg>>
  PROVE  HInv'
BY DEF HInv, SysCalls, TtyCalls, Homes, TtyProgress, SysProgress, Home, Up, Booted, Idle,
   CursorProgress, WindowProgress, Remaining, Bonus, This, Char, Later, Aligned

\* The system call goes on: what has to be shown is that its cursor and window
\* grow, stay at home, and bear out its own tests.
LEMMA SysGoesOn ==
  ASSUME IInv, HInv, IInv', Grows, Home(TestBTty)', SysProgress',
         \A c \in ConsoleId \ {TestBTty} :
           cursor'[c] = cursor[c] /\ current_start_addr'[c] = current_start_addr[c],
         call'["sys"] \in Seq({OutChar(TestBTty, "x")}), pc'["sys"] \in SysPc,
         written', Booted
  PROVE  HInv'
<1>1. TtyCalls' /\ \A c \in ConsoleId : Up(c)' <=> Up(c)
  BY GrowsUp DEF HInv
<1>2. TtyProgress'
  BY GrowsProgress DEF HInv
<1>3. SysCalls'
  BY <1>1 DEF SysCalls, Booted
<1>4. Homes'
  <2> SUFFICES ASSUME NEW c \in ConsoleId, Up(c)' PROVE Home(c)'
    BY DEF Homes
  <2>1. CASE c = TestBTty
    BY <2>1
  <2>2. CASE c /= TestBTty
    <3>1. Home(c)
      BY <1>1 DEF HInv, Homes
    <3> QED
      BY <2>2, <3>1 DEF Home, Aligned
  <2> QED
    BY <2>1, <2>2
<1> QED
  BY <1>1, <1>2, <1>3, <1>4 DEF HInv

LEMMA SysWriteHome ==
  ASSUME IInv, HInv, IInv', SysWrite
  PROVE  HInv'
<1> USE ConsoleAssumption
<1>1. PICK len \in 1 .. SysBurst :
        call' = [call EXCEPT !["sys"] = [i \in 1 .. len |-> OutChar(TestBTty, "x")]]
  BY DEF SysWrite, Set
<1>2. /\ Booted /\ Idle("sys") /\ ~written /\ written'
      /\ UNCHANGED <<cursor, current_start_addr, pc, started, reg>>
  BY DEF SysWrite, screen, locals
<1>3. /\ call'["sys"] = [i \in 1 .. len |-> OutChar(TestBTty, "x")]
      /\ call'["tty"] = call["tty"]
  BY <1>1 DEF IInv, FlowTypes
<1>4. call'["sys"] \in Seq({OutChar(TestBTty, "x")}) /\ Len(call'["sys"]) = len
  BY <1>3
<1>5. pc'["sys"] = "idle" /\ call["sys"] = <<>> /\ Len(call["sys"]) = 0
  BY <1>2 DEF Idle
<1>6. Remaining' = len /\ Bonus' = SysBurst /\ Remaining = 0 /\ Bonus = 0
  BY <1>2, <1>4, <1>5 DEF Remaining, Bonus, Moved
<1>7. Grows
  BY <1>2, <1>3, <1>6, Typed DEF Grows
<1>8. TestBTty \in ConsoleId
  BY DEF TestBTty, ConsoleId
<1>9. Home(TestBTty)'
  BY <1>2, <1>8 DEF HInv, Homes, Booted, Home, Aligned
<1>10. SysProgress'
  BY <1>5 DEF SysProgress
<1> QED
  BY <1>2, <1>4, <1>5, <1>7, <1>9, <1>10, SysGoesOn DEF SysPc

\* Steps that change neither cursor nor window.
LEMMA SysJumps ==
  ASSUME IInv, HInv, IInv', Step("sys"), NEW to \in SysPc, Jump("sys", to),
         pc["sys"] \in Moved => to \in Moved,
         UNCHANGED <<cursor, current_start_addr>>, SysProgress'
  PROVE  HInv'
<1>1. /\ pc'["tty"] = pc["tty"] /\ call' = call /\ reg'["tty"] = reg["tty"]
      /\ started' = started /\ written' = written /\ pc'["sys"] = to
  BY StepOther DEF Jump, IInv, FlowTypes
<1>2. call["sys"] /= <<>> /\ written /\ Booted
  BY StepOther DEF HInv, SysCalls, Idle
<1>3. Home(TestBTty)'
  <2>1. Home(TestBTty)
    BY <1>2, SysHere DEF HInv, Homes
  <2> QED
    BY <2>1 DEF Home, Aligned
<1>4. Grows
  <2>1. Remaining' <= Remaining /\ Bonus' = Bonus /\ Remaining \in Int /\ Remaining' \in Int
    BY <1>1, Typed DEF Remaining, Bonus
  <2> QED
    BY <1>1, <2>1, Typed DEF Grows
<1> QED
  BY <1>1, <1>2, <1>3, <1>4, SysGoesOn DEF HInv, SysCalls

LEMMA SysReturns ==
  ASSUME IInv, HInv, IInv', Step("sys"), Return("sys"), pc["sys"] \in Moved,
         UNCHANGED <<cursor, current_start_addr>>
  PROVE  HInv'
<1>1. /\ pc'["tty"] = pc["tty"] /\ call'["tty"] = call["tty"] /\ reg'["tty"] = reg["tty"]
      /\ started' = started /\ pc'["sys"] = "idle" /\ call'["sys"] = Tail(call["sys"])
  BY StepOther DEF Return, IInv, FlowTypes
<1>2. call["sys"] /= <<>> /\ written /\ Booted
  BY StepOther DEF HInv, SysCalls, Idle
<1>3. written'
  BY <1>2 DEF Return
<1>4. Home(TestBTty)'
  <2>1. Home(TestBTty)
    BY <1>2, SysHere DEF HInv, Homes
  <2> QED
    BY <2>1 DEF Home, Aligned
<1>5. /\ call'["sys"] \in Seq({OutChar(TestBTty, "x")})
      /\ Len(call'["sys"]) = Len(call["sys"]) - 1
  BY <1>1, <1>2, SysHere DEF HInv
<1>6. Grows
  <2>1. Remaining' = Remaining /\ Bonus' = Bonus /\ Remaining \in Int
    BY <1>1, <1>2, <1>3, <1>5, Typed DEF Remaining, Bonus, Moved
  <2> QED
    BY <1>1, <2>1, Typed DEF Grows
<1>7. SysProgress'
  BY <1>1 DEF SysProgress
<1> QED
  BY <1>1, <1>2, <1>3, <1>4, <1>5, <1>6, <1>7, SysGoesOn DEF SysPc

\* out_char() moves the cursor by one cell, within the region.
LEMMA SysMoves ==
  ASSUME IInv, HInv, IInv', MoveCursor("sys")
  PROVE  HInv'
<1> USE ConsoleAssumption
<1> DEFINE c == TestBTty
<1>1. pc["sys"] = "move" /\ Step("sys")
  BY DEF MoveCursor, At, Step
<1>2. /\ call["sys"] /= <<>> /\ written /\ Booted
  BY <1>1, StepOther DEF HInv, SysCalls, Idle
<1>3. This("sys") = c /\ Char("sys") = "x" /\ c \in ConsoleId /\ Home(c)
  BY <1>2, SysHere DEF HInv, Homes
<1>4. reg["sys"] = cursor[c] /\ cursor[c] < Limit(c) - 1
  BY <1>1 DEF HInv, SysProgress
<1>5. /\ cursor' = [cursor EXCEPT ![c] = cursor[c] + 1]
      /\ current_start_addr' = current_start_addr /\ Goto("sys", "while")
  BY <1>3, <1>4 DEF MoveCursor, Set
<1>6. /\ pc'["tty"] = pc["tty"] /\ call' = call /\ reg'["tty"] = reg["tty"]
      /\ started' = started /\ written' = written /\ pc'["sys"] = "while"
  BY <1>1, <1>5, StepOther DEF Goto, Jump, IInv, FlowTypes
<1>7. /\ cursor'[c] = cursor[c] + 1
      /\ \A d \in ConsoleId \ {c} : cursor'[d] = cursor[d]
  BY <1>3, <1>5 DEF IInv, TypeOK
<1>8. Limit(c) \in Int /\ origal_addr(c) \in Int /\ cursor[c] \in Int
  BY <1>3, Places, Typed
<1>9. Home(c)'
  <2>1. Aligned(current_start_addr[c], c)'
    BY <1>3, <1>5 DEF Home, Aligned
  <2> QED
    BY <1>3, <1>4, <1>5, <1>7, <1>8, <2>1 DEF Home
<1>10. Grows
  <2>1. Remaining' = Remaining - 1 /\ Bonus' = Bonus /\ Remaining \in Int /\ Bonus \in Int
    BY <1>1, <1>6, Typed DEF Remaining, Bonus, Moved
  <2>2. ASSUME NEW d \in ConsoleId
        PROVE  /\ cursor[d] <= cursor'[d]
               /\ cursor'[d] = cursor[d] \/ cursor'[d] < Limit(d)
               /\ cursor'[d] + Remaining' - Bonus' <= cursor[d] + Remaining - Bonus
    <3>1. cursor[d] \in Int
      BY Typed
    <3>2. CASE d = c
      BY <1>4, <1>7, <1>8, <2>1, <3>2
    <3>3. CASE d /= c
      BY <1>7, <2>1, <3>1, <3>3
    <3> QED
      BY <3>2, <3>3
  <2> QED
    BY <1>5, <1>6, <2>2, Typed DEF Grows
<1>11. SysProgress'
  BY <1>6 DEF SysProgress
<1>12. "while" \in SysPc
  BY DEF SysPc
<1> QED
  BY <1>2, <1>5, <1>6, <1>7, <1>9, <1>10, <1>11, <1>12, SysGoesOn DEF HInv, SysCalls

\* scroll_screen() moves the window by one row, if the region goes on below it.
LEMMA SysScrolls ==
  ASSUME IInv, HInv, IInv', ScrollStore("sys")
  PROVE  HInv'
<1> USE ConsoleAssumption
<1> DEFINE c == TestBTty
<1>1. pc["sys"] = "down_store" /\ Step("sys")
  BY DEF HInv, SysCalls, SysPc, ScrollStore, At, Step
<1>2. /\ call["sys"] /= <<>> /\ written /\ Booted
  BY <1>1, StepOther DEF HInv, SysCalls, Idle
<1>3. This("sys") = c /\ ~AfterScroll("sys") /\ c \in ConsoleId /\ Home(c)
  BY <1>2, SysHere DEF HInv, Homes
<1>4. reg["sys"] = current_start_addr[c] /\ current_start_addr[c] + SCREEN_SIZE < Limit(c)
  BY <1>1 DEF HInv, SysProgress
<1>5. /\ current_start_addr' =
           [current_start_addr EXCEPT ![c] = current_start_addr[c] + SCREEN_WIDTH]
      /\ cursor' = cursor /\ Goto("sys", "while")
  BY <1>1, <1>3, <1>4 DEF ScrollStore, At, Set
<1>6. /\ pc'["tty"] = pc["tty"] /\ call' = call /\ reg'["tty"] = reg["tty"]
      /\ started' = started /\ written' = written /\ pc'["sys"] = "while"
  BY <1>1, <1>5, StepOther DEF Goto, Jump, IInv, FlowTypes
<1>7. /\ current_start_addr'[c] = current_start_addr[c] + SCREEN_WIDTH
      /\ \A d \in ConsoleId \ {c} : current_start_addr'[d] = current_start_addr[d]
  BY <1>3, <1>5 DEF IInv, TypeOK
<1>8. Limit(c) \in Int /\ origal_addr(c) \in Int /\ current_start_addr[c] \in Int
  BY <1>3, Places, Typed
<1>9. Home(c)'
  <2>1. Aligned(current_start_addr[c] + SCREEN_WIDTH, c)
    BY <1>3, <1>8, AlignedRows DEF Home
  <2>2. Aligned(current_start_addr[c], c)'
    BY <1>7, <2>1 DEF Aligned
  <2> QED
    BY <1>3, <1>4, <1>5, <1>7, <1>8, <2>2 DEF Home
<1>10. Grows
  <2>1. Remaining' = Remaining /\ Bonus' = Bonus /\ Remaining \in Int /\ Bonus \in Int
    BY <1>1, <1>6, Typed DEF Remaining, Bonus, Moved
  <2>2. ASSUME NEW d \in ConsoleId
        PROVE  /\ current_start_addr[d] <= current_start_addr'[d]
               /\ \/ current_start_addr'[d] = current_start_addr[d]
                  \/ current_start_addr'[d] + SCREEN_SIZE < Limit(d) + SCREEN_WIDTH
    <3>1. current_start_addr[d] \in Int
      BY Typed
    <3>2. CASE d = c
      BY <1>4, <1>7, <1>8, <3>2
    <3>3. CASE d /= c
      BY <1>7, <3>1, <3>3
    <3> QED
      BY <3>2, <3>3
  <2> QED
    BY <1>5, <1>6, <2>1, <2>2, Typed DEF Grows
<1>11. SysProgress'
  BY <1>6 DEF SysProgress
<1>12. "while" \in SysPc
  BY DEF SysPc
<1> QED
  BY <1>2, <1>5, <1>6, <1>7, <1>9, <1>10, <1>11, <1>12, SysGoesOn DEF HInv, SysCalls

\* Whatever a system call does, all are still at home.
LEMMA SysStepHome ==
  ASSUME IInv, HInv, IInv', Step("sys")
  PROVE  HInv'
<1> DEFINE c == TestBTty
<1>1. /\ call["sys"] /= <<>> /\ This("sys") = c /\ Char("sys") = "x"
      /\ ~AfterScroll("sys") /\ Head(call["sys"]).op = "out_char" /\ c \in ConsoleId
  BY StepOther, SysHere DEF HInv
<1>2. pc["sys"] \in SysPc
  BY DEF HInv, SysCalls
<1>3. pc \in [Party -> PcType] /\ reg \in [Party -> Int]
  BY DEF IInv, FlowTypes
<1>4. CASE Call("sys")
  <2>1. Jump("sys", "vmem") /\ pc["sys"] = "idle" /\ UNCHANGED <<cursor, current_start_addr>>
    BY <1>1, <1>4 DEF Call, At, Goto, Entry, screen
  <2>2. SysProgress'
    BY <1>3, <2>1 DEF Jump, SysProgress
  <2> QED
    BY <2>1, <2>2, SysJumps DEF SysPc, Moved
<1>5. CASE VideoAddress("sys")
  <2>1. /\ Jump("sys", "switch") /\ pc["sys"] = "vmem"
        /\ UNCHANGED <<cursor, current_start_addr>>
    BY <1>5 DEF VideoAddress, At, screen
  <2>2. SysProgress'
    BY <1>3, <2>1 DEF Jump, SysProgress
  <2> QED
    BY <2>1, <2>2, SysJumps DEF SysPc, Moved
<1>6. CASE Test("sys")
  <2>1. pc["sys"] = "switch" /\ UNCHANGED <<cursor, current_start_addr>>
    BY <1>6 DEF Test, At, screen
  <2>2. CASE Fits("sys")
    <3>1. Jump("sys", "store") /\ cursor[c] < Limit(c) - 1
      BY <1>1, <1>6, <2>2 DEF Test, Goto, Fits
    <3>2. SysProgress'
      BY <1>3, <2>1, <3>1 DEF Jump, SysProgress
    <3> QED
      BY <2>1, <3>1, <3>2, SysJumps DEF SysPc, Moved
  <2>3. CASE ~Fits("sys")
    <3>1. Jump("sys", "while")
      BY <1>6, <2>3 DEF Test, Goto
    <3>2. SysProgress'
      BY <1>3, <3>1 DEF Jump, SysProgress
    <3> QED
      BY <2>1, <3>1, <3>2, SysJumps DEF SysPc, Moved
  <2> QED
    BY <2>2, <2>3
<1>7. CASE StoreChar("sys")
  <2>1. /\ Jump("sys", "load") /\ pc["sys"] = "store"
        /\ UNCHANGED <<cursor, current_start_addr>>
    BY <1>7 DEF StoreChar, At, Goto
  <2>2. SysProgress'
    BY <1>3, <2>1 DEF HInv, Jump, SysProgress
  <2> QED
    BY <2>1, <2>2, SysJumps DEF SysPc, Moved
<1>8. CASE LoadCursor("sys")
  <2>1. /\ Jump("sys", "move") /\ pc["sys"] = "load"
        /\ reg' = [reg EXCEPT !["sys"] = cursor[c]]
        /\ UNCHANGED <<cursor, current_start_addr>>
    BY <1>1, <1>8 DEF LoadCursor, At, Set, screen
  <2>2. SysProgress'
    BY <1>3, <2>1 DEF HInv, Jump, SysProgress
  <2> QED
    BY <2>1, <2>2, SysJumps DEF SysPc, Moved
<1>9. CASE MoveCursor("sys")
  BY <1>9, SysMoves
<1>10. CASE While("sys")
  <2>1. /\ Jump("sys", "down") \/ Jump("sys", "flush")
        /\ pc["sys"] = "while" /\ UNCHANGED <<cursor, current_start_addr>>
    BY <1>10 DEF While, At, Goto, screen
  <2>2. SysProgress'
    BY <1>3, <2>1 DEF Jump, SysProgress
  <2> QED
    BY <2>1, <2>2, SysJumps DEF SysPc, Moved
<1>11. CASE ScrollTest("sys")
  <2>1. pc["sys"] = "down" /\ UNCHANGED <<cursor, current_start_addr>>
    BY <1>2, <1>11 DEF ScrollTest, At, SysPc, screen
  <2>2. CASE RoomToScroll(c)
    <3>1. Jump("sys", "down_load") /\ current_start_addr[c] + SCREEN_SIZE < Limit(c)
      BY <1>1, <1>11, <2>1, <2>2 DEF ScrollTest, At, Goto, RoomToScroll
    <3>2. SysProgress'
      BY <1>3, <2>1, <3>1 DEF Jump, SysProgress
    <3> QED
      BY <2>1, <3>1, <3>2, SysJumps DEF SysPc, Moved
  <2>3. CASE ~RoomToScroll(c)
    <3>1. Jump("sys", "while")
      BY <1>1, <1>11, <2>1, <2>3 DEF ScrollTest, At, Goto
    <3>2. SysProgress'
      BY <1>3, <3>1 DEF Jump, SysProgress
    <3> QED
      BY <2>1, <3>1, <3>2, SysJumps DEF SysPc, Moved
  <2> QED
    BY <2>2, <2>3
<1>12. CASE ScrollLoad("sys")
  <2>1. /\ Jump("sys", "down_store") /\ pc["sys"] = "down_load"
        /\ reg' = [reg EXCEPT !["sys"] = current_start_addr[c]]
        /\ UNCHANGED <<cursor, current_start_addr>>
    BY <1>1, <1>2, <1>12 DEF ScrollLoad, At, Set, SysPc, screen
  <2>2. SysProgress'
    BY <1>3, <2>1 DEF HInv, Jump, SysProgress
  <2> QED
    BY <2>1, <2>2, SysJumps DEF SysPc, Moved
<1>13. CASE ScrollStore("sys")
  BY <1>13, SysScrolls
<1>14. CASE Flush("sys") \/ CursorArgument("sys") \/ EnableInt("sys")
  <2>1. /\ pc["sys"] \in Moved /\ UNCHANGED <<cursor, current_start_addr>>
        /\ \/ Jump("sys", "start") \/ Jump("sys", "cursor_arg") \/ Jump("sys", "cursor")
           \/ Return("sys")
    BY <1>14 DEF Flush, CursorArgument, EnableInt, At, Goto, Moved, screen
  <2>2. CASE Return("sys")
    BY <2>1, <2>2, SysReturns
  <2>3. CASE ~Return("sys")
    <3>1. PICK to \in {"start", "cursor_arg", "cursor"} : Jump("sys", to)
      BY <2>1, <2>3
    <3>2. SysProgress'
      BY <1>3, <3>1 DEF Jump, SysProgress
    <3> QED
      BY <2>1, <3>1, <3>2, SysJumps DEF SysPc, Moved
  <2> QED
    BY <2>2, <2>3
<1>15. CASE DisableInt("sys") \/ OutByte("sys")
  <2>1. UNCHANGED <<cursor, current_start_addr, pc, call, written, started, reg>>
    BY <1>15 DEF DisableInt, OutByte, screen, flow
  <2> QED
    BY <2>1, SameInv
<1>16. CASE InitFields("sys") \/ SelectConsole("sys") \/ Erase("sys")
  BY <1>2, <1>16 DEF InitFields, SelectConsole, Erase, At, SysPc
<1> QED
  BY <1>4, <1>5, <1>6, <1>7, <1>8, <1>9, <1>10, <1>11, <1>12, <1>13, <1>14, <1>15, <1>16
     DEF Step

-----------------------------------------------------------------------------
(* Steps of the TTY task.                                                  *)

\* No system call is under way, nor is one after the step.
LEMMA NoSyscall ==
  ASSUME IInv, HInv, Idle("sys"), pc'["sys"] = pc["sys"], call'["sys"] = call["sys"],
         written' \in BOOLEAN
  PROVE  SysCalls' /\ SysProgress' /\ Remaining = 0 /\ Remaining' = 0
<1>1. call["sys"] = <<>> /\ pc["sys"] = "idle" /\ Len(call["sys"]) = 0
  BY DEF Idle
<1>2. SysCalls'
  BY <1>1 DEF HInv, SysCalls, Idle
<1>3. SysProgress' /\ Remaining = 0 /\ Remaining' = 0
  BY <1>1 DEF SysProgress, Remaining, Moved
<1> QED
  BY <1>2, <1>3

\* A console that is worked on is up.
LEMMA TtyHere ==
  ASSUME IInv, HInv, pc["tty"] \notin {"idle", "init"}
  PROVE  /\ call["tty"] /= <<>> /\ Head(call["tty"]).op /= "init_screen"
         /\ This("tty") \in ConsoleId /\ Up(This("tty")) /\ Home(This("tty"))
<1>1. call["tty"] /= <<>> /\ This("tty") \in ConsoleId
  BY InACall
<1>2. This("tty") < started /\ Head(call["tty"]).op /= "init_screen"
  BY <1>1 DEF HInv, TtyCalls
<1>3. PICK c \in ConsoleId : c = This("tty")
  BY <1>1
<1>4. Head(call["tty"]) /= InitScreen(c)
  BY <1>2 DEF InitScreen
<1>5. Up(c)
  BY <1>2, <1>3, <1>4, UpForm DEF HInv, UpNow
<1>6. Home(c)
  BY <1>5 DEF HInv, Homes
<1> QED
  BY <1>1, <1>2, <1>3, <1>5, <1>6

\* The TTY task goes on within its call, on console c.
LEMMA TtyGoesOn ==
  ASSUME IInv, HInv, IInv', Step("tty"), NEW c \in ConsoleId, c = This("tty"),
         NEW to \in PcType \ {"idle"}, Jump("tty", to),
         to = "init" <=> Head(call["tty"]).op = "init_screen",
         Up(c) => Home(c)', CursorProgress(c)', WindowProgress(c)',
         \A d \in ConsoleId \ {c} :
           cursor'[d] = cursor[d] /\ current_start_addr'[d] = current_start_addr[d]
  PROVE  HInv'
<1>1. /\ pc'["sys"] = pc["sys"] /\ call' = call /\ started' = started /\ written' = written
      /\ pc'["tty"] = to /\ call["tty"] /= <<>> /\ Idle("sys")
  BY StepOther DEF Jump, IInv, FlowTypes, Runs
<1>2. SysCalls' /\ SysProgress'
  BY <1>1, NoSyscall DEF HInv, SysCalls
<1>3. TtyCalls'
  BY <1>1 DEF HInv, TtyCalls, Later, This
<1>4. Homes'
  <2> SUFFICES ASSUME NEW d \in ConsoleId, Up(d)' PROVE Home(d)'
    BY DEF Homes
  <2>1. Up(d)
    BY <1>1 DEF Up
  <2>2. CASE d = c
    BY <2>1, <2>2
  <2>3. CASE d /= c
    <3>1. Home(d)
      BY <2>1 DEF HInv, Homes
    <3> QED
      BY <2>3, <3>1 DEF Home, Aligned
  <2> QED
    BY <2>2, <2>3
<1>5. TtyProgress'
  <2> SUFFICES ASSUME NEW d \in ConsoleId, d = This("tty")'
               PROVE  CursorProgress(d)' /\ WindowProgress(d)'
    BY DEF TtyProgress
  <2>1. d = c
    BY <1>1 DEF This
  <2> QED
    BY <2>1
<1> QED
  BY <1>2, <1>3, <1>4, <1>5 DEF HInv

\* The TTY task returns from its call.
LEMMA TtyReturns ==
  ASSUME IInv, HInv, IInv', Step("tty"), NEW c \in ConsoleId, c = This("tty"),
         Return("tty"), Home(c)',
         \A d \in ConsoleId \ {c} :
           cursor'[d] = cursor[d] /\ current_start_addr'[d] = current_start_addr[d]
  PROVE  HInv'
<1> DEFINE s == call["tty"]
<1>1. /\ pc'["sys"] = pc["sys"] /\ call'["sys"] = call["sys"] /\ started' = started
      /\ pc'["tty"] = "idle" /\ s /= <<>> /\ Idle("sys") /\ call'["tty"] = Tail(s)
  BY StepOther DEF Return, IInv, FlowTypes, Runs
<1>2. SysCalls' /\ SysProgress'
  <2>1. written' \in BOOLEAN
    BY DEF Return
  <2> QED
    BY <1>1, <2>1, NoSyscall
<1>3. Tail(s) \in Seq(Later)
  BY <1>1 DEF HInv, TtyCalls
<1>4. TtyCalls'
  <2> SUFFICES ASSUME Tail(s) /= <<>>
               PROVE  /\ Head(Tail(s)).c < started /\ Head(Tail(s)).op /= "init_screen"
                      /\ Tail(Tail(s)) \in Seq(Later)
    BY <1>1 DEF TtyCalls, This, Later
  <2>1. Head(Tail(s)) \in Later /\ Tail(Tail(s)) \in Seq(Later)
    BY <1>3, HeadTailProperties
  <2> QED
    BY <2>1 DEF Later
<1>5. Homes'
  <2> SUFFICES ASSUME NEW d \in ConsoleId, Up(d)' PROVE Home(d)'
    BY DEF Homes
  <2>1. CASE d = c
    BY <2>1
  <2>2. CASE d /= c
    <3>1. d < started
      BY <1>1 DEF Up
    <3>2. Head(s) /= InitScreen(d)
      BY <2>2 DEF This, InitScreen
    <3>3. Home(d)
      BY <3>1, <3>2, UpForm DEF HInv, Homes, UpNow
    <3> QED
      BY <2>2, <3>3 DEF Home, Aligned
  <2> QED
    BY <2>1, <2>2
<1>6. TtyProgress'
  BY <1>1 DEF TtyProgress
<1> QED
  BY <1>2, <1>4, <1>5, <1>6 DEF HInv

\* Statements that rely on a test.
Tested == {"store", "load", "move", "down_load", "down_store", "up_load", "up_store"}

LEMMA TtyPlain ==
  ASSUME IInv, HInv, IInv', Step("tty"), NEW to \in PcType \ (Tested \union {"idle"}),
         Jump("tty", to), to = "init" <=> Head(call["tty"]).op = "init_screen",
         UNCHANGED <<cursor, current_start_addr>>
  PROVE  HInv'
<1>1. PICK c \in ConsoleId : c = This("tty")
  BY StepOther
<1>2. pc'["tty"] = to
  BY DEF Jump, IInv, FlowTypes
<1>3. CursorProgress(c)' /\ WindowProgress(c)'
  BY <1>2 DEF CursorProgress, WindowProgress, Tested
<1>4. Up(c) => Home(c)'
  BY DEF HInv, Homes, Home, Aligned
<1> QED
  BY <1>1, <1>3, <1>4, TtyGoesOn

\* init_screen() puts the cursor into the region and the window at its start.
LEMMA InitFieldsHome ==
  ASSUME IInv, HInv, IInv', InitFields("tty")
  PROVE  HInv'
<1> USE ConsoleAssumption
<1>1. Step("tty") /\ Return("tty")
  BY DEF InitFields, Step
<1>2. PICK c \in ConsoleId : c = This("tty")
  BY <1>1, StepOther
<1>3. PICK pos \in IF c = 0 THEN DispPos ELSE {origal_addr(c)} :
        cursor' = [cursor EXCEPT ![c] = pos]
  BY <1>2 DEF InitFields, Set
<1>4. current_start_addr' = [current_start_addr EXCEPT ![c] = origal_addr(c)]
  BY <1>2 DEF InitFields, Set
<1>5. /\ cursor'[c] = pos /\ current_start_addr'[c] = origal_addr(c)
      /\ \A d \in ConsoleId \ {c} :
           cursor'[d] = cursor[d] /\ current_start_addr'[d] = current_start_addr[d]
  BY <1>3, <1>4 DEF IInv, TypeOK
<1>6. pos \in Int /\ origal_addr(c) <= pos /\ pos <= Limit(c)
  <2>1. CASE c = 0
    <3>1. origal_addr(c) = 0 /\ Limit(c) = V_MEM_LIMIT
      BY <2>1, Places DEF origal_addr
    <3> QED
      BY <1>3, <2>1, <3>1
  <2>2. CASE c /= 0
    BY <1>3, <2>2, Places
  <2> QED
    BY <2>1, <2>2
<1>7. origal_addr(c) + SCREEN_SIZE < Limit(c) + 2 * SCREEN_WIDTH
  <2>1. SCREEN_SIZE <= V_MEM_LIMIT
    BY LayoutAssumption
  <2> QED
    BY <2>1, Places
<1>8. Home(c)'
  <2>1. Aligned(current_start_addr[c], c)'
    BY <1>5, AlignedRows DEF Aligned
  <2> QED
    BY <1>5, <1>6, <1>7, <2>1 DEF Home
<1> QED
  BY <1>1, <1>2, <1>5, <1>8, TtyReturns

\* A statement in a call, and the console it works on.
LEMMA TtyWorks ==
  ASSUME IInv, HInv, Step("tty"), pc["tty"] \notin {"idle", "init"}
  PROVE  /\ Head(call["tty"]).op /= "init_screen" /\ Idle("sys") /\ Remaining = 0
         /\ \E c \in ConsoleId :
              /\ c = This("tty") /\ Home(c) /\ CursorProgress(c) /\ WindowProgress(c)
              /\ cursor[c] \in Int /\ current_start_addr[c] \in Int
              /\ origal_addr(c) \in Int /\ Limit(c) \in Int
<1>1. Head(call["tty"]).op /= "init_screen" /\ This("tty") \in ConsoleId
  BY TtyHere
<1>2. PICK c \in ConsoleId : c = This("tty")
  BY <1>1
<1>3. Home(c)
  BY <1>2, TtyHere
<1>4. CursorProgress(c) /\ WindowProgress(c)
  BY <1>2 DEF HInv, TtyProgress
<1>5. Idle("sys") /\ Len(call["sys"]) = 0
  BY StepOther DEF Runs, Idle
<1>6. Remaining = 0
  BY <1>5 DEF Remaining, Idle, Moved
<1> QED
  BY <1>1, <1>2, <1>3, <1>4, <1>5, <1>6, Typed, Places

\* What out_char() tests holds when it goes on to use it.
LEMMA TestHome ==
  ASSUME IInv, HInv, IInv', Test("tty")
  PROVE  HInv'
<1> USE ConsoleAssumption
<1>1. /\ pc["tty"] = "switch" /\ Step("tty")
      /\ UNCHANGED <<cursor, current_start_addr>>
      /\ Jump("tty", IF ~Fits("tty") THEN "while"
                     ELSE IF Char("tty") = "x" THEN "store" ELSE "load")
  BY DEF Test, At, Step, Goto, screen
<1>2. PICK c \in ConsoleId :
        /\ c = This("tty") /\ Home(c) /\ cursor[c] \in Int
        /\ origal_addr(c) \in Int /\ Limit(c) \in Int
  BY <1>1, TtyWorks
<1>3. Head(call["tty"]).op /= "init_screen" /\ Idle("sys") /\ Remaining = 0
  BY <1>1, TtyWorks
<1>4. CASE ~Fits("tty")
  BY <1>1, <1>3, <1>4, TtyPlain DEF PcType, Tested
<1>5. CASE Fits("tty")
  <2>1. PICK to \in {"store", "load"} : Jump("tty", to) /\ (to = "store" => Char("tty") = "x")
    BY <1>1, <1>5
  <2>2. /\ call' = call /\ written' = written /\ pc'["tty"] = to /\ pc'["sys"] = pc["sys"]
    BY <2>1 DEF Jump, IInv, FlowTypes
  <2>3. Remaining' = 0 /\ Bonus' = Bonus /\ Bonus \in Nat
    BY <1>3, <2>2 DEF Remaining, Bonus
  <2>4. CursorProgress(c)'
    <3>1. Char("tty")' = Char("tty")
      BY <2>2 DEF Char
    <3>2. Char("tty") = "newline" => cursor[c] < Limit(c) - SCREEN_WIDTH
      BY <1>2, <1>5 DEF Fits
    <3>3. Char("tty") = "backspace" => origal_addr(c) < cursor[c]
      BY <1>2, <1>5 DEF Fits
    <3>4. Char("tty") \notin {"newline", "backspace"} => cursor[c] < Limit(c)
      BY <1>2, <1>5 DEF Fits
    <3> QED
      BY <1>1, <1>2, <2>1, <2>2, <2>3, <3>1, <3>2, <3>3, <3>4 DEF CursorProgress
  <2>5. WindowProgress(c)'
    BY <2>2 DEF WindowProgress
  <2>6. Home(c)'
    BY <1>1, <1>2 DEF Home, Aligned
  <2> QED
    BY <1>1, <1>2, <1>3, <2>1, <2>4, <2>5, <2>6, TtyGoesOn DEF PcType
<1> QED
  BY <1>4, <1>5

LEMMA StoreHome ==
  ASSUME IInv, HInv, IInv', StoreChar("tty")
  PROVE  HInv'
<1>1. /\ pc["tty"] = "store" /\ Step("tty") /\ Jump("tty", "load")
      /\ UNCHANGED <<cursor, current_start_addr>>
  BY DEF StoreChar, At, Step, Goto
<1>2. PICK c \in ConsoleId :
        /\ c = This("tty") /\ Home(c) /\ CursorProgress(c) /\ cursor[c] \in Int
        /\ origal_addr(c) \in Int /\ Limit(c) \in Int
  BY <1>1, TtyWorks
<1>3. Head(call["tty"]).op /= "init_screen"
  BY <1>1, TtyWorks
<1>4. call' = call /\ pc'["tty"] = "load"
  BY <1>1 DEF Jump, IInv, FlowTypes
<1>5. Char("tty") \notin {"newline", "backspace"}
  BY <1>1, <1>2 DEF CursorProgress
<1>6. CursorProgress(c)' /\ WindowProgress(c)'
  BY <1>1, <1>2, <1>4, <1>5 DEF CursorProgress, WindowProgress, Char
<1>7. Home(c)'
  BY <1>1, <1>2 DEF Home, Aligned
<1> QED
  BY <1>1, <1>2, <1>3, <1>6, <1>7, TtyGoesOn DEF PcType

LEMMA LoadHome ==
  ASSUME IInv, HInv, IInv', LoadCursor("tty")
  PROVE  HInv'
<1> USE ConsoleAssumption
<1>1. /\ pc["tty"] = "load" /\ Step("tty") /\ Jump("tty", "move")
      /\ reg' = [reg EXCEPT !["tty"] = cursor[This("tty")]]
      /\ UNCHANGED <<cursor, current_start_addr>>
  BY DEF LoadCursor, At, Step, Set, screen
<1>2. PICK c \in ConsoleId :
        /\ c = This("tty") /\ Home(c) /\ CursorProgress(c) /\ cursor[c] \in Int
        /\ origal_addr(c) \in Int /\ Limit(c) \in Int
  BY <1>1, TtyWorks
<1>3. Head(call["tty"]).op /= "init_screen" /\ Remaining = 0
  BY <1>1, TtyWorks
<1>4. /\ call' = call /\ pc'["tty"] = "move" /\ reg'["tty"] = cursor[c]
      /\ origal_addr(c) <= cursor[c] /\ cursor[c] <= Limit(c)
  BY <1>1, <1>2 DEF Jump, Home, IInv, FlowTypes
<1>5. CursorProgress(c)'
  <2>1. Char("tty")' = Char("tty")
    BY <1>4 DEF Char
  <2>2. Char("tty") = "newline" => cursor[c] < Limit(c) - SCREEN_WIDTH + SysBurst
    <3>1. Char("tty") = "newline" => cursor[c] + 0 < Limit(c) - SCREEN_WIDTH + Bonus
      BY <1>1, <1>2, <1>3 DEF CursorProgress
    <3>2. Bonus \in Nat /\ Bonus <= SysBurst
      BY DEF Bonus
    <3> QED
      BY <1>2, <3>1, <3>2
  <2>3. Char("tty") = "backspace" => origal_addr(c) < cursor[c]
    BY <1>1, <1>2 DEF CursorProgress
  <2>4. Char("tty") \notin {"newline", "backspace"} => cursor[c] < Limit(c)
    BY <1>1, <1>2 DEF CursorProgress
  <2> QED
    BY <1>4, <2>1, <2>2, <2>3, <2>4 DEF CursorProgress
<1>6. WindowProgress(c)'
  BY <1>4 DEF WindowProgress
<1>7. Home(c)'
  BY <1>1, <1>2 DEF Home, Aligned
<1> QED
  BY <1>1, <1>2, <1>3, <1>5, <1>6, <1>7, TtyGoesOn DEF PcType

\* The cursor that the TTY task stores is in the region or one past its end.
LEMMA MoveHome ==
  ASSUME IInv, HInv, IInv', MoveCursor("tty")
  PROVE  HInv'
<1> USE ConsoleAssumption
<1>1. /\ pc["tty"] = "move" /\ Step("tty")
      /\ Jump("tty", IF Char("tty") = "backspace" THEN "erase" ELSE "while")
      /\ current_start_addr' = current_start_addr
  BY DEF MoveCursor, At, Step, Goto
<1>2. PICK c \in ConsoleId :
        /\ c = This("tty") /\ Home(c) /\ CursorProgress(c)
        /\ origal_addr(c) \in Int /\ Limit(c) \in Int
  BY <1>1, TtyWorks
<1>3. Head(call["tty"]).op /= "init_screen" /\ reg["tty"] \in Int
  BY <1>1, TtyWorks, Typed
<1>4. PICK pos \in Int : /\ cursor' = [cursor EXCEPT ![c] = pos]
                         /\ origal_addr(c) <= pos /\ pos <= Limit(c)
  <2>1. CASE Char("tty") = "newline"
    <3>1. cursor' = [cursor EXCEPT ![c] = NextRow(c, reg["tty"])]
      BY <1>2, <2>1 DEF MoveCursor, Set
    <3>2. /\ origal_addr(c) <= reg["tty"]
          /\ reg["tty"] < Limit(c) - SCREEN_WIDTH + SysBurst
      BY <1>1, <1>2, <2>1 DEF CursorProgress
    <3> QED
      BY <1>3, <3>1, <3>2, NextRowFits
  <2>2. CASE Char("tty") = "backspace"
    <3>1. cursor' = [cursor EXCEPT ![c] = reg["tty"] - 1]
      BY <1>2, <2>2 DEF MoveCursor, Set
    <3>2. origal_addr(c) < reg["tty"] /\ reg["tty"] <= Limit(c)
      BY <1>1, <1>2, <2>2 DEF CursorProgress
    <3> DEFINE pos == reg["tty"] - 1
    <3>3. pos \in Int /\ origal_addr(c) <= pos /\ pos <= Limit(c)
      BY <1>2, <1>3, <3>2
    <3> HIDE DEF pos
    <3> QED
      BY <3>1, <3>3 DEF pos
  <2>3. CASE Char("tty") \notin {"newline", "backspace"}
    <3>1. cursor' = [cursor EXCEPT ![c] = reg["tty"] + 1]
      BY <1>2, <2>3 DEF MoveCursor, Set
    <3>2. origal_addr(c) <= reg["tty"] /\ reg["tty"] < Limit(c)
      BY <1>1, <1>2, <2>3 DEF CursorProgress
    <3> DEFINE pos == reg["tty"] + 1
    <3>3. pos \in Int /\ origal_addr(c) <= pos /\ pos <= Limit(c)
      BY <1>2, <1>3, <3>2
    <3> HIDE DEF pos
    <3> QED
      BY <3>1, <3>3 DEF pos
  <2> QED
    BY <2>1, <2>2, <2>3
<1>5. cursor'[c] = pos /\ \A d \in ConsoleId \ {c} : cursor'[d] = cursor[d]
  BY <1>4 DEF IInv, TypeOK
<1>6. PICK to \in {"erase", "while"} : Jump("tty", to)
  BY <1>1
<1>7. pc'["tty"] = to
  BY <1>6 DEF Jump, IInv, FlowTypes
<1>8. CursorProgress(c)' /\ WindowProgress(c)'
  BY <1>7 DEF CursorProgress, WindowProgress
<1>9. Home(c)'
  <2>1. Aligned(current_start_addr[c], c)'
    BY <1>1, <1>2 DEF Home, Aligned
  <2> QED
    BY <1>1, <1>2, <1>4, <1>5, <2>1 DEF Home
<1> QED
  BY <1>1, <1>2, <1>3, <1>5, <1>6, <1>8, <1>9, TtyGoesOn DEF PcType

\* scroll_screen().
LEMMA ScrollTestHome ==
  ASSUME IInv, HInv, IInv', ScrollTest("tty")
  PROVE  HInv'
<1>1. /\ pc["tty"] \in {"down", "up"} /\ Step("tty")
      /\ UNCHANGED <<cursor, current_start_addr>>
  BY DEF ScrollTest, At, Step, screen
<1>2. PICK c \in ConsoleId :
        /\ c = This("tty") /\ Home(c)
        /\ current_start_addr[c] \in Int /\ Limit(c) \in Int
  BY <1>1, TtyWorks
<1>3. Head(call["tty"]).op /= "init_screen"
  BY <1>1, TtyWorks
<1>4. Home(c)'
  BY <1>1, <1>2 DEF Home, Aligned
<1>5. \/ Jump("tty", "down_load") /\ RoomToScroll(c)
      \/ Jump("tty", "up_load") /\ current_start_addr[c] > origal_addr(c)
      \/ Jump("tty", "while")
      \/ Return("tty")
  BY <1>2 DEF ScrollTest, Goto
<1>6. CASE Jump("tty", "down_load") /\ RoomToScroll(c)
  <2>1. pc'["tty"] = "down_load"
    BY <1>6 DEF Jump, IInv, FlowTypes
  <2>2. current_start_addr'[c] + SCREEN_SIZE < Limit(c) + SCREEN_WIDTH
    BY <1>1, <1>2, <1>6, ConsoleAssumption DEF RoomToScroll
  <2>3. CursorProgress(c)' /\ WindowProgress(c)'
    BY <2>1, <2>2 DEF CursorProgress, WindowProgress
  <2> QED
    BY <1>1, <1>2, <1>3, <1>4, <1>6, <2>3, TtyGoesOn DEF PcType
<1>7. CASE Jump("tty", "up_load") /\ current_start_addr[c] > origal_addr(c)
  <2>1. pc'["tty"] = "up_load"
    BY <1>7 DEF Jump, IInv, FlowTypes
  <2>2. origal_addr(c) < current_start_addr'[c]
    BY <1>1, <1>2, <1>7, Places
  <2>3. CursorProgress(c)' /\ WindowProgress(c)'
    BY <2>1, <2>2 DEF CursorProgress, WindowProgress
  <2> QED
    BY <1>1, <1>2, <1>3, <1>4, <1>7, <2>3, TtyGoesOn DEF PcType
<1>8. CASE Jump("tty", "while")
  BY <1>1, <1>3, <1>8, TtyPlain DEF PcType, Tested
<1>9. CASE Return("tty")
  BY <1>1, <1>2, <1>4, <1>9, TtyReturns
<1> QED
  BY <1>5, <1>6, <1>7, <1>8, <1>9

LEMMA ScrollLoadHome ==
  ASSUME IInv, HInv, IInv', ScrollLoad("tty")
  PROVE  HInv'
<1>1. /\ Step("tty") /\ UNCHANGED <<cursor, current_start_addr>>
      /\ reg' = [reg EXCEPT !["tty"] = current_start_addr[This("tty")]]
      /\ \/ pc["tty"] = "down_load" /\ Jump("tty", "down_store")
         \/ pc["tty"] = "up_load" /\ Jump("tty", "up_store")
  BY DEF ScrollLoad, At, Step, Set, screen
<1>2. PICK c \in ConsoleId : c = This("tty") /\ Home(c) /\ WindowProgress(c)
  BY <1>1, TtyWorks
<1>3. Head(call["tty"]).op /= "init_screen"
  BY <1>1, TtyWorks
<1>4. Home(c)'
  BY <1>1, <1>2 DEF Home, Aligned
<1>5. reg'["tty"] = current_start_addr[c]
  BY <1>1, <1>2 DEF IInv, FlowTypes
<1>6. Aligned(reg["tty"], c)'
  BY <1>2, <1>5 DEF Home, Aligned
<1>7. PICK to \in {"down_store", "up_store"} :
        /\ Jump("tty", to)
        /\ to = "down_store" => pc["tty"] = "down_load"
        /\ to = "up_store" => pc["tty"] = "up_load"
  BY <1>1
<1>8. pc'["tty"] = to
  BY <1>7 DEF Jump, IInv, FlowTypes
<1>9. CursorProgress(c)'
  BY <1>8 DEF CursorProgress
<1>10. WindowProgress(c)'
  BY <1>2, <1>5, <1>6, <1>7, <1>8 DEF WindowProgress, Home
<1> QED
  BY <1>1, <1>2, <1>3, <1>4, <1>7, <1>9, <1>10, TtyGoesOn DEF PcType

LEMMA ScrollStoreHome ==
  ASSUME IInv, HInv, IInv', ScrollStore("tty")
  PROVE  HInv'
<1> USE ConsoleAssumption
<1>1. /\ Step("tty") /\ cursor' = cursor
      /\ \/ /\ pc["tty"] = "down_store"
            /\ Set(current_start_addr, This("tty"), reg["tty"] + SCREEN_WIDTH)
         \/ /\ pc["tty"] = "up_store"
            /\ Set(current_start_addr, This("tty"), reg["tty"] - SCREEN_WIDTH)
      /\ Return("tty") \/ Jump("tty", "while")
  BY DEF ScrollStore, At, Step, Goto
<1>2. PICK c \in ConsoleId :
        /\ c = This("tty") /\ Home(c) /\ WindowProgress(c)
        /\ origal_addr(c) \in Int /\ Limit(c) \in Int
  BY <1>1, TtyWorks
<1>3. Head(call["tty"]).op /= "init_screen" /\ reg["tty"] \in Int
  BY <1>1, TtyWorks, Typed
<1>4. PICK to \in Int : /\ current_start_addr' = [current_start_addr EXCEPT ![c] = to]
                        /\ Aligned(to, c) /\ to + SCREEN_SIZE < Limit(c) + 2 * SCREEN_WIDTH
  <2>1. CASE pc["tty"] = "down_store"
    <3>1. /\ current_start_addr' = [current_start_addr EXCEPT ![c] = reg["tty"] + SCREEN_WIDTH]
          /\ Aligned(reg["tty"], c) /\ reg["tty"] + SCREEN_SIZE < Limit(c) + SCREEN_WIDTH
      BY <1>1, <1>2, <2>1 DEF WindowProgress, Set
    <3>2. Aligned(reg["tty"] + SCREEN_WIDTH, c)
      BY <1>3, <3>1, AlignedRows
    <3> DEFINE to == reg["tty"] + SCREEN_WIDTH
    <3>3. to \in Int /\ to + SCREEN_SIZE < Limit(c) + 2 * SCREEN_WIDTH
      BY <1>2, <1>3, <3>1
    <3> HIDE DEF to
    <3> QED
      BY <3>1, <3>2, <3>3 DEF to
  <2>2. CASE pc["tty"] = "up_store"
    <3>1. /\ current_start_addr' = [current_start_addr EXCEPT ![c] = reg["tty"] - SCREEN_WIDTH]
          /\ Aligned(reg["tty"], c) /\ origal_addr(c) < reg["tty"]
          /\ reg["tty"] + SCREEN_SIZE < Limit(c) + 2 * SCREEN_WIDTH
      BY <1>1, <1>2, <2>2 DEF WindowProgress, Set
    <3>2. Aligned(reg["tty"] - SCREEN_WIDTH, c)
      BY <1>3, <3>1, AlignedRows
    <3> DEFINE to == reg["tty"] - SCREEN_WIDTH
    <3>3. to \in Int /\ to + SCREEN_SIZE < Limit(c) + 2 * SCREEN_WIDTH
      BY <1>2, <1>3, <3>1
    <3> HIDE DEF to
    <3> QED
      BY <3>1, <3>2, <3>3 DEF to
  <2> QED
    BY <1>1, <2>1, <2>2
<1>5. /\ current_start_addr'[c] = to
      /\ \A d \in ConsoleId \ {c} : current_start_addr'[d] = current_start_addr[d]
  BY <1>4 DEF IInv, TypeOK
<1>6. Home(c)'
  <2>1. Aligned(current_start_addr[c], c)'
    BY <1>4, <1>5 DEF Aligned
  <2> QED
    BY <1>1, <1>2, <1>4, <1>5, <2>1 DEF Home
<1>7. CASE Return("tty")
  BY <1>1, <1>2, <1>5, <1>6, <1>7, TtyReturns
<1>8. CASE Jump("tty", "while")
  <2>1. pc'["tty"] = "while"
    BY <1>8 DEF Jump, IInv, FlowTypes
  <2>2. CursorProgress(c)' /\ WindowProgress(c)'
    BY <2>1 DEF CursorProgress, WindowProgress
  <2> QED
    BY <1>1, <1>2, <1>3, <1>5, <1>6, <1>8, <2>2, TtyGoesOn DEF PcType
<1> QED
  BY <1>1, <1>7, <1>8

\* The other statements touch neither cursor nor window.
LEMMA TtyFlushHome ==
  ASSUME IInv, HInv, IInv',
         Flush("tty") \/ CursorArgument("tty") \/ EnableInt("tty")
  PROVE  HInv'
<1>1. /\ Step("tty") /\ pc["tty"] \in Moved /\ UNCHANGED <<cursor, current_start_addr>>
      /\ \/ Jump("tty", "start") \/ Jump("tty", "cursor_arg") \/ Jump("tty", "cursor")
         \/ Return("tty")
  BY DEF Flush, CursorArgument, EnableInt, At, Goto, Moved, Step, screen
<1>2. pc["tty"] \notin {"idle", "init"}
  BY <1>1 DEF Moved
<1>3. PICK c \in ConsoleId : c = This("tty") /\ Home(c)
  BY <1>1, <1>2, TtyWorks
<1>4. Head(call["tty"]).op /= "init_screen"
  BY <1>1, <1>2, TtyWorks
<1>5. CASE Return("tty")
  <2>1. Home(c)'
    BY <1>1, <1>3 DEF Home, Aligned
  <2> QED
    BY <1>1, <1>3, <1>5, <2>1, TtyReturns
<1>6. CASE ~Return("tty")
  <2>1. PICK to \in {"start", "cursor_arg", "cursor"} : Jump("tty", to)
    BY <1>1, <1>6
  <2> QED
    BY <1>1, <1>4, <2>1, TtyPlain DEF PcType, Tested
<1> QED
  BY <1>5, <1>6

LEMMA TtyStepHome ==
  ASSUME IInv, HInv, IInv', Step("tty")
  PROVE  HInv'
<1>1. CASE Call("tty")
  <2>1. /\ UNCHANGED <<cursor, current_start_addr>> /\ call["tty"] /= <<>>
        /\ Jump("tty", Entry[Head(call["tty"]).op])
    BY <1>1 DEF Call, Goto, screen
  <2>2. Head(call["tty"]).op \in DOMAIN Entry
    BY <2>1, CallTypes DEF CallType
  <2>3. PICK to \in {"vmem", "cursor_arg", "init", "select", "up", "down"} :
          /\ to = Entry[Head(call["tty"]).op]
          /\ to = "init" <=> Head(call["tty"]).op = "init_screen"
    BY <2>2 DEF Entry
  <2> QED
    BY <2>1, <2>3, TtyPlain DEF PcType, Tested
<1>2. CASE SelectConsole("tty") \/ VideoAddress("tty") \/ Erase("tty") \/ While("tty")
  <2>1. /\ UNCHANGED <<cursor, current_start_addr>> /\ pc["tty"] \notin {"idle", "init"}
        /\ \/ Jump("tty", "flush") \/ Jump("tty", "switch") \/ Jump("tty", "while")
           \/ Jump("tty", "down")
    BY <1>2 DEF SelectConsole, VideoAddress, Erase, While, At, Goto, screen
  <2>2. Head(call["tty"]).op /= "init_screen"
    BY <2>1, TtyWorks
  <2>3. PICK to \in {"flush", "switch", "while", "down"} : Jump("tty", to)
    BY <2>1
  <2> QED
    BY <2>1, <2>2, <2>3, TtyPlain DEF PcType, Tested
<1>3. CASE DisableInt("tty") \/ OutByte("tty")
  <2>1. UNCHANGED <<cursor, current_start_addr, pc, call, written, started, reg>>
    BY <1>3 DEF DisableInt, OutByte, screen, flow
  <2> QED
    BY <2>1, SameInv
<1> QED
  BY <1>1, <1>2, <1>3, InitFieldsHome, TestHome, StoreHome, LoadHome, MoveHome,
     ScrollTestHome, ScrollLoadHome, ScrollStoreHome, TtyFlushHome DEF Step

\* The calls that begin.
Before(n) == {k \in CallType : k.op /= "init_screen" /\ k.c < n}

LEMMA StartShape ==
  ASSUME NEW n \in Nat, n <= NR_CONSOLES
  PROVE  /\ StartCalls(n) /= <<>> /\ Len(StartCalls(n)) \in Nat /\ 1 <= Len(StartCalls(n))
         /\ Head(StartCalls(n)) = StartCalls(n)[1] /\ Head(StartCalls(n)).c <= n
         /\ n < NR_CONSOLES => StartCalls(n)[1] = InitScreen(n)
         /\ n = NR_CONSOLES => Head(StartCalls(n)).op /= "init_screen"
         /\ Tail(StartCalls(n)) \in Seq(Before(n + 1))
<1> USE ConsoleAssumption
<1>1. CASE n = NR_CONSOLES
  <2>1. StartCalls(n) = <<Select(0)>>
    BY <1>1 DEF StartCalls
  <2>2. Tail(StartCalls(n)) = <<>>
    BY <2>1
  <2>3. Tail(StartCalls(n)) \in Seq(Before(n + 1))
    BY <2>2, EmptySeq, Zenon
  <2>4. /\ StartCalls(n) /= <<>> /\ Len(StartCalls(n)) = 1
        /\ Head(StartCalls(n)) = Select(0) /\ StartCalls(n)[1] = Select(0)
    BY <2>1
  <2>5. Select(0).c = 0 /\ Select(0).op /= "init_screen"
    BY DEF Select
  <2> QED
    BY <1>1, <2>3, <2>4, <2>5
<1>2. CASE n = 0
  <2>1. StartCalls(n) = <<InitScreen(0), SetCursor(0)>>
    BY <1>2 DEF StartCalls
  <2>2. SetCursor(0) \in Before(n + 1)
    <3>1. SetCursor(0) \in CallType
      BY StepTypes DEF ConsoleId
    <3> QED
      BY <1>2, <3>1 DEF SetCursor, Before
  <2>3. Tail(StartCalls(n)) = <<SetCursor(0)>>
    BY <2>1
  <2>4. Tail(StartCalls(n)) \in Seq(Before(n + 1))
    <3>1. <<SetCursor(0)>> \in Seq(Before(n + 1))
      BY <2>2
    <3> QED
      BY <2>3, <3>1, Zenon
  <2>5. /\ StartCalls(n) /= <<>> /\ Len(StartCalls(n)) = 2
        /\ Head(StartCalls(n)) = InitScreen(0) /\ StartCalls(n)[1] = InitScreen(0)
    BY <2>1
  <2>6. InitScreen(0).c = 0
    BY DEF InitScreen
  <2> QED
    BY <1>2, <2>4, <2>5, <2>6
<1>3. CASE n /= 0 /\ n /= NR_CONSOLES
  <2>1. StartCalls(n) = <<InitScreen(n), OutChar(n, "x"), OutChar(n, "x"), SetCursor(n)>>
    BY <1>3 DEF StartCalls
  <2>2. OutChar(n, "x") \in Before(n + 1) /\ SetCursor(n) \in Before(n + 1)
    <3>1. n \in ConsoleId /\ "x" \in Chars
      BY <1>3 DEF ConsoleId, Chars
    <3>2. OutChar(n, "x") \in CallType /\ SetCursor(n) \in CallType
      BY <3>1, StepTypes
    <3> QED
      BY <3>2 DEF OutChar, SetCursor, Before
  <2>3. Tail(StartCalls(n)) = <<OutChar(n, "x"), OutChar(n, "x"), SetCursor(n)>>
    BY <2>1
  <2>4. Tail(StartCalls(n)) \in Seq(Before(n + 1))
    <3>1. <<OutChar(n, "x"), OutChar(n, "x"), SetCursor(n)>> \in Seq(Before(n + 1))
      BY <2>2
    <3> QED
      BY <2>3, <3>1, Zenon
  <2>5. /\ StartCalls(n) /= <<>> /\ Len(StartCalls(n)) = 4
        /\ Head(StartCalls(n)) = InitScreen(n) /\ StartCalls(n)[1] = InitScreen(n)
    BY <2>1
  <2>6. InitScreen(n).c = n
    BY DEF InitScreen
  <2> QED
    BY <1>3, <2>4, <2>5, <2>6
<1> QED
  BY <1>1, <1>2, <1>3

\* The TTY task begins a call.
LEMMA TtyBegins ==
  ASSUME IInv, HInv, Idle("tty"), Idle("sys"),
         UNCHANGED <<cursor, current_start_addr, pc, written>>,
         call'["sys"] = call["sys"], TtyCalls',
         \A c \in ConsoleId : Up(c)' => Up(c)
  PROVE  HInv'
<1>1. SysCalls' /\ SysProgress'
  BY NoSyscall DEF HInv, SysCalls
<1>2. Homes'
  BY DEF HInv, Homes, Home, Aligned
<1>3. TtyProgress'
  BY DEF TtyProgress, Idle
<1> QED
  BY <1>1, <1>2, <1>3 DEF HInv

LEMMA TtyStartHome ==
  ASSUME IInv, HInv, TtyStart
  PROVE  HInv'
<1> USE ConsoleAssumption
<1> DEFINE n == started
           s == StartCalls(n)
<1>1. /\ Idle("tty") /\ Idle("sys") /\ n \in Nat /\ n <= NR_CONSOLES
      /\ UNCHANGED <<cursor, current_start_addr, pc, written>>
      /\ started' = n + 1 /\ call' = [call EXCEPT !["tty"] = StartCalls(n)]
  BY Typed DEF TtyStart, Runs, Set, screen
<1>2. call'["tty"] = s /\ call'["sys"] = call["sys"]
  BY <1>1 DEF IInv, FlowTypes
<1>3. /\ s /= <<>> /\ Len(s) \in Nat /\ 1 <= Len(s) /\ Head(s) = s[1] /\ Head(s).c <= n
      /\ n < NR_CONSOLES => s[1] = InitScreen(n)
      /\ n = NR_CONSOLES => Head(s).op /= "init_screen"
      /\ Tail(s) \in Seq(Before(n + 1))
  BY <1>1, StartShape
<1>4. Head(s).c \in Int
  <2>1. s \in Seq(CallType)
    BY <1>1, StartTypes
  <2>2. Head(s) \in CallType
    BY <1>3, <2>1, HeadTailProperties
  <2> QED
    BY <2>2 DEF CallType, ConsoleId
<1> HIDE DEF s
<1>5. TtyCalls'
  <2>1. Later' = Before(n + 1)
    BY <1>1 DEF Later, Before
  <2>2. pc'["tty"] = "idle" /\ This("tty")' = Head(s).c
    BY <1>1, <1>2 DEF Idle, This
  <2>3. Head(s).c < n + 1
    BY <1>1, <1>3, <1>4
  <2>4. Head(s).op = "init_screen" => Head(s) = InitScreen(Head(s).c)
    <3>1. n < NR_CONSOLES \/ n = NR_CONSOLES
      BY <1>1
    <3> QED
      BY <1>3, <3>1 DEF InitScreen
  <2> QED
    BY <1>1, <1>2, <1>3, <2>1, <2>2, <2>3, <2>4 DEF TtyCalls
<1>6. ASSUME NEW c \in ConsoleId, Up(c)' PROVE Up(c)
  <2>1. c < n + 1 /\ \A i \in 1 .. Len(s) : s[i] /= InitScreen(c)
    BY <1>1, <1>2, <1>6 DEF Up
  <2>2. s[1] /= InitScreen(c)
    BY <1>3, <2>1
  <2>3. c /= n
    BY <1>1, <1>3, <2>2 DEF ConsoleId
  <2>4. c < n
    BY <1>1, <2>1, <2>3 DEF ConsoleId
  <2> QED
    BY <1>1, <2>4 DEF Up, Idle
<1> QED
  BY <1>1, <1>2, <1>5, <1>6, TtyBegins

LEMMA TtyCallHome ==
  ASSUME IInv, HInv, TtyCall
  PROVE  HInv'
<1> USE ConsoleAssumption
<1>1. /\ Idle("tty") /\ Idle("sys") /\ started' = started /\ started > NR_CONSOLES
      /\ started \in Nat
      /\ UNCHANGED <<cursor, current_start_addr, pc, written>>
  BY Typed DEF TtyCall, Runs, screen
<1>2. PICK c \in ConsoleId :
        \/ \E ch \in TtyChars : Set(call, "tty", <<OutChar(c, ch)>>)
        \/ Set(call, "tty", <<Select(c)>>)
        \/ Set(call, "tty", <<ScrollUp(c)>>)
        \/ Set(call, "tty", <<ScrollDown(c)>>)
  BY DEF TtyCall
<1>3. \E op \in DOMAIN Entry \ {"init_screen"}, ch \in Chars :
        call' = [call EXCEPT !["tty"] = <<[op |-> op, c |-> c, ch |-> ch]>>]
  BY <1>2 DEF Set, OutChar, Select, ScrollUp, ScrollDown, Entry, Chars
<1>4. PICK k \in [op : DOMAIN Entry \ {"init_screen"}, c : {c}, ch : Chars] :
        call' = [call EXCEPT !["tty"] = <<k>>]
  BY <1>3
<1>5. call'["tty"] = <<k>> /\ call'["sys"] = call["sys"] /\ k.c = c /\ k.op /= "init_screen"
  BY <1>4 DEF IInv, FlowTypes
<1>6. TtyCalls'
  <2>1. Head(<<k>>) = k /\ Tail(<<k>>) = <<>>
    OBVIOUS
  <2>2. c < started
    BY <1>1 DEF ConsoleId
  <2>3. Tail(<<k>>) \in Seq(Later')
    BY <2>1
  <2> QED
    BY <1>1, <1>5, <2>1, <2>2, <2>3 DEF TtyCalls, This, Idle
<1>7. ASSUME NEW d \in ConsoleId, Up(d)' PROVE Up(d)
  BY <1>1, <1>7 DEF Up, Idle
<1> QED
  BY <1>1, <1>5, <1>6, <1>7, TtyBegins

-----------------------------------------------------------------------------
LEMMA InitHome == Init => HInv
<1> SUFFICES ASSUME Init PROVE HInv
  OBVIOUS
<1>1. SysCalls
  <2>1. <<>> \in Seq({OutChar(TestBTty, "x")})
    OBVIOUS
  <2> QED
    BY <2>1 DEF Init, SysCalls, SysPc, Idle
<1>2. TtyCalls /\ SysProgress /\ TtyProgress
  BY DEF Init, TtyCalls, SysProgress, TtyProgress
<1>3. Homes
  BY DEF Init, Homes, Up, ConsoleId
<1> QED
  BY <1>1, <1>2, <1>3 DEF HInv

LEMMA NextHome ==
  ASSUME IInv, HInv, IInv', [Next]_vars
  PROVE  HInv'
<1>1. CASE UNCHANGED vars
  BY <1>1, SameInv DEF vars, screen, flow, locals
<1>2. CASE Next
  BY <1>2, TtyStartHome, TtyCallHome, SysWriteHome, SysStepHome, TtyStepHome DEF Next
<1> QED
  BY <1>1, <1>2

LEMMA HomeHolds == Spec => [](IInv /\ HInv)
<1>1. IInv /\ [Next]_vars => IInv'
  BY CallersInv, StepInv, StutterInv DEF Next
<1>2. IInv /\ HInv /\ [Next]_vars => (IInv /\ HInv)'
  BY <1>1, NextHome
<1> QED
  BY InitInv, InitHome, <1>2, PTL DEF Spec

\* out_char() and scroll_screen(): wherever a system call falls into what the TTY
\* task does, the cursor of a console that is up stays in its region or one past
\* it, and its window on rows of its region.
THEOREM CursorsNearHome == Spec => []NearHome
<1> USE ConsoleAssumption
<1>1. ASSUME IInv, HInv, NEW c \in ConsoleId, Up(c)
      PROVE  /\ cursor[c] \in Region(c) \union {Limit(c)}
             /\ current_start_addr[c] \in Region(c)
             /\ (current_start_addr[c] - origal_addr(c)) % SCREEN_WIDTH = 0
             /\ current_start_addr[c] + SCREEN_SIZE < Limit(c) + 2 * SCREEN_WIDTH
  <2>1. Home(c)
    BY <1>1 DEF HInv, Homes
  <2>2. /\ cursor[c] \in Int /\ current_start_addr[c] \in Int
        /\ origal_addr(c) \in Int /\ Limit(c) \in Int
    BY <1>1, Typed, Places
  <2>3. /\ origal_addr(c) <= current_start_addr[c]
        /\ (current_start_addr[c] - origal_addr(c)) % SCREEN_WIDTH = 0
    BY <2>1, <2>2, AlignedRows DEF Home
  <2>4. current_start_addr[c] < Limit(c)
    BY <2>1, <2>2, LayoutAssumption DEF Home
  <2> QED
    BY <2>1, <2>2, <2>3, <2>4 DEF Home, Region
<1>2. IInv /\ HInv => NearHome
  BY <1>1 DEF NearHome
<1> QED
  BY HomeHolds, <1>2, PTL

-----------------------------------------------------------------------------
(* The address that out_char() takes from the cursor on entry.             *)

\* The cursor may have moved on since, in a system call; if there are none, it has
\* not.
VInv ==
  /\ pc["sys"] \in {"switch", "store"} => p_vmem["sys"] = cursor[TestBTty]
  /\ SysBurst = 0 => Idle("sys")
  /\ \A c \in ConsoleId : pc["tty"] /= "idle" /\ c = This("tty") =>
       /\ pc["tty"] \in {"switch", "store"} =>
            origal_addr(c) <= p_vmem["tty"] /\ p_vmem["tty"] <= cursor[c]
       /\ SysBurst = 0 =>
            /\ pc["tty"] \in {"switch", "store", "load"} => p_vmem["tty"] = cursor[c]
            /\ pc["tty"] = "move" => p_vmem["tty"] = reg["tty"]
            /\ pc["tty"] = "erase" => p_vmem["tty"] - 1 \in Region(c)

LEMMA VmemOther ==
  ASSUME IInv, NEW a \in Party, Step(a)
  PROVE  \A b \in Party : b /= a => p_vmem'[b] = p_vmem[b]
BY DEF Step, Call, InitFields, SelectConsole, VideoAddress, Test, StoreChar,
   LoadCursor, MoveCursor, Erase, While, ScrollTest, ScrollLoad, ScrollStore, Flush,
   CursorArgument, DisableInt, OutByte, EnableInt, Goto, Return, Set, IInv, FlowTypes

\* Only MoveCursor and InitFields move a cursor.
LEMMA CursorStays ==
  ASSUME NEW a \in Party, Step(a), ~MoveCursor(a), ~InitFields(a)
  PROVE  cursor' = cursor
BY DEF Step, Call, SelectConsole, VideoAddress, Test, StoreChar, LoadCursor, Erase, While,
   ScrollTest, ScrollLoad, ScrollStore, Flush, CursorArgument, DisableInt, OutByte, EnableInt,
   screen

\* Where a step leads that does not return.
LEMMA Ways ==
  ASSUME IInv, NEW a \in Party, Step(a),
         pc'[a] \in {"switch", "store", "load", "move", "erase"}
  PROVE  /\ call' = call
         /\ \/ pc'[a] = "switch" /\ VideoAddress(a)
            \/ pc'[a] \in {"store", "load"} /\ Test(a)
            \/ pc'[a] = "load" /\ StoreChar(a)
            \/ pc'[a] = "move" /\ LoadCursor(a)
            \/ pc'[a] = "erase" /\ MoveCursor(a) /\ Char(a) = "backspace"
<1>1. pc \in [Party -> PcType]
  BY DEF IInv, FlowTypes
<1>2. CASE Call(a)
  <2>1. call[a] /= <<>> /\ pc' = [pc EXCEPT ![a] = Entry[Head(call[a]).op]]
    BY <1>2 DEF Call, Goto, Jump
  <2>2. Head(call[a]).op \in DOMAIN Entry
    BY <2>1, CallTypes DEF CallType
  <2> QED
    BY <1>1, <2>1, <2>2 DEF Entry
<1>3. CASE DisableInt(a) \/ OutByte(a)
  BY <1>3 DEF DisableInt, OutByte, flow
<1>4. CASE ~(Call(a) \/ DisableInt(a) \/ OutByte(a))
  BY <1>1, <1>4 DEF Step, InitFields, SelectConsole, VideoAddress, Test, StoreChar,
     LoadCursor, MoveCursor, Erase, While, ScrollTest, ScrollLoad, ScrollStore, Flush,
     CursorArgument, EnableInt, Goto, Jump, Return
<1> QED
  BY <1>2, <1>3, <1>4

LEMMA VmemSys ==
  ASSUME IInv, HInv, VInv, IInv', Step("sys")
  PROVE  VInv'
<1> USE ConsoleAssumption
<1>1. /\ call["sys"] /= <<>> /\ ~Idle("sys") /\ This("sys") = TestBTty
      /\ TestBTty \in ConsoleId
  BY StepOther, SysHere DEF HInv, Idle
<1>2. SysBurst /= 0
  BY <1>1 DEF VInv
<1>3. /\ pc'["tty"] = pc["tty"] /\ call'["tty"] = call["tty"]
      /\ p_vmem'["tty"] = p_vmem["tty"]
  BY StepOther, VmemOther
<1>4. \A c \in ConsoleId : cursor[c] <= cursor'[c]
  <2>1. CASE MoveCursor("sys")
    <3>1. pc["sys"] = "move" /\ reg["sys"] = cursor[TestBTty] /\ Char("sys") = "x"
      BY <1>1, <2>1, SysHere DEF MoveCursor, At, HInv, SysProgress
    <3>2. cursor' = [cursor EXCEPT ![TestBTty] = cursor[TestBTty] + 1]
      BY <1>1, <2>1, <3>1 DEF MoveCursor, Set
    <3>3. cursor \in [ConsoleId -> Int]
      BY DEF IInv, TypeOK
    <3> QED
      BY <1>1, <3>2, <3>3
  <2>2. CASE ~MoveCursor("sys")
    <3>1. pc["sys"] /= "init"
      BY DEF HInv, SysCalls, SysPc
    <3>2. cursor' = cursor
      BY <2>2, <3>1, CursorStays DEF InitFields, At
    <3> QED
      BY <3>2, Typed
  <2> QED
    BY <2>1, <2>2
<1>5. pc'["sys"] \in {"switch", "store"} => p_vmem'["sys"] = cursor'[TestBTty]
  <2> SUFFICES ASSUME pc'["sys"] \in {"switch", "store"}
               PROVE  p_vmem'["sys"] = cursor'[TestBTty]
    OBVIOUS
  <2>1. VideoAddress("sys") \/ Test("sys")
    BY Ways
  <2>2. CASE VideoAddress("sys")
    BY <1>1, <2>2 DEF VideoAddress, Set, screen, IInv, FlowTypes
  <2>3. CASE Test("sys")
    <3>1. pc["sys"] = "switch" /\ cursor' = cursor /\ p_vmem' = p_vmem
      BY <2>3 DEF Test, At, Goto, screen
    <3> QED
      BY <3>1 DEF VInv
  <2> QED
    BY <2>1, <2>2, <2>3
<1>6. ASSUME NEW c \in ConsoleId, c = This("tty")', pc'["tty"] \in {"switch", "store"}
      PROVE  origal_addr(c) <= p_vmem'["tty"] /\ p_vmem'["tty"] <= cursor'[c]
  <2>1. c = This("tty") /\ pc["tty"] \in {"switch", "store"}
    BY <1>3, <1>6 DEF This
  <2>2. origal_addr(c) <= p_vmem["tty"] /\ p_vmem["tty"] <= cursor[c]
    BY <2>1 DEF VInv
  <2>3. p_vmem["tty"] \in Int /\ cursor[c] \in Int /\ cursor'[c] \in Int
    BY Typed, TypedNext DEF IInv, FlowTypes
  <2> QED
    BY <1>3, <1>4, <2>2, <2>3
<1> QED
  BY <1>2, <1>5, <1>6 DEF VInv

LEMMA VmemTty ==
  ASSUME IInv, HInv, VInv, IInv', HInv', Step("tty")
  PROVE  VInv'
<1> USE ConsoleAssumption
<1>1. pc'["sys"] = "idle" /\ Idle("sys")'
  <2>1. Idle("sys") /\ pc'["sys"] = pc["sys"] /\ call'["sys"] = call["sys"]
    BY StepOther DEF Runs
  <2> QED
    BY <2>1 DEF Idle
<1> SUFFICES ASSUME NEW c \in ConsoleId, c = This("tty")',
                    pc'["tty"] \in {"switch", "store", "load", "move", "erase"}
    PROVE  /\ pc'["tty"] \in {"switch", "store"} =>
                origal_addr(c) <= p_vmem'["tty"] /\ p_vmem'["tty"] <= cursor'[c]
           /\ SysBurst = 0 =>
                /\ pc'["tty"] \in {"switch", "store", "load"} => p_vmem'["tty"] = cursor'[c]
                /\ pc'["tty"] = "move" => p_vmem'["tty"] = reg'["tty"]
                /\ pc'["tty"] = "erase" => p_vmem'["tty"] - 1 \in Region(c)
  BY <1>1 DEF VInv
<1>2. call' = call /\ c = This("tty")
  BY Ways DEF This
<1>3. /\ cursor[c] \in Int /\ origal_addr(c) \in Int /\ Limit(c) \in Int
      /\ reg["tty"] \in Int /\ p_vmem["tty"] \in Int
  BY Typed, Places DEF IInv, FlowTypes
<1>4. CASE VideoAddress("tty")
  <2>1. /\ pc["tty"] = "vmem" /\ pc'["tty"] = "switch" /\ cursor' = cursor
        /\ p_vmem'["tty"] = cursor[c]
    BY <1>2, <1>4 DEF VideoAddress, At, Jump, Set, screen, IInv, FlowTypes
  <2>2. Home(c)
    BY <1>2, <2>1, TtyHere
  <2> QED
    BY <1>3, <2>1, <2>2 DEF Home
<1>5. CASE Test("tty")
  <2>1. pc["tty"] = "switch" /\ cursor' = cursor /\ p_vmem' = p_vmem
        /\ pc'["tty"] \in {"store", "load", "while"}
    BY <1>5 DEF Test, At, Goto, Jump, screen, IInv, FlowTypes
  <2> QED
    BY <1>2, <2>1 DEF VInv
<1>6. CASE StoreChar("tty")
  <2>1. pc["tty"] = "store" /\ cursor' = cursor /\ p_vmem' = p_vmem /\ pc'["tty"] = "load"
    BY <1>6 DEF StoreChar, At, Goto, Jump, IInv, FlowTypes
  <2> QED
    BY <1>2, <2>1 DEF VInv
<1>7. CASE LoadCursor("tty")
  <2>1. /\ pc["tty"] = "load" /\ p_vmem' = p_vmem /\ pc'["tty"] = "move"
        /\ reg'["tty"] = cursor[c]
    BY <1>2, <1>7 DEF LoadCursor, At, Jump, Set, IInv, FlowTypes
  <2> QED
    BY <1>2, <2>1 DEF VInv
<1>8. CASE MoveCursor("tty") /\ Char("tty") = "backspace" /\ pc'["tty"] = "erase"
  <2>1. pc["tty"] = "move" /\ p_vmem' = p_vmem
    BY <1>8 DEF MoveCursor, At, Goto
  <2>2. origal_addr(c) < reg["tty"] /\ reg["tty"] <= Limit(c)
    BY <1>2, <1>8, <2>1 DEF HInv, TtyProgress, CursorProgress
  <2>3. reg["tty"] - 1 \in Region(c)
    BY <1>3, <2>2 DEF Region
  <2>4. SysBurst = 0 => p_vmem'["tty"] = reg["tty"]
    BY <1>2, <2>1 DEF VInv
  <2> QED
    BY <1>8, <2>3, <2>4
<1> QED
  BY <1>4, <1>5, <1>6, <1>7, <1>8, Ways

LEMMA VmemCallers ==
  ASSUME IInv, VInv, TtyStart \/ TtyCall \/ SysWrite
  PROVE  VInv'
<1> USE ConsoleAssumption
<1>1. CASE TtyStart \/ TtyCall
  <2>1. /\ pc' = pc /\ pc["tty"] = "idle" /\ pc["sys"] = "idle" /\ call["sys"] = <<>>
    BY <1>1 DEF TtyStart, TtyCall, Runs, Idle
  <2>2. \E calls : call' = [call EXCEPT !["tty"] = calls]
    BY <1>1 DEF TtyStart, TtyCall, Set
  <2>3. call'["sys"] = <<>>
    BY <2>1, <2>2 DEF IInv, FlowTypes
  <2> QED
    BY <2>1, <2>3 DEF VInv, Idle
<1>2. CASE SysWrite
  <2>1. /\ pc' = pc /\ pc["sys"] = "idle" /\ SysBurst /= 0
        /\ UNCHANGED <<cursor, p_vmem, reg>>
    BY <1>2 DEF SysWrite, Idle, screen, locals
  <2>2. call'["tty"] = call["tty"]
    BY <1>2 DEF SysWrite, Set, IInv, FlowTypes
  <2> QED
    BY <2>1, <2>2 DEF VInv, This, Idle
<1> QED
  BY <1>1, <1>2

LEMMA VmemHolds == Spec => [](IInv /\ HInv /\ VInv)
<1>1. IInv /\ [Next]_vars => IInv'
  BY CallersInv, StepInv, StutterInv DEF Next
<1>2. ASSUME IInv, HInv, VInv, IInv', HInv', [Next]_vars PROVE VInv'
  <2>1. CASE UNCHANGED vars
    <3>1. UNCHANGED <<pc, call, p_vmem, reg, cursor>>
      BY <2>1 DEF vars, screen, flow, locals
    <3> QED
      BY <1>2, <3>1 DEF VInv, Idle, This
  <2>2. CASE Next
    BY <1>2, <2>2, VmemCallers, VmemSys, VmemTty DEF Next
  <2> QED
    BY <1>2, <2>1, <2>2
<1>3. IInv /\ HInv /\ VInv /\ [Next]_vars => (IInv /\ HInv /\ VInv)'
  BY <1>1, <1>2, NextHome
<1>4. Init => VInv
  BY DEF Init, VInv, Idle
<1> QED
  BY InitInv, InitHome, <1>3, <1>4, PTL DEF Spec

\* A plain character is stored in the region.
LEMMA PlainAtHome ==
  ASSUME IInv, HInv, VInv, NEW a \in Party, pc[a] = "store"
  PROVE  p_vmem[a] \in Region(This(a))
<1> USE ConsoleAssumption
<1>1. p_vmem[a] \in Int
  BY DEF IInv, FlowTypes
<1>2. CASE a = "sys"
  <2>1. /\ This("sys") = TestBTty /\ TestBTty \in ConsoleId /\ Home(TestBTty)
    BY <1>2, InACall, SysHere DEF HInv, Homes
  <2>2. p_vmem["sys"] = cursor[TestBTty] /\ cursor[TestBTty] < Limit(TestBTty) - 1
    BY <1>2 DEF HInv, SysProgress, VInv
  <2>3. p_vmem["sys"] \in Region(TestBTty)
    BY <1>1, <1>2, <2>1, <2>2, Places DEF Home, Region
  <2> QED
    BY <1>2, <2>1, <2>3
<1>3. CASE a = "tty"
  <2>1. PICK c \in ConsoleId : c = This("tty")
    BY <1>3, TtyHere
  <2>2. CursorProgress(c) /\ origal_addr(c) <= p_vmem["tty"] /\ p_vmem["tty"] <= cursor[c]
    BY <1>3, <2>1 DEF HInv, TtyProgress, VInv
  <2>3. cursor[c] < Limit(c)
    BY <1>3, <2>2 DEF CursorProgress
  <2>4. p_vmem["tty"] \in Region(c)
    BY <1>1, <1>3, <2>2, <2>3, Places, Typed DEF Region
  <2> QED
    BY <1>3, <2>1, <2>4
<1> QED
  BY <1>2, <1>3

\* out_char(), default case: wherever a system call falls, a character goes into
\* the video memory of its own console.
THEOREM PlainStoresAtHome ==
  Spec => [](\A a \in Party : pc[a] = "store" => p_vmem[a] \in Region(This(a)))
<1>1. IInv /\ HInv /\ VInv =>
        \A a \in Party : pc[a] = "store" => p_vmem[a] \in Region(This(a))
  BY PlainAtHome
<1> QED
  BY VmemHolds, <1>1, PTL

\* out_char(), with the erasing of '\b': every store is at home if no system call
\* falls into it.
THEOREM SerialStoresAtHome == SysBurst = 0 => (Spec => []StoresAtHome)
<1> SUFFICES ASSUME SysBurst = 0 PROVE Spec => []StoresAtHome
  OBVIOUS
<1>1. ASSUME IInv, HInv, VInv PROVE StoresAtHome
  <2> SUFFICES ASSUME NEW a \in Party, pc[a] = "erase" PROVE p_vmem[a] - 1 \in Region(This(a))
    BY <1>1, PlainAtHome DEF StoresAtHome
  <2>1. a = "tty"
    BY <1>1 DEF HInv, SysCalls, SysPc
  <2>2. PICK c \in ConsoleId : c = This("tty")
    BY <1>1, <2>1, TtyHere
  <2>3. p_vmem["tty"] - 1 \in Region(c)
    BY <1>1, <2>1, <2>2 DEF VInv
  <2> QED
    BY <2>1, <2>2, <2>3
<1>2. IInv /\ HInv /\ VInv => StoresAtHome
  BY <1>1
<1> QED
  BY VmemHolds, <1>2, PTL
-----------------------------------------------------------------------------
(***************************************************************************)
(* What a console shows between two calls, when the TTY task works alone   *)
(* (SysBurst = 0).                                                         *)
(***************************************************************************)

\* One cell may hold a character at the cursor: the one that has been stored and
\* not yet passed, or the one that has been passed back and not yet erased.
Slack(c) ==
  /\ pc["tty"] /= "idle" /\ c = This("tty")
  /\ \/ pc["tty"] \in {"load", "move"} /\ Char("tty") /= "backspace"
     \/ pc["tty"] = "erase"

\* What is in the region of a console that is up, and where its cursor is.
Written(c) ==
  /\ cursor[c] \in Region(c)
  /\ \A addr \in ink \intersect Region(c) :
       addr < cursor[c] \/ (addr = cursor[c] /\ Slack(c))

\* Nobody else moves the cursor: what was tested and loaded is still so.
Steady(c) ==
  /\ pc["tty"] \in {"store", "load", "move"} =>
       /\ Char("tty") = "newline" => cursor[c] < Limit(c) - SCREEN_WIDTH
       /\ Char("tty") \notin {"newline", "backspace"} => cursor[c] < Limit(c) - 1
  /\ pc["tty"] = "move" => reg["tty"] = cursor[c]
  /\ pc["tty"] = "erase" => p_vmem["tty"] - 1 = cursor[c]

EInv ==
  /\ ink \subseteq Int
  /\ \A c \in ConsoleId : IF Up(c) THEN Written(c) ELSE ink \intersect Region(c) = {}
  /\ \A c \in ConsoleId : pc["tty"] /= "idle" /\ c = This("tty") => Steady(c)

Inv == SysBurst = 0 /\ IInv /\ HInv /\ VInv

-----------------------------------------------------------------------------
LEMMA OnlyTty ==
  ASSUME Inv, Next
  PROVE  TtyStart \/ TtyCall \/ Step("tty")
<1>1. ~SysWrite
  BY DEF Inv, SysWrite
<1>2. ~Step("sys")
  <2> SUFFICES ASSUME Step("sys") PROVE FALSE
    OBVIOUS
  <2>1. call["sys"] /= <<>>
    BY StepOther DEF Inv
  <2> QED
    BY <2>1 DEF Inv, VInv, Idle
<1> QED
  BY <1>1, <1>2 DEF Next

\* The regions of two consoles have no cell in common.
LEMMA RegionsApart ==
  ASSUME NEW c \in ConsoleId, NEW d \in ConsoleId, c /= d, NEW addr \in Region(c)
  PROVE  addr \notin Region(d)
<1> DEFINE v == V_MEM_LIMIT
<1>1. v \in Nat \ {0} /\ c \in Int /\ d \in Int
  BY ConsoleAssumption DEF ConsoleId
<1>2. /\ v * c \in Int /\ v * d \in Int
      /\ v * (c + 1) = v * c + v /\ v * (d + 1) = v * d + v
      /\ c + 1 <= d => v * (c + 1) <= v * d
      /\ d + 1 <= c => v * (d + 1) <= v * c
  BY <1>1, Products
<1>3. c + 1 <= d \/ d + 1 <= c
  BY <1>1
<1>4. /\ origal_addr(c) = v * c /\ Limit(c) = v * c + v
      /\ origal_addr(d) = v * d /\ Limit(d) = v * d + v
  <2>1. c * v = v * c /\ d * v = v * d
    BY <1>1
  <2> QED
    BY <2>1 DEF origal_addr, Limit
<1> HIDE DEF v
<1> QED
  BY <1>1, <1>2, <1>3, <1>4 DEF Region

\* Only init_screen() brings a console up.
LEMMA UpAfter ==
  ASSUME Inv, Step("tty"), NEW c \in ConsoleId
  PROVE  /\ Up(c) => Up(c)'
         /\ Up(c)' => Up(c) \/ (InitFields("tty") /\ c = This("tty"))
<1> DEFINE s == call["tty"]
<1> USE DEF Inv
<1>1. s /= <<>> /\ s \in Seq(CallType) /\ started' = started
  BY StepOther, CallSeq
<1>2. \/ call' = call
      \/ call'["tty"] = Tail(s) /\ (pc["tty"] = "init" => InitFields("tty"))
  BY DEF Step, Call, InitFields, SelectConsole, VideoAddress, Test, StoreChar,
     LoadCursor, MoveCursor, Erase, While, ScrollTest, ScrollLoad, ScrollStore, Flush,
     CursorArgument, DisableInt, OutByte, EnableInt, Goto, Jump, Return, At, flow, IInv, FlowTypes
<1>3. CASE call' = call
  BY <1>1, <1>3 DEF Up
<1>4. CASE call'["tty"] = Tail(s) /\ (pc["tty"] = "init" => InitFields("tty"))
  <2>1. /\ Len(s) \in Nat /\ 1 <= Len(s) /\ Head(s) = s[1]
        /\ Len(Tail(s)) = Len(s) - 1
        /\ \A i \in 1 .. Len(Tail(s)) : Tail(s)[i] = s[i + 1]
    BY <1>1, HeadTailProperties, EmptySeq
  <2>2. ASSUME Up(c) PROVE Up(c)'
    <3>1. \A i \in 1 .. Len(Tail(s)) : Tail(s)[i] /= InitScreen(c)
      <4> SUFFICES ASSUME NEW i \in 1 .. Len(Tail(s)) PROVE Tail(s)[i] /= InitScreen(c)
        OBVIOUS
      <4>1. i + 1 \in 1 .. Len(s) /\ Tail(s)[i] = s[i + 1]
        BY <2>1
      <4> QED
        BY <2>2, <4>1 DEF Up
    <3> QED
      BY <1>1, <1>4, <2>2, <3>1 DEF Up
  <2>3. ASSUME Up(c)' PROVE Up(c) \/ (InitFields("tty") /\ c = This("tty"))
    <3>1. c < started
      BY <1>1, <2>3 DEF Up
    <3>2. CASE Head(s) /= InitScreen(c)
      BY <3>1, <3>2, UpForm DEF HInv, UpNow
    <3>3. CASE Head(s) = InitScreen(c)
      <4>1. Head(s).op = "init_screen" /\ c = This("tty")
        BY <3>3 DEF InitScreen, This
      <4>2. pc["tty"] \in {"idle", "init"}
        BY <1>1, <4>1, TtyHere
      <4>3. pc["tty"] /= "idle"
        <5> SUFFICES ASSUME pc["tty"] = "idle" PROVE FALSE
          OBVIOUS
        <5>0. Call("tty")
          BY DEF Step, InitFields, SelectConsole, VideoAddress, Test, StoreChar,
             LoadCursor, MoveCursor, Erase, While, ScrollTest, ScrollLoad, ScrollStore, Flush,
             CursorArgument, DisableInt, OutByte, EnableInt, At
        <5>1. call' = call
          BY <5>0 DEF Call, Goto, Jump
        <5>2. s = Tail(s)
          BY <1>4, <5>1
        <5>3. Len(Tail(s)) = Len(s)
          BY <5>2
        <5> QED
          BY <2>1, <5>3
      <4> QED
        BY <1>4, <4>1, <4>2, <4>3
    <3> QED
      BY <3>2, <3>3
  <2> QED
    BY <2>2, <2>3
<1> QED
  BY <1>2, <1>3, <1>4

-----------------------------------------------------------------------------
(* What is in the regions.                                                 *)

\* Steps that leave the regions and their cursors alone.
LEMMA IdleEnd ==
  ASSUME Inv, EInv, Step("tty"), ~InitFields("tty"), UNCHANGED <<cursor, ink>>,
         pc["tty"] \notin {"store", "load", "move", "erase"},
         pc'["tty"] \notin {"store", "load", "move", "erase"}
  PROVE  EInv'
<1>1. ink' \subseteq Int
  BY DEF EInv
<1>2. ASSUME NEW c \in ConsoleId
      PROVE  IF Up(c)' THEN Written(c)' ELSE ink' \intersect Region(c) = {}
  <2>1. Up(c)' <=> Up(c)
    BY UpAfter
  <2>2. CASE Up(c)
    <3>1. Written(c) /\ ~Slack(c)
      BY <2>2 DEF EInv, Slack
    <3> QED
      BY <2>1, <2>2, <3>1 DEF Written
  <2>3. CASE ~Up(c)
    BY <2>1, <2>3 DEF EInv
  <2> QED
    BY <2>2, <2>3
<1>3. ASSUME NEW c \in ConsoleId PROVE Steady(c)'
  BY DEF Steady
<1> QED
  BY <1>1, <1>2, <1>3 DEF EInv

\* A step on console c, which is up: what has to be shown of it, and that the
\* stores of the others are not touched.
LEMMA WorkEnd ==
  ASSUME Inv, EInv, Step("tty"), ~InitFields("tty"), NEW c \in ConsoleId, c = This("tty"),
         pc["tty"] \notin {"idle", "init"}, ink' \subseteq Int, call' = call,
         \A d \in ConsoleId \ {c} :
           cursor'[d] = cursor[d] /\ ink' \intersect Region(d) = ink \intersect Region(d),
         Written(c)', Steady(c)'
  PROVE  EInv'
<1>1. Up(c)
  BY TtyHere DEF Inv
<1>2. ASSUME NEW d \in ConsoleId
      PROVE  IF Up(d)' THEN Written(d)' ELSE ink' \intersect Region(d) = {}
  <2>1. Up(d)' <=> Up(d)
    BY UpAfter
  <2>2. CASE d = c
    BY <1>1, <2>1, <2>2
  <2>3. CASE d /= c /\ Up(d)
    <3>1. Written(d) /\ ~Slack(d)
      BY <2>3 DEF EInv, Slack
    <3> QED
      BY <2>1, <2>3, <3>1 DEF Written
  <2>4. CASE d /= c /\ ~Up(d)
    BY <2>1, <2>4 DEF EInv
  <2> QED
    BY <2>2, <2>3, <2>4
<1>3. ASSUME NEW d \in ConsoleId, d = This("tty")' PROVE Steady(d)'
  <2>1. d = c
    BY <1>3 DEF This
  <2> QED
    BY <2>1
<1> QED
  BY <1>2, <1>3 DEF EInv

\* The console of a step, and what is known of it.
LEMMA WorkHere ==
  ASSUME Inv, EInv, Step("tty"), pc["tty"] \notin {"idle", "init"}
  PROVE  \E c \in ConsoleId :
           /\ c = This("tty") /\ Up(c) /\ Home(c) /\ Written(c) /\ Steady(c)
           /\ cursor[c] \in Int /\ origal_addr(c) \in Int /\ Limit(c) \in Int
           /\ CursorProgress(c)
           /\ pc["tty"] \in {"switch", "store", "load"} => p_vmem["tty"] = cursor[c]
           /\ pc["tty"] = "move" => p_vmem["tty"] = reg["tty"]
<1> USE DEF Inv
<1>1. PICK c \in ConsoleId :
        /\ c = This("tty") /\ Home(c) /\ CursorProgress(c)
        /\ cursor[c] \in Int /\ origal_addr(c) \in Int /\ Limit(c) \in Int
  BY TtyWorks
<1>2. Up(c)
  BY <1>1, TtyHere
<1>3. Written(c) /\ Steady(c)
  BY <1>1, <1>2 DEF EInv
<1>4. /\ pc["tty"] \in {"switch", "store", "load"} => p_vmem["tty"] = cursor[c]
      /\ pc["tty"] = "move" => p_vmem["tty"] = reg["tty"]
  BY <1>1 DEF VInv
<1> QED
  BY <1>1, <1>2, <1>3, <1>4

LEMMA TestEnd ==
  ASSUME Inv, EInv, Test("tty")
  PROVE  EInv'
<1> USE ConsoleAssumption
<1>1. /\ Step("tty") /\ ~InitFields("tty") /\ pc["tty"] = "switch" /\ UNCHANGED <<cursor, ink>>
      /\ Jump("tty", IF ~Fits("tty") THEN "while"
                     ELSE IF Char("tty") = "x" THEN "store" ELSE "load")
  BY DEF Test, At, Step, InitFields, Goto, screen
<1>2. PICK c \in ConsoleId : c = This("tty") /\ Written(c)
  BY <1>1, WorkHere
<1>3. call' = call /\ pc'["tty"] \in {"while", "store", "load"}
      /\ (pc'["tty"] \in {"store", "load"} => Fits("tty"))
  BY <1>1 DEF Jump, Inv, IInv, FlowTypes
<1>4. Steady(c)'
  <2>1. Char("tty")' = Char("tty")
    BY <1>3 DEF Char
  <2> QED
    BY <1>1, <1>2, <1>3, <2>1 DEF Steady, Fits
<1>5. Written(c)'
  BY <1>1, <1>2 DEF Written, Slack
<1>6. ink' \subseteq Int
  BY <1>1 DEF EInv
<1> QED
  BY <1>1, <1>2, <1>3, <1>4, <1>5, <1>6, WorkEnd

LEMMA StoreEnd ==
  ASSUME Inv, EInv, StoreChar("tty")
  PROVE  EInv'
<1>1. /\ Step("tty") /\ ~InitFields("tty") /\ pc["tty"] = "store" /\ cursor' = cursor
      /\ ink' = ink \union ({p_vmem["tty"]} \intersect Watched)
      /\ Jump("tty", "load")
  BY DEF StoreChar, At, Step, InitFields, Goto
<1>2. PICK c \in ConsoleId :
        /\ c = This("tty") /\ Written(c) /\ Steady(c) /\ CursorProgress(c)
        /\ p_vmem["tty"] = cursor[c] /\ cursor[c] \in Int
  BY <1>1, WorkHere
<1>3. call' = call /\ pc'["tty"] = "load" /\ Char("tty")' = Char("tty") /\ c = This("tty")'
  BY <1>1, <1>2 DEF Jump, Char, This, Inv, IInv, FlowTypes
<1>4. Char("tty") = "x"
  BY <1>1, <1>2 DEF CursorProgress
<1>5. Steady(c)'
  BY <1>1, <1>2, <1>3 DEF Steady
<1>6. Slack(c)'
  BY <1>3, <1>4 DEF Slack
<1>7. Written(c)'
  BY <1>1, <1>2, <1>6 DEF Written
<1>8. ASSUME NEW d \in ConsoleId \ {c}
      PROVE  cursor'[d] = cursor[d] /\ ink' \intersect Region(d) = ink \intersect Region(d)
  <2>1. p_vmem["tty"] \notin Region(d)
    BY <1>2, RegionsApart DEF Written
  <2> QED
    BY <1>1, <2>1
<1>9. ink' \subseteq Int
  BY <1>1, <1>2 DEF EInv
<1> QED
  BY <1>1, <1>2, <1>3, <1>5, <1>7, <1>8, <1>9, WorkEnd

LEMMA LoadEnd ==
  ASSUME Inv, EInv, LoadCursor("tty")
  PROVE  EInv'
<1>1. /\ Step("tty") /\ ~InitFields("tty") /\ pc["tty"] = "load" /\ UNCHANGED <<cursor, ink>>
      /\ reg' = [reg EXCEPT !["tty"] = cursor[This("tty")]]
      /\ Jump("tty", "move")
  BY DEF LoadCursor, At, Step, InitFields, Set, screen
<1>2. PICK c \in ConsoleId : c = This("tty") /\ Written(c) /\ Steady(c)
  BY <1>1, WorkHere
<1>3. /\ call' = call /\ pc'["tty"] = "move" /\ Char("tty")' = Char("tty")
      /\ c = This("tty")' /\ reg'["tty"] = cursor[c]
  BY <1>1, <1>2 DEF Jump, Char, This, Inv, IInv, FlowTypes
<1>4. Steady(c)'
  BY <1>1, <1>2, <1>3 DEF Steady
<1>5. Slack(c) => Slack(c)'
  BY <1>1, <1>2, <1>3 DEF Slack
<1>6. Written(c)'
  BY <1>1, <1>2, <1>5 DEF Written
<1>7. ink' \subseteq Int
  BY <1>1 DEF EInv
<1> QED
  BY <1>1, <1>2, <1>3, <1>4, <1>6, <1>7, WorkEnd

\* '\n' goes on by a cell at least and by a row at most.
LEMMA NextRowStep ==
  ASSUME NEW c \in ConsoleId, NEW pos \in Int
  PROVE  NextRow(c, pos) \in Int /\ pos < NextRow(c, pos) /\ NextRow(c, pos) <= pos + SCREEN_WIDTH
<1> DEFINE w == SCREEN_WIDTH
           d == pos - origal_addr(c)
           x == d \div w
<1>1. w \in Nat \ {0} /\ d \in Int /\ origal_addr(c) \in Int
  BY ConsoleAssumption, Places
<1>2. NextRow(c, pos) = origal_addr(c) + w * (x + 1) /\ pos = origal_addr(c) + d
  BY <1>1 DEF NextRow
<1> HIDE DEF w, d
<1>3. x \in Int /\ d = w * x + (d % w) /\ 0 <= d % w /\ d % w < w /\ d % w \in Int
  BY <1>1, Products, SMTT(30)
<1> HIDE DEF x
<1>4. w * x \in Int /\ w * (x + 1) = w * x + w
  BY <1>1, <1>3, Products
<1> QED
  BY <1>1, <1>2, <1>3, <1>4 DEF w

LEMMA MoveEnd ==
  ASSUME Inv, EInv, MoveCursor("tty")
  PROVE  EInv'
<1> USE ConsoleAssumption
<1>1. /\ Step("tty") /\ ~InitFields("tty") /\ pc["tty"] = "move" /\ ink' = ink
      /\ Jump("tty", IF Char("tty") = "backspace" THEN "erase" ELSE "while")
      /\ p_vmem' = p_vmem
  BY DEF MoveCursor, At, Step, InitFields, Goto
<1>2. PICK c \in ConsoleId :
        /\ c = This("tty") /\ Home(c) /\ Written(c) /\ Steady(c) /\ CursorProgress(c)
        /\ cursor[c] \in Int /\ origal_addr(c) \in Int /\ Limit(c) \in Int
        /\ p_vmem["tty"] = reg["tty"]
  BY <1>1, WorkHere
<1>3. reg["tty"] = cursor[c]
  BY <1>1, <1>2 DEF Steady
<1>4. /\ call' = call /\ Char("tty")' = Char("tty") /\ c = This("tty")'
      /\ pc'["tty"] = IF Char("tty") = "backspace" THEN "erase" ELSE "while"
  BY <1>1, <1>2 DEF Jump, Char, This, Inv, IInv, FlowTypes
<1>5. PICK pos \in Int :
        /\ cursor' = [cursor EXCEPT ![c] = pos]
        /\ origal_addr(c) <= pos /\ pos < Limit(c)
        /\ IF Char("tty") = "backspace" THEN pos = cursor[c] - 1 ELSE cursor[c] < pos
  <2>1. CASE Char("tty") = "newline"
    <3> DEFINE pos == NextRow(c, cursor[c])
    <3>1. cursor' = [cursor EXCEPT ![c] = pos]
      BY <1>2, <1>3, <2>1 DEF MoveCursor, Set
    <3>2. cursor[c] < Limit(c) - SCREEN_WIDTH /\ origal_addr(c) <= cursor[c]
      BY <1>1, <1>2, <2>1 DEF Steady, Home
    <3>3. pos \in Int /\ cursor[c] < pos /\ pos <= cursor[c] + SCREEN_WIDTH
      BY <1>2, NextRowStep
    <3> HIDE DEF pos
    <3>4. origal_addr(c) <= pos /\ pos < Limit(c)
      BY <1>2, <3>2, <3>3
    <3> QED
      BY <2>1, <3>1, <3>3, <3>4
  <2>2. CASE Char("tty") = "backspace"
    <3> DEFINE pos == cursor[c] - 1
    <3>1. cursor' = [cursor EXCEPT ![c] = pos]
      BY <1>2, <1>3, <2>2 DEF MoveCursor, Set
    <3>2. origal_addr(c) < cursor[c] /\ cursor[c] <= Limit(c)
      BY <1>1, <1>2, <1>3, <2>2 DEF CursorProgress
    <3>3. pos \in Int /\ origal_addr(c) <= pos /\ pos < Limit(c) /\ pos = cursor[c] - 1
      BY <1>2, <3>2
    <3> HIDE DEF pos
    <3> QED
      BY <2>2, <3>1, <3>3
  <2>3. CASE Char("tty") \notin {"newline", "backspace"}
    <3> DEFINE pos == cursor[c] + 1
    <3>1. cursor' = [cursor EXCEPT ![c] = pos]
      BY <1>2, <1>3, <2>3 DEF MoveCursor, Set
    <3>2. cursor[c] < Limit(c) - 1 /\ origal_addr(c) <= cursor[c]
      BY <1>1, <1>2, <2>3 DEF Steady, Home
    <3>3. pos \in Int /\ origal_addr(c) <= pos /\ pos < Limit(c) /\ cursor[c] < pos
      BY <1>2, <3>2
    <3> HIDE DEF pos
    <3> QED
      BY <2>3, <3>1, <3>3
  <2> QED
    BY <2>1, <2>2, <2>3
<1>6. cursor'[c] = pos /\ \A d \in ConsoleId \ {c} : cursor'[d] = cursor[d]
  BY <1>5 DEF Inv, IInv, TypeOK
<1>7. Steady(c)'
  BY <1>1, <1>2, <1>3, <1>4, <1>5, <1>6 DEF Steady
<1>8. Written(c)'
  <2>1. cursor'[c] \in Region(c)
    BY <1>2, <1>5, <1>6 DEF Region
  <2>2. ASSUME NEW addr \in ink \intersect Region(c)
        PROVE  addr < pos \/ (addr = pos /\ Slack(c)')
    <3>1. addr \in Int
      BY DEF EInv
    <3>2. addr < cursor[c] \/ (addr = cursor[c] /\ Slack(c))
      BY <1>2, <2>2 DEF Written
    <3>3. CASE Char("tty") = "backspace"
      <4>1. addr < cursor[c]
        BY <1>1, <3>2, <3>3 DEF Slack
      <4>2. Slack(c)'
        BY <1>4, <3>3 DEF Slack
      <4> QED
        BY <1>2, <1>5, <3>1, <3>3, <4>1, <4>2
    <3>4. CASE Char("tty") /= "backspace"
      BY <1>2, <1>5, <3>1, <3>2, <3>4
    <3> QED
      BY <3>3, <3>4
  <2> QED
    BY <1>1, <1>6, <2>1, <2>2 DEF Written
<1>9. ink' \subseteq Int
  BY <1>1 DEF EInv
<1> QED
  BY <1>1, <1>2, <1>4, <1>6, <1>7, <1>8, <1>9, WorkEnd

LEMMA EraseEnd ==
  ASSUME Inv, EInv, Erase("tty")
  PROVE  EInv'
<1>1. /\ Step("tty") /\ ~InitFields("tty") /\ pc["tty"] = "erase" /\ cursor' = cursor
      /\ ink' = ink \ {p_vmem["tty"] - 1} /\ Jump("tty", "while")
  BY DEF Erase, At, Step, InitFields, Goto
<1>2. PICK c \in ConsoleId :
        c = This("tty") /\ Written(c) /\ Steady(c)
  BY <1>1, WorkHere
<1>3. call' = call /\ pc'["tty"] = "while"
  BY <1>1 DEF Jump, Inv, IInv, FlowTypes
<1>4. p_vmem["tty"] - 1 = cursor[c]
  BY <1>1, <1>2 DEF Steady
<1>5. Steady(c)'
  BY <1>3 DEF Steady
<1>6. Written(c)'
  BY <1>1, <1>2, <1>4 DEF Written
<1>7. ASSUME NEW d \in ConsoleId \ {c}
      PROVE  cursor'[d] = cursor[d] /\ ink' \intersect Region(d) = ink \intersect Region(d)
  <2>1. cursor[c] \notin Region(d)
    BY <1>2, RegionsApart DEF Written
  <2> QED
    BY <1>1, <1>4, <2>1
<1>8. ink' \subseteq Int
  BY <1>1 DEF EInv
<1> QED
  BY <1>1, <1>2, <1>3, <1>5, <1>6, <1>7, <1>8, WorkEnd

\* init_screen(): nothing has been stored yet.
LEMMA InitEnd ==
  ASSUME Inv, EInv, InitFields("tty")
  PROVE  EInv'
<1> USE ConsoleAssumption
<1>1. Step("tty") /\ ink' = ink /\ pc["tty"] = "init" /\ pc'["tty"] = "idle"
  BY DEF InitFields, Step, At, Return, Inv, IInv, FlowTypes
<1>2. PICK c \in ConsoleId : c = This("tty")
  BY <1>1, StepOther DEF Inv
<1>3. PICK pos \in IF c = 0 THEN DispPos ELSE {origal_addr(c)} :
        cursor' = [cursor EXCEPT ![c] = pos]
  BY <1>2 DEF InitFields, Set
<1>4. cursor'[c] = pos /\ \A d \in ConsoleId \ {c} : cursor'[d] = cursor[d]
  BY <1>3 DEF Inv, IInv, TypeOK
<1>5. pos \in Region(c)
  <2>1. CASE c = 0
    <3>1. origal_addr(c) = 0 /\ Limit(c) = V_MEM_LIMIT
      BY <2>1, Places DEF origal_addr
    <3> QED
      BY <1>3, <2>1, <3>1 DEF Region
  <2>2. CASE c /= 0
    BY <1>3, <2>2, Places DEF Region
  <2> QED
    BY <2>1, <2>2
<1>6. ~Up(c)
  <2>1. Head(call["tty"]) = InitScreen(c)
    <3>1. call["tty"] /= <<>>
      BY <1>1, StepOther DEF Inv
    <3> QED
      BY <1>1, <1>2, <3>1 DEF Inv, HInv, TtyCalls
  <2>2. call["tty"] /= <<>>
    BY <1>1, StepOther DEF Inv
  <2> QED
    BY <2>1, <2>2, UpForm DEF Inv, HInv, UpNow
<1>7. ASSUME NEW d \in ConsoleId
      PROVE  IF Up(d)' THEN Written(d)' ELSE ink' \intersect Region(d) = {}
  <2>1. CASE d = c
    <3>1. ink \intersect Region(c) = {}
      BY <1>6 DEF EInv
    <3> QED
      BY <1>1, <1>4, <1>5, <2>1, <3>1 DEF Written
  <2>2. CASE d /= c
    <3>1. Up(d)' <=> Up(d)
      BY <1>1, <1>2, <2>2, UpAfter
    <3>2. Up(d) => Written(d) /\ ~Slack(d)
      BY <1>1 DEF EInv, Slack
    <3>3. ~Up(d) => ink \intersect Region(d) = {}
      BY DEF EInv
    <3> QED
      BY <1>1, <1>4, <2>2, <3>1, <3>2, <3>3 DEF Written
  <2> QED
    BY <2>1, <2>2
<1> QED
  BY <1>1, <1>7 DEF EInv

\* All the other statements of the TTY task.
LEMMA OtherEnd ==
  ASSUME Inv, EInv, Step("tty"),
         ~(\/ InitFields("tty") \/ Test("tty") \/ StoreChar("tty") \/ LoadCursor("tty")
           \/ MoveCursor("tty") \/ Erase("tty"))
  PROVE  EInv'
<1>1. cursor' = cursor
  BY CursorStays
<1>2. ink' = ink
  BY DEF Step, Call, SelectConsole, VideoAddress, While, ScrollTest, ScrollLoad, ScrollStore,
     Flush, CursorArgument, DisableInt, OutByte, EnableInt, screen
<1>3. pc["tty"] \notin {"store", "load", "move", "erase"}
  BY DEF Step, Call, SelectConsole, VideoAddress, While, ScrollTest, ScrollLoad, ScrollStore,
     Flush, CursorArgument, DisableInt, OutByte, EnableInt, At
<1>4. pc'["tty"] \notin {"store", "load", "move", "erase"}
  BY Ways DEF Inv
<1> QED
  BY <1>1, <1>2, <1>3, <1>4, IdleEnd

-----------------------------------------------------------------------------
(* The callers.                                                            *)

\* A call begins, and no console has come up or gone.
LEMMA BeginEnd ==
  ASSUME EInv, UNCHANGED <<cursor, ink, pc>>, pc["tty"] = "idle",
         \A c \in ConsoleId : Up(c)' <=> Up(c)
  PROVE  EInv'
<1>1. ASSUME NEW c \in ConsoleId
      PROVE  IF Up(c)' THEN Written(c)' ELSE ink' \intersect Region(c) = {}
  <2>1. ~Slack(c)
    BY DEF Slack
  <2> QED
    BY <2>1 DEF EInv, Written
<1> QED
  BY <1>1 DEF EInv

LEMMA TtyStartEnd ==
  ASSUME Inv, EInv, IInv', HInv', TtyStart
  PROVE  EInv'
<1> DEFINE n == started
           s == StartCalls(n)
<1>1. /\ Idle("tty") /\ n \in Nat /\ n <= NR_CONSOLES /\ UNCHANGED <<cursor, ink, pc>>
      /\ started' = n + 1 /\ call' = [call EXCEPT !["tty"] = StartCalls(n)]
  BY Typed DEF Inv, TtyStart, Set, screen
<1>2. call'["tty"] = s
  BY <1>1 DEF Inv, IInv, FlowTypes
<1>3. /\ s /= <<>> /\ Len(s) \in Nat /\ 1 <= Len(s) /\ Head(s) = s[1]
      /\ n < NR_CONSOLES => s[1] = InitScreen(n)
      /\ n = NR_CONSOLES => Head(s).op /= "init_screen"
      /\ Tail(s) \in Seq(Before(n + 1))
  BY <1>1, StartShape
<1>4. s \in Seq(CallType)
  BY <1>1, StartTypes
<1> HIDE DEF s
<1>5. ASSUME NEW c \in ConsoleId PROVE Up(c)' <=> Up(c)
  <2>1. Up(c) <=> c < n
    BY <1>1 DEF Up, Idle
  <2>2. n < NR_CONSOLES \/ n = NR_CONSOLES
    BY <1>1, ConsoleAssumption
  <2>3. c \in Int /\ c < NR_CONSOLES
    BY ConsoleAssumption DEF ConsoleId
  <2>4. s[1] = InitScreen(c) <=> c = n
    BY <1>3, <2>2, <2>3 DEF InitScreen
  <2>5. \A i \in 2 .. Len(s) : s[i] /= InitScreen(c)
    <3> SUFFICES ASSUME NEW i \in 2 .. Len(s) PROVE s[i] /= InitScreen(c)
      OBVIOUS
    <3>1. Len(Tail(s)) = Len(s) - 1 /\ \A j \in 1 .. Len(Tail(s)) : Tail(s)[j] = s[j + 1]
      BY <1>3, <1>4, HeadTailProperties
    <3>2. i - 1 \in 1 .. Len(Tail(s)) /\ (i - 1) + 1 = i
      BY <1>3, <3>1
    <3>3. s[i] = Tail(s)[i - 1] /\ Tail(s)[i - 1] \in Before(n + 1)
      BY <1>3, <3>1, <3>2
    <3> QED
      BY <3>3 DEF Before, InitScreen
  <2>6. (\A i \in 1 .. Len(s) : s[i] /= InitScreen(c)) <=> c /= n
    BY <1>3, <2>4, <2>5
  <2>7. Up(c)' <=> c < n + 1 /\ c /= n
    BY <1>1, <1>2, <2>6 DEF Up
  <2> QED
    BY <1>1, <2>1, <2>3, <2>7
<1> QED
  BY <1>1, <1>5, BeginEnd DEF Idle

LEMMA TtyCallEnd ==
  ASSUME Inv, EInv, TtyCall
  PROVE  EInv'
<1> USE ConsoleAssumption
<1>1. /\ Idle("tty") /\ started' = started /\ started > NR_CONSOLES /\ started \in Nat
      /\ UNCHANGED <<cursor, ink, pc>>
  BY Typed DEF Inv, TtyCall, screen
<1>2. PICK c \in ConsoleId :
        \/ \E ch \in TtyChars : Set(call, "tty", <<OutChar(c, ch)>>)
        \/ Set(call, "tty", <<Select(c)>>)
        \/ Set(call, "tty", <<ScrollUp(c)>>)
        \/ Set(call, "tty", <<ScrollDown(c)>>)
  BY DEF TtyCall
<1>3. \E op \in DOMAIN Entry \ {"init_screen"}, ch \in Chars :
        call' = [call EXCEPT !["tty"] = <<[op |-> op, c |-> c, ch |-> ch]>>]
  BY <1>2 DEF Set, OutChar, Select, ScrollUp, ScrollDown, Entry, Chars
<1>4. PICK k \in [op : DOMAIN Entry \ {"init_screen"}, c : {c}, ch : Chars] :
        call' = [call EXCEPT !["tty"] = <<k>>]
  BY <1>3
<1>5. call'["tty"] = <<k>> /\ k.op /= "init_screen"
  BY <1>4 DEF Inv, IInv, FlowTypes
<1>6. ASSUME NEW d \in ConsoleId PROVE Up(d)' <=> Up(d)
  <2>1. Up(d)
    BY <1>1 DEF Up, Idle, ConsoleId
  <2>2. k /= InitScreen(d)
    BY <1>5 DEF InitScreen
  <2>3. Len(<<k>>) = 1 /\ <<k>>[1] = k
    OBVIOUS
  <2>4. d < started
    BY <2>1 DEF Up
  <2> QED
    BY <1>1, <1>5, <2>1, <2>2, <2>3, <2>4 DEF Up
<1> QED
  BY <1>1, <1>6, BeginEnd DEF Idle

-----------------------------------------------------------------------------
LEMMA InitialEnd == Init => EInv
<1> SUFFICES ASSUME Init PROVE EInv
  OBVIOUS
<1>1. ASSUME NEW c \in ConsoleId PROVE ~Up(c)
  BY DEF Init, Up, ConsoleId
<1> QED
  BY <1>1 DEF Init, EInv

LEMMA NextEnd ==
  ASSUME Inv, EInv, IInv', HInv', [Next]_vars
  PROVE  EInv'
<1>1. CASE UNCHANGED vars
  <2>1. UNCHANGED <<cursor, ink, pc, call, started, reg, p_vmem>>
    BY <1>1 DEF vars, screen, flow, locals
  <2> QED
    BY <2>1 DEF EInv, Up, Written, Slack, Steady, Char, This
<1>2. CASE Next
  <2>1. CASE TtyStart \/ TtyCall
    BY <2>1, TtyStartEnd, TtyCallEnd
  <2>2. CASE Step("tty")
    BY <2>2, InitEnd, TestEnd, StoreEnd, LoadEnd, MoveEnd, EraseEnd, OtherEnd
  <2> QED
    BY <1>2, <2>1, <2>2, OnlyTty
<1> QED
  BY <1>1, <1>2

\* out_char(): when no system call falls into its calls, the TTY task leaves every
\* cursor in its region, and no text at the cursor or behind it.
THEOREM SerialCursorAtEnd == SysBurst = 0 => (Spec => []CursorAtEnd)
<1> SUFFICES ASSUME SysBurst = 0 PROVE Spec => []CursorAtEnd
  OBVIOUS
<1> DEFINE AInv == IInv /\ HInv /\ VInv
<1>1. AInv /\ EInv /\ AInv' /\ [Next]_vars => EInv'
  BY NextEnd DEF Inv
<1>2. EInv => CursorAtEnd
  BY DEF EInv, Written, Slack, CursorAtEnd
<1>3. Spec => []AInv
  BY VmemHolds
<1> HIDE DEF AInv
<1> QED
  BY InitialEnd, <1>1, <1>2, <1>3, PTL DEF Spec

-----------------------------------------------------------------------------
(* The CRT controller shows the current console.                           *)

StartShown  == Shown("start") = current_start_addr[nr_current_console]
CursorShown == Shown("cursor") = cursor[nr_current_console]

\* The statements of out_char() before it changes a field, those that show a
\* console, and all of them.
Settled  == {"idle", "vmem", "switch", "store", "load", "move"}
Showing  == {"start", "cursor_arg", "cursor"}
OutPc    == SysPc \union {"erase"}
SelectPc == {"idle", "select", "flush"} \union Showing

\* The call in progress: what it has changed it is going to show.
InOutChar ==
  /\ Head(call["tty"]).op = "out_char" /\ pc["tty"] \in OutPc
  /\ This("tty") /= nr_current_console \/ pc["tty"] \in Settled => StartShown /\ CursorShown

InSelect ==
  /\ Head(call["tty"]).op = "select" /\ pc["tty"] \in SelectPc
  /\ pc["tty"] \notin {"idle", "select"} => This("tty") = nr_current_console

Shows ==
  /\ pc["tty"] \in Showing => This("tty") = nr_current_console
  /\ pc["tty"] = "start" => reg["tty"] = current_start_addr[nr_current_console]
  /\ pc["tty"] \in {"cursor_arg", "cursor"} => StartShown
  /\ pc["tty"] = "cursor" => reg["tty"] = cursor[nr_current_console]

CInv ==
  started > NR_CONSOLES =>
    IF call["tty"] = <<>> THEN StartShown /\ CursorShown
    ELSE Tail(call["tty"]) = <<>> /\ (InOutChar \/ InSelect) /\ Shows

\* A step in a call, with the consoles set up.
LEMMA CallHere ==
  ASSUME Inv, CInv, started > NR_CONSOLES, Step("tty")
  PROVE  /\ call["tty"] /= <<>> /\ Tail(call["tty"]) = <<>> /\ This("tty") \in ConsoleId
         /\ InOutChar \/ InSelect
         /\ Shows
         /\ pc["tty"] \notin {"init", "up", "up_load", "up_store"}
         /\ pc["tty"] \notin SelectPc => InOutChar
         /\ InOutChar <=> Head(call["tty"]).op = "out_char"
         /\ started' = started
<1>1. /\ call["tty"] /= <<>> /\ This("tty") \in ConsoleId /\ started' = started
  BY StepOther DEF Inv
<1>2. Tail(call["tty"]) = <<>> /\ (InOutChar \/ InSelect) /\ Shows
  BY <1>1 DEF CInv
<1> QED
  BY <1>1, <1>2 DEF InOutChar, InSelect, OutPc, SelectPc, SysPc, Showing

\* out_char() goes on, on console c: only its fields change, and from then on it is
\* to be shown.
LEMMA OutGoesOn ==
  ASSUME Inv, CInv, started > NR_CONSOLES, Step("tty"), NEW c \in ConsoleId, c = This("tty"),
         InOutChar, NEW to \in OutPc \ ({"idle"} \union Showing), Jump("tty", to),
         UNCHANGED <<nr_current_console, crtc>>,
         \A d \in ConsoleId \ {c} :
           cursor'[d] = cursor[d] /\ current_start_addr'[d] = current_start_addr[d],
         to \in Settled => pc["tty"] \in Settled /\ UNCHANGED <<cursor, current_start_addr>>
  PROVE  CInv'
<1>1. call' = call /\ pc'["tty"] = to
  BY DEF Jump, Inv, IInv, FlowTypes
<1>2. call["tty"] /= <<>> /\ Tail(call["tty"]) = <<>>
  BY CallHere
<1>3. nr_current_console \in ConsoleId
  BY DEF Inv, IInv, TypeOK
<1>4. CASE to \in Settled \/ c /= nr_current_console
  <2>1. StartShown /\ CursorShown
    BY <1>4 DEF InOutChar
  <2>2. /\ cursor'[nr_current_console] = cursor[nr_current_console]
        /\ current_start_addr'[nr_current_console] = current_start_addr[nr_current_console]
    BY <1>3, <1>4
  <2>3. StartShown' /\ CursorShown'
    BY <2>1, <2>2 DEF StartShown, CursorShown, Shown
  <2>4. InOutChar'
    BY <1>1, <2>3 DEF InOutChar
  <2> QED
    BY <1>1, <1>2, <2>4 DEF CInv, Shows, Showing
<1>5. CASE to \notin Settled /\ c = nr_current_console
  <2>1. InOutChar'
    BY <1>1, <1>5 DEF InOutChar, This
  <2> QED
    BY <1>1, <1>2, <2>1 DEF CInv, Shows, Showing
<1> QED
  BY <1>4, <1>5

LEMMA OutCharShows ==
  ASSUME Inv, CInv, started > NR_CONSOLES, Step("tty"),
         \/ VideoAddress("tty") \/ Test("tty") \/ StoreChar("tty") \/ LoadCursor("tty")
         \/ MoveCursor("tty") \/ Erase("tty") \/ While("tty")
         \/ ScrollTest("tty") \/ ScrollLoad("tty") \/ ScrollStore("tty")
  PROVE  CInv'
<1> DEFINE Plain == UNCHANGED <<cursor, current_start_addr>>
           On(to) == Jump("tty", to) /\ UNCHANGED <<nr_current_console, crtc>>
<1>1. PICK c \in ConsoleId : c = This("tty")
  BY CallHere
<1>2. InOutChar /\ pc["tty"] \notin {"up", "up_load", "up_store"}
  <2>1. pc["tty"] \notin SelectPc
    BY DEF VideoAddress, Test, StoreChar, LoadCursor, MoveCursor, Erase, While, ScrollTest,
       ScrollLoad, ScrollStore, At, SelectPc, Showing
  <2> QED
    BY <2>1, CallHere
<1>3. ~AfterScroll("tty")
  BY <1>2, CallHere DEF AfterScroll
<1>4. \A d \in ConsoleId \ {c} :
        cursor'[d] = cursor[d] /\ current_start_addr'[d] = current_start_addr[d]
  BY <1>1, <1>2 DEF VideoAddress, Test, StoreChar, LoadCursor, MoveCursor, Erase, While,
     ScrollTest, ScrollLoad, ScrollStore, At, Set, screen, Inv, IInv, TypeOK
<1>5. CASE VideoAddress("tty")
  <2>1. On("switch") /\ Plain /\ pc["tty"] = "vmem"
    BY <1>5 DEF VideoAddress, At, screen, crt
  <2> QED
    BY <1>1, <1>2, <1>4, <2>1, OutGoesOn DEF OutPc, SysPc, Settled, Showing
<1>6. CASE Test("tty")
  <2>1. (On("while") \/ On("store") \/ On("load")) /\ Plain /\ pc["tty"] = "switch"
    BY <1>6 DEF Test, At, Goto, screen, crt
  <2> QED
    BY <1>1, <1>2, <1>4, <2>1, OutGoesOn DEF OutPc, SysPc, Settled, Showing
<1>7. CASE StoreChar("tty")
  <2>1. On("load") /\ Plain /\ pc["tty"] = "store"
    BY <1>7 DEF StoreChar, At, Goto, crt
  <2> QED
    BY <1>1, <1>2, <1>4, <2>1, OutGoesOn DEF OutPc, SysPc, Settled, Showing
<1>8. CASE LoadCursor("tty")
  <2>1. On("move") /\ Plain /\ pc["tty"] = "load"
    BY <1>8 DEF LoadCursor, At, screen, crt
  <2> QED
    BY <1>1, <1>2, <1>4, <2>1, OutGoesOn DEF OutPc, SysPc, Settled, Showing
<1>9. CASE \/ MoveCursor("tty") \/ Erase("tty") \/ While("tty")
           \/ ScrollTest("tty") \/ ScrollLoad("tty") \/ ScrollStore("tty")
  <2>1. \/ On("erase") \/ On("while") \/ On("down") \/ On("flush") \/ On("down_load")
        \/ On("down_store")
    BY <1>2, <1>3, <1>9 DEF MoveCursor, Erase, While, ScrollTest, ScrollLoad, ScrollStore,
       At, Goto, screen, crt
  <2> QED
    BY <1>1, <1>2, <1>4, <2>1, OutGoesOn DEF OutPc, SysPc, Settled, Showing
<1> QED
  BY <1>5, <1>6, <1>7, <1>8, <1>9

\* The call begins, and select_console().
LEMMA CallShows ==
  ASSUME Inv, CInv, started > NR_CONSOLES, Call("tty")
  PROVE  CInv'
<1>1. Step("tty") /\ pc["tty"] = "idle" /\ Jump("tty", Entry[Head(call["tty"]).op])
      /\ UNCHANGED <<cursor, current_start_addr, nr_current_console, crtc, reg>>
  BY DEF Step, Call, At, Goto, screen, crt
<1>2. call' = call /\ pc'["tty"] = Entry[Head(call["tty"]).op]
  BY <1>1 DEF Jump, Inv, IInv, FlowTypes
<1>3. /\ call["tty"] /= <<>> /\ Tail(call["tty"]) = <<>>
      /\ InOutChar \/ InSelect
  BY <1>1, CallHere
<1>4. CASE InOutChar
  <2>1. StartShown /\ CursorShown /\ pc'["tty"] = "vmem"
    BY <1>1, <1>2, <1>4 DEF InOutChar, Settled, Entry
  <2>2. StartShown' /\ CursorShown'
    BY <1>1, <2>1 DEF StartShown, CursorShown, Shown
  <2>3. InOutChar'
    BY <1>2, <1>4, <2>1, <2>2 DEF InOutChar, OutPc, SysPc
  <2> QED
    BY <1>2, <1>3, <2>1, <2>3 DEF CInv, Shows, Showing
<1>5. CASE InSelect
  <2>1. pc'["tty"] = "select"
    BY <1>2, <1>5 DEF InSelect, Entry
  <2>2. InSelect'
    BY <1>2, <1>5, <2>1 DEF InSelect, SelectPc
  <2> QED
    BY <1>2, <1>3, <2>1, <2>2 DEF CInv, Shows, Showing
<1> QED
  BY <1>3, <1>4, <1>5

LEMMA SelectShows ==
  ASSUME Inv, CInv, started > NR_CONSOLES, SelectConsole("tty")
  PROVE  CInv'
<1>1. /\ Step("tty") /\ pc["tty"] = "select" /\ Jump("tty", "flush")
      /\ nr_current_console' = This("tty")
  BY DEF Step, SelectConsole, At, Goto
<1>2. call' = call /\ pc'["tty"] = "flush"
  BY <1>1 DEF Jump, Inv, IInv, FlowTypes
<1>3. /\ call["tty"] /= <<>> /\ Tail(call["tty"]) = <<>> /\ InSelect
  BY <1>1, CallHere DEF InOutChar, OutPc, SysPc
<1>4. InSelect'
  BY <1>1, <1>2, <1>3 DEF InSelect, SelectPc, This
<1> QED
  BY <1>2, <1>3, <1>4 DEF CInv, Shows, Showing

\* flush(): a console that is not shown needs no more, and the other one's fields
\* are written to the controller.
LEMMA FlushShows ==
  ASSUME Inv, CInv, started > NR_CONSOLES, Flush("tty")
  PROVE  CInv'
<1>1. /\ Step("tty") /\ pc["tty"] = "flush"
      /\ UNCHANGED <<cursor, current_start_addr, nr_current_console, crtc>>
  BY DEF Step, Flush, At, screen, crt
<1>2. /\ call["tty"] /= <<>> /\ Tail(call["tty"]) = <<>>
      /\ InOutChar \/ InSelect
  BY <1>1, CallHere
<1>3. CASE This("tty") = nr_current_console
  <2>1. /\ call' = call /\ pc'["tty"] = "start"
        /\ reg'["tty"] = current_start_addr[nr_current_console]
    BY <1>3 DEF Flush, Jump, Set, Inv, IInv, FlowTypes
  <2>2. This("tty")' = nr_current_console'
    BY <1>1, <1>3, <2>1 DEF This
  <2>3. (InOutChar \/ InSelect)'
    BY <1>2, <2>1, <2>2
       DEF InOutChar, InSelect, OutPc, SysPc, SelectPc, Showing, Settled
  <2> QED
    BY <1>1, <1>2, <2>1, <2>2, <2>3 DEF CInv, Shows, Showing
<1>4. CASE This("tty") /= nr_current_console
  <2>1. call'["tty"] = <<>>
    BY <1>2, <1>4 DEF Flush, Return, Inv, IInv, FlowTypes
  <2>2. StartShown /\ CursorShown
    BY <1>1, <1>2, <1>4 DEF InOutChar, InSelect
  <2>3. StartShown' /\ CursorShown'
    BY <1>1, <2>2 DEF StartShown, CursorShown, Shown
  <2> QED
    BY <2>1, <2>3 DEF CInv
<1> QED
  BY <1>3, <1>4

\* The statements of set_video_start_addr() and set_cursor() that stay in the call.
LEMMA ShowsOn ==
  ASSUME Inv, CInv, started > NR_CONSOLES, Step("tty"), pc["tty"] \in Showing,
         call' = call, UNCHANGED <<cursor, current_start_addr, nr_current_console>>,
         pc'["tty"] \in Showing,
         pc'["tty"] = "start" => pc["tty"] = "start" /\ reg'["tty"] = reg["tty"],
         pc'["tty"] \in {"cursor_arg", "cursor"} =>
           Shown("start")' = current_start_addr[nr_current_console],
         pc'["tty"] = "cursor" => reg'["tty"] = cursor[nr_current_console]
  PROVE  CInv'
<1>1. /\ call["tty"] /= <<>> /\ Tail(call["tty"]) = <<>>
      /\ InOutChar \/ InSelect
      /\ Shows
  BY CallHere
<1>2. This("tty")' = nr_current_console'
  BY <1>1 DEF Shows, This
<1>3. (InOutChar \/ InSelect)'
  BY <1>1, <1>2 DEF InOutChar, InSelect, OutPc, SysPc, SelectPc, Showing, Settled
<1>4. Shows'
  BY <1>1, <1>2 DEF Shows, StartShown
<1> QED
  BY <1>1, <1>3, <1>4 DEF CInv

LEMMA PortsShow ==
  ASSUME Inv, CInv, started > NR_CONSOLES,
         \/ CursorArgument("tty") \/ DisableInt("tty") \/ OutByte("tty") \/ EnableInt("tty")
  PROVE  CInv'
<1>1. /\ Step("tty") /\ pc["tty"] \in Showing
      /\ UNCHANGED <<cursor, current_start_addr, nr_current_console>>
  BY DEF Step, CursorArgument, DisableInt, OutByte, EnableInt, At, Showing, screen
<1>2. /\ Shows /\ call["tty"] /= <<>> /\ Tail(call["tty"]) = <<>>
      /\ This("tty") = nr_current_console
  BY <1>1, CallHere DEF Shows
<1>3. CASE CursorArgument("tty")
  <2>1. /\ pc["tty"] = "cursor_arg" /\ call' = call /\ crtc' = crtc /\ pc'["tty"] = "cursor"
        /\ reg'["tty"] = cursor[nr_current_console]
    BY <1>2, <1>3 DEF CursorArgument, At, Jump, Set, crt, Inv, IInv, FlowTypes
  <2>2. Shown("start")' = current_start_addr[nr_current_console]
    BY <1>2, <2>1 DEF Shows, StartShown, Shown
  <2> QED
    BY <1>1, <2>1, <2>2, ShowsOn DEF Showing
<1>4. CASE DisableInt("tty")
  <2>1. pc' = pc /\ call' = call /\ reg' = reg /\ crtc' = crtc
    BY <1>4 DEF DisableInt, flow, crt
  <2>2. pc["tty"] = "cursor" => Shown("start")' = current_start_addr[nr_current_console]
    BY <1>2, <2>1 DEF Shows, StartShown, Shown
  <2> QED
    BY <1>1, <1>2, <1>4, <2>1, <2>2, ShowsOn DEF Shows, DisableInt
<1>5. CASE OutByte("tty")
  <2>1. pc["tty"] \in {"start", "cursor"} /\ pc' = pc /\ call' = call /\ reg' = reg
    BY <1>5 DEF OutByte, flow
  <2>2. pc["tty"] = "cursor" =>
          \A half \in {"hi", "lo"} : crtc'[<<"start", half>>] = crtc[<<"start", half>>]
    <3>1. port["tty"] \in {2, 4} => index \in {<<pc["tty"], "hi">>, <<pc["tty"], "lo">>}
      BY DEF Inv, IInv, PortProgress
    <3>2. crtc' = crtc \/ (port["tty"] \in {2, 4} /\ \E x : crtc' = [crtc EXCEPT ![index] = x])
      BY <1>5 DEF OutByte
    <3>3. crtc \in [Register -> Int]
      BY DEF Inv, IInv, FlowTypes
    <3>4. \A half \in {"hi", "lo"} : <<"start", half>> \in Register
      BY DEF Register
    <3>5. ASSUME pc["tty"] = "cursor", NEW half \in {"hi", "lo"}, port["tty"] \in {2, 4}
          PROVE  <<"start", half>> /= index
      BY <3>1, <3>5
    <3> QED
      BY <3>2, <3>3, <3>4, <3>5
  <2>3. pc["tty"] = "cursor" => Shown("start")' = current_start_addr[nr_current_console]
    BY <1>2, <2>2 DEF Shows, StartShown, Shown
  <2> QED
    BY <1>1, <1>2, <2>1, <2>3, ShowsOn DEF Shows
<1>6. CASE EnableInt("tty")
  <2>1. pc["tty"] \in {"start", "cursor"} /\ port["tty"] = 5 /\ crtc' = crtc
    BY <1>6 DEF EnableInt, crt
  <2>2. Shown(pc["tty"]) = reg["tty"]
    BY <2>1, WholeNow DEF Inv, CrtNotTorn
  <2>3. CASE pc["tty"] = "start"
    <3>1. call' = call /\ pc'["tty"] = "cursor_arg"
      BY <1>6, <2>3 DEF EnableInt, Goto, Jump, Inv, IInv, FlowTypes
    <3>2. Shown("start")' = current_start_addr[nr_current_console]
      BY <1>2, <2>1, <2>2, <2>3 DEF Shows, Shown
    <3> QED
      BY <1>1, <3>1, <3>2, ShowsOn DEF Showing
  <2>4. CASE pc["tty"] = "cursor"
    <3>1. call'["tty"] = <<>>
      BY <1>2, <1>6, <2>4 DEF EnableInt, Return, Inv, IInv, FlowTypes
    <3>2. StartShown /\ CursorShown
      BY <1>2, <2>2, <2>4 DEF Shows, CursorShown
    <3>3. StartShown' /\ CursorShown'
      BY <1>1, <2>1, <3>2 DEF StartShown, CursorShown, Shown
    <3> QED
      BY <3>1, <3>3 DEF CInv
  <2> QED
    BY <2>1, <2>3, <2>4
<1> QED
  BY <1>3, <1>4, <1>5, <1>6

LEMMA BeginShows ==
  ASSUME Inv, CInv, ~ScrollKeys, TtyStart \/ TtyCall
  PROVE  CInv'
<1> USE ConsoleAssumption
<1>1. /\ call["tty"] = <<>> /\ pc'["tty"] = "idle"
      /\ UNCHANGED <<cursor, current_start_addr, nr_current_console, crtc>>
  BY DEF TtyStart, TtyCall, Idle, screen, crt
<1>2. CASE TtyStart
  <2>1. started \in Nat /\ started' = started + 1 /\ call'["tty"] = StartCalls(started)
    BY <1>2 DEF TtyStart, Set, Inv, IInv, FlowTypes
  <2>2. CASE started' > NR_CONSOLES
    <3>1. started = NR_CONSOLES
      BY <1>2, <2>1, <2>2 DEF TtyStart
    <3>2. call'["tty"] = <<Select(0)>>
      BY <2>1, <3>1 DEF StartCalls
    <3>3. call'["tty"] /= <<>> /\ Tail(call'["tty"]) = <<>> /\ Head(call'["tty"]) = Select(0)
      BY <3>2
    <3>4. InSelect' /\ Shows'
      BY <1>1, <3>3 DEF InSelect, Select, SelectPc, Shows, Showing
    <3> QED
      BY <3>3, <3>4 DEF CInv
  <2>3. CASE ~(started' > NR_CONSOLES)
    BY <2>3 DEF CInv
  <2> QED
    BY <2>2, <2>3
<1>3. CASE TtyCall
  <2>1. started > NR_CONSOLES
    BY <1>3 DEF TtyCall
  <2>2. \E k : call'["tty"] = <<k>> /\ k.op \in {"out_char", "select"}
    BY <1>3 DEF TtyCall, Set, OutChar, Select, Inv, IInv, FlowTypes
  <2>3. PICK k : call'["tty"] = <<k>> /\ k.op \in {"out_char", "select"}
    BY <2>2
  <2>4. call'["tty"] /= <<>> /\ Tail(call'["tty"]) = <<>> /\ Head(call'["tty"]) = k
    BY <2>3
  <2>5. StartShown' /\ CursorShown'
    BY <1>1, <2>1 DEF CInv, StartShown, CursorShown, Shown
  <2>6. (InOutChar \/ InSelect)' /\ Shows'
    BY <1>1, <2>3, <2>4, <2>5
       DEF InOutChar, InSelect, OutPc, SysPc, SelectPc, Shows, Showing
  <2> QED
    BY <2>4, <2>6 DEF CInv
<1> QED
  BY <1>2, <1>3

LEMMA NextShows ==
  ASSUME Inv, CInv, ~ScrollKeys, [Next]_vars
  PROVE  CInv'
<1>1. CASE UNCHANGED vars
  <2>1. UNCHANGED <<cursor, current_start_addr, nr_current_console, crtc, pc, call, started, reg>>
    BY <1>1 DEF vars, screen, crt, flow, locals
  <2> QED
    BY <2>1 DEF CInv, InOutChar, InSelect, Shows, StartShown, CursorShown, Shown, This
<1>2. CASE TtyStart \/ TtyCall
  BY <1>2, BeginShows
<1>3. CASE Step("tty") /\ started > NR_CONSOLES
  <2>1. ~InitFields("tty")
    BY <1>3, CallHere DEF InitFields, At
  <2> QED
    BY <1>3, <2>1, CallShows, SelectShows, OutCharShows, FlushShows, PortsShow DEF Step
<1>4. CASE Step("tty") /\ ~(started > NR_CONSOLES)
  <2>1. started' = started
    BY <1>4, StepOther DEF Inv
  <2> QED
    BY <1>4, <2>1 DEF CInv
<1> QED
  BY <1>1, <1>2, <1>3, <1>4, OnlyTty

\* flush() and select_console(): when no system call falls into its calls and the
\* user does not scroll, the TTY task leaves the CRT controller with the window and
\* the cursor of the current console.
THEOREM SerialCrtInSync == SysBurst = 0 /\ ~ScrollKeys => (Spec => []CrtInSync)
<1> SUFFICES ASSUME SysBurst = 0, ~ScrollKeys PROVE Spec => []CrtInSync
  OBVIOUS
<1> DEFINE AInv == IInv /\ HInv /\ VInv
<1>1. AInv /\ CInv /\ [Next]_vars => CInv'
  BY NextShows DEF Inv
<1>2. CInv => CrtInSync
  BY DEF CInv, CrtInSync, Idle, StartShown, CursorShown
<1>3. Spec => []AInv
  BY VmemHolds
<1>4. Init => CInv
  BY ConsoleAssumption DEF Init, CInv
<1> HIDE DEF AInv
<1> QED
  BY <1>1, <1>2, <1>3, <1>4, PTL DEF Spec
=============================================================================
