------------------------------ MODULE TtyProofs ------------------------------
(***************************************************************************)
(* Theorems about the way of a key from the keyboard to the echo: first    *)
(* about KeyboardRead, which makes keys of scan codes, then about Tty,     *)
(* which routes them to the consoles.                                      *)
(***************************************************************************)
EXTENDS KeyboardRead, Tty, TLAPS, SequenceTheorems

-----------------------------------------------------------------------------
(***************************************************************************)
(* Proofs about KeyboardRead, for every set of keys without Power, every   *)
(* size of the buffer and any number of keys held down: as long as no byte *)
(* is lost, in_process() gets what was typed, but for the Pauses that are  *)
(* dropped.  (Power has an empty row in keymap[], and in_process() gets    *)
(* nothing for it.)                                                        *)
(*                                                                         *)
(* The bytes do not say by themselves which key they belong to, since keys *)
(* share codes and a code means what the bytes before it make of it.  The  *)
(* invariant says that there is a way to tag them: every byte that waits,  *)
(* and the byte read last, belongs to an event of the keyboard, of which   *)
(* it is the at-th byte, and the tags follow one another as the keyboard   *)
(* sends.  keyboard_read() is then where the tag of the byte read last     *)
(* says, with the modifiers that were down before or after that event.     *)
(***************************************************************************)

KnownKey == {"A", "L_SHFT", "R_SHFT", "R_CTRL", "L_ALT", "R_ALT", "U_ARROW",
             "KP_8", "F1", "ENTER", "PRTSCRN", "PAUSE"}

\* The event of which a byte is a part: a key that goes down (make) or is
\* released, the keys down before and after, and how many keys have been typed
\* with it.
Tag == [key : KnownKey, make : BOOLEAN, before : SUBSET KnownKey,
        down : SUBSET KnownKey, n : Int, at : Nat]

Codes(t) == IF t.make THEN Make(t.key) ELSE Break(t.key)

Whole(t) == t.at = Len(Codes(t))

IsTag(t) ==
  /\ t \in Tag
  /\ t.at \in 1 .. Len(Codes(t))
  /\ t.make = FALSE => t.down = t.before \ {t.key}
  /\ t.make = TRUE => t.down = IF t.key = "PAUSE" THEN t.before ELSE t.before \union {t.key}

Typed(t) == [key |-> Meaning(t.key, t.down), flags |-> Flags(t.down)]

Continues(t, u) == u = [t EXCEPT !.at = t.at + 1]

Begins(t, u) ==
  /\ Whole(t)
  /\ u.at = 1
  /\ u.before = t.down
  /\ u.n = IF u.make THEN t.n + 1 ELSE t.n

Follows(t, u) == Continues(t, u) \/ Begins(t, u)

Stream == kb_in \o wire

\* T[1] is the tag of the byte read last, T[j + 1] that of the j-th to be read.
Tagged(T) ==
  /\ T \in Seq(Tag)
  /\ Len(T) = Len(Stream) + 1
  /\ \A j \in 1 .. Len(T) : IsTag(T[j])
  /\ \A j \in 1 .. Len(Stream) :
       /\ Stream[j] = Codes(T[j + 1])[T[j + 1].at]
       /\ Follows(T[j], T[j + 1])

\* The last event is complete; expected begins after the b-th key typed.
Complete(T, b) ==
  /\ Whole(T[Len(T)])
  /\ T[Len(T)].down = pressed
  /\ T[Len(T)].n - b = Len(expected)

Awaited(T, b) ==
  \A j \in 1 .. Len(T) :
    T[j].make /\ T[j].n > b =>
      /\ T[j].n - b \in 1 .. Len(expected)
      /\ expected[T[j].n - b] = Typed(T[j])

\* Where keyboard_read() is after the byte with tag c.
AtByte(c) ==
  /\ pc \in {"poll", "process", "decode"} => Whole(c)
  /\ pc \notin {"process", "decode"} => key = "none"
  /\ pc = "e0" => c.at = 1 /\ c.key \in Extended \union {"PRTSCRN"}
  /\ pc \in {"print1", "print2"} =>
       /\ c.key = "PRTSCRN"
       /\ scan_code = IF c.make THEN 42 ELSE 183
       /\ c.at = IF pc = "print1" THEN 2 ELSE 3
  /\ \A p \in 1 .. 5 : pc = PausePc[p] => c.key = "PAUSE" /\ c.make /\ c.at = p

Recognised(c) ==
  /\ c.key = "PRTSCRN" => key = "PRINTSCREEN" /\ (scan_code = 42 <=> c.make)
  /\ c.key = "PAUSE" => key = "PAUSEBREAK" /\ c.make
  /\ c.key \notin {"PRTSCRN", "PAUSE"} =>
       /\ key = "none"
       /\ scan_code = Code[c.key] + (IF c.make THEN 0 ELSE FLAG_BREAK)
       /\ code_with_E0 <=> c.key \in Extended

Parser(c, b) ==
  /\ b = IF pc # "poll" /\ c.make THEN c.n - 1 ELSE c.n
  /\ modifiers = Flags(IF pc \in {"poll", "process"} THEN c.down ELSE c.before)
  /\ AtByte(c)
  /\ pc = "decode" => Recognised(c)
  /\ pc = "process" => c.make /\ key = Meaning(c.key, c.down)

Explained(T, b) == Tagged(T) /\ Complete(T, b) /\ Awaited(T, b) /\ Parser(T[1], b)

KeyPress == {Typed(t) : t \in Tag}

TypeInv ==
  /\ pressed \subseteq Key \ {"PAUSE"}
  /\ wire \in Seq(Int)
  /\ kb_in \in Seq(Int)
  /\ expected \in Seq(KeyPress)
  /\ lost \in Nat

PcInv == pc \in {"poll", "e0", "print1", "print2", "decode", "process"}
                \union {PausePc[p] : p \in 1 .. 5}

IInv ==
  /\ TypeInv /\ PcInv
  /\ lost = 0 => dropped \subseteq {"PAUSEBREAK"} /\ \E T, b : b \in Int /\ Explained(T, b)
-----------------------------------------------------------------------------
(* What the keyboard sends, and what a code means.                         *)

LEMMA KeysAreKnown ==
  ASSUME "POWER" \notin Key
  PROVE  Key \subseteq KnownKey
BY KeyboardReadAssumption DEF KnownKey

\* The bytes of an event, by key: all of Make() and Break().
LEMMA BytesOf ==
  ASSUME NEW t \in Tag
  PROVE  /\ t.key = "PRTSCRN" => Codes(t) = IF t.make THEN <<224, 42, 224, 55>>
                                                      ELSE <<224, 183, 224, 170>>
         /\ t.key = "PAUSE" => Codes(t) = IF t.make THEN <<225, 29, 69, 225, 157, 197>>
                                                    ELSE <<>>
         /\ t.key \in Extended =>
              Codes(t) = <<224, Code[t.key] + (IF t.make THEN 0 ELSE 128)>>
         /\ t.key \notin Extended \union {"PRTSCRN", "PAUSE"} =>
              Codes(t) = <<Code[t.key] + (IF t.make THEN 0 ELSE 128)>>
<1>1. CASE t.key = "PRTSCRN"
  BY <1>1 DEF Codes, Make, Break, E0, Extended
<1>2. CASE t.key = "PAUSE"
  BY <1>2 DEF Codes, Make, Break, E1, Extended
<1>3. CASE t.key \in Extended
  <2> DEFINE m == <<224, Code[t.key]>>
             r == <<224, Code[t.key] + 128>>
  <2>a. t.key # "PRTSCRN" /\ t.key # "PAUSE"
    BY <1>3 DEF Extended
  <2>b. Make(t.key) = m
    BY <1>3, <2>a, Zenon DEF Make, E0
  <2>c. Break(t.key) = r
    BY <1>3, <2>a, Zenon DEF Break, E0, FLAG_BREAK
  <2>1. Codes(t) = IF t.make THEN m ELSE r
    BY <2>b, <2>c, Zenon DEF Codes
  <2>2. Code[t.key] \in Int
    BY <1>3 DEF Extended, Code
  <2> QED
    BY <1>3, <2>1, <2>2 DEF Extended
<1>4. CASE t.key \notin Extended \union {"PRTSCRN", "PAUSE"}
  <2>1. Codes(t) = IF t.make THEN <<Code[t.key]>> ELSE <<Code[t.key] + 128>>
    BY <1>4 DEF Codes, Make, Break, FLAG_BREAK
  <2>2. Code[t.key] \in Int
    BY <1>4 DEF Tag, KnownKey, Code
  <2> QED
    BY <1>4, <2>1, <2>2
<1> QED
  BY <1>1, <1>2, <1>3, <1>4

\* The codes of the keys that have one.
LEMMA CodeTable ==
  /\ Code["A"] = 30 /\ Code["L_SHFT"] = 42 /\ Code["R_SHFT"] = 54
  /\ Code["R_CTRL"] = 29 /\ Code["L_ALT"] = 56 /\ Code["R_ALT"] = 56
  /\ Code["U_ARROW"] = 72 /\ Code["KP_8"] = 72 /\ Code["F1"] = 59
  /\ Code["ENTER"] = 28
BY DEF Code

\* An event sends whole numbers.
LEMMA CodesType ==
  ASSUME NEW t \in Tag
  PROVE  Codes(t) \in Seq(Int)
<1>1. t.key \notin {"PRTSCRN", "PAUSE"} => Code[t.key] + (IF t.make THEN 0 ELSE 128) \in Int
  BY DEF Tag, KnownKey, Code
<1>2. CASE t.key = "PRTSCRN"
  <2>1. <<224, 42, 224, 55>> \in Seq(Int) /\ <<224, 183, 224, 170>> \in Seq(Int)
    OBVIOUS
  <2>2. Codes(t) \in {<<224, 42, 224, 55>>, <<224, 183, 224, 170>>}
    BY <1>2, BytesOf
  <2> QED
    BY <2>1, <2>2
<1>3. CASE t.key = "PAUSE"
  <2>1. <<225, 29, 69, 225, 157, 197>> \in Seq(Int) /\ <<>> \in Seq(Int)
    OBVIOUS
  <2>2. Codes(t) \in {<<225, 29, 69, 225, 157, 197>>, <<>>}
    BY <1>3, BytesOf
  <2> QED
    BY <2>1, <2>2
<1>4. CASE t.key \in Extended
  <2> DEFINE x == Code[t.key] + (IF t.make THEN 0 ELSE 128)
  <2>1. x \in Int /\ Codes(t) = <<224, x>>
    BY <1>1, <1>4, BytesOf DEF Extended
  <2> HIDE DEF x
  <2> QED
    BY <2>1
<1>5. CASE t.key \notin Extended \union {"PRTSCRN", "PAUSE"}
  <2> DEFINE x == Code[t.key] + (IF t.make THEN 0 ELSE 128)
  <2>1. x \in Int /\ Codes(t) = <<x>>
    BY <1>1, <1>5, BytesOf
  <2> HIDE DEF x
  <2> QED
    BY <2>1
<1> QED
  BY <1>2, <1>3, <1>4, <1>5 DEF Extended

\* How many bytes an event has.
LEMMA LengthOf ==
  ASSUME NEW t \in Tag
  PROVE  Len(Codes(t)) = IF t.key = "PRTSCRN" THEN 4
                         ELSE IF t.key = "PAUSE" THEN IF t.make THEN 6 ELSE 0
                         ELSE IF t.key \in Extended THEN 2 ELSE 1
<1>1. CASE t.key = "PRTSCRN"
  BY <1>1, BytesOf
<1>2. CASE t.key = "PAUSE"
  BY <1>2, BytesOf
<1>3. CASE t.key \in Extended
  <2> DEFINE x == Code[t.key] + (IF t.make THEN 0 ELSE 128)
  <2>1. Codes(t) = <<224, x>>
    BY <1>3, BytesOf
  <2> HIDE DEF x
  <2> QED
    BY <1>3, <2>1 DEF Extended
<1>4. CASE t.key \notin Extended \union {"PRTSCRN", "PAUSE"}
  <2> DEFINE x == Code[t.key] + (IF t.make THEN 0 ELSE 128)
  <2>1. Codes(t) = <<x>>
    BY <1>4, BytesOf
  <2> HIDE DEF x
  <2> QED
    BY <1>4, <2>1
<1> QED
  BY <1>1, <1>2, <1>3, <1>4

\* The modifiers that are down, of the keys that are down.
LEMMA FlagTable ==
  /\ DOMAIN Flag = {"L_SHFT", "R_SHFT", "R_CTRL", "L_ALT", "R_ALT"}
  /\ Flag["L_SHFT"] = "SHIFT_L" /\ Flag["R_SHFT"] = "SHIFT_R"
  /\ Flag["R_CTRL"] = "CTRL_R" /\ Flag["L_ALT"] = "ALT_L" /\ Flag["R_ALT"] = "ALT_R"
BY DEF Flag

LEMMA FlagsChange ==
  ASSUME NEW down, NEW k
  PROVE  /\ k \notin DOMAIN Flag => /\ Flags(down \union {k}) = Flags(down)
                                    /\ Flags(down \ {k}) = Flags(down)
         /\ k \in DOMAIN Flag => /\ Flags(down \union {k}) = Flags(down) \union {Flag[k]}
                                 /\ Flags(down \ {k}) = Flags(down) \ {Flag[k]}
<1>1. \A j, m \in DOMAIN Flag : Flag[j] = Flag[m] => j = m
  BY FlagTable
<1> QED
  BY <1>1 DEF Flags

\* The row and the column of a key hold what it means, and a modifier where
\* the key is one.
KeyOf(t) ==
  keymap(Code[t.key])[IF t.key \in Extended THEN 3
                      ELSE IF Flags(t.before) \intersect {"SHIFT_L", "SHIFT_R"} # {} THEN 2 ELSE 1]

LEMMA KeymapRows ==
  /\ keymap(28) = <<"ENTER", "ENTER", "PAD_ENTER">>
  /\ keymap(29) = <<"CTRL_L", "CTRL_L", "CTRL_R">>
  /\ keymap(30) = <<"a", "A", "none">>
  /\ keymap(42) = <<"SHIFT_L", "SHIFT_L", "none">>
  /\ keymap(54) = <<"SHIFT_R", "SHIFT_R", "none">>
  /\ keymap(56) = <<"ALT_L", "ALT_L", "ALT_R">>
  /\ keymap(59) = <<"F1", "F1", "none">>
  /\ keymap(72) = <<"PAD_UP", "8", "UP">>
BY DEF keymap

LEMMA KeymapIsMeaning ==
  ASSUME NEW t \in Tag, IsTag(t), t.key \notin {"PRTSCRN", "PAUSE"}
  PROVE  /\ t.make => KeyOf(t) = Meaning(t.key, t.down)
         /\ KeyOf(t) \in ModifierKey <=> t.key \in DOMAIN Flag
         /\ t.key \in DOMAIN Flag => KeyOf(t) = Flag[t.key]
<1> DEFINE shift(down) == Flags(down) \intersect {"SHIFT_L", "SHIFT_R"} # {}
<1>1. t.make = TRUE => t.down = t.before \union {t.key}
  BY DEF IsTag
<1>2. t.make \in BOOLEAN /\ t.key \in KnownKey
  BY DEF Tag
<1>3. CASE t.key = "A"
  <2>1. KeyOf(t) = IF shift(t.before) THEN "A" ELSE "a"
    BY <1>3, KeymapRows, CodeTable DEF KeyOf, Extended
  <2>2. Meaning(t.key, t.down) = IF shift(t.down) THEN "A" ELSE "a"
    BY <1>3, FlagTable DEF Meaning
  <2>3. t.make => Flags(t.down) = Flags(t.before)
    <3>1. t.key \notin DOMAIN Flag
      BY <1>3, FlagTable
    <3>2. t.make => t.down = t.before \union {t.key}
      BY <1>1, <1>2
    <3>3. Flags(t.before \union {t.key}) = Flags(t.before)
      BY <3>1, FlagsChange
    <3> QED
      BY <3>2, <3>3
  <2> HIDE DEF shift
  <2>4. t.make => shift(t.down) = shift(t.before)
    BY <2>3 DEF shift
  <2> QED
    BY <1>3, <2>1, <2>2, <2>4, FlagTable DEF ModifierKey
<1>4. CASE t.key = "KP_8"
  <2>1. KeyOf(t) = IF shift(t.before) THEN "8" ELSE "PAD_UP"
    BY <1>4, KeymapRows, CodeTable DEF KeyOf, Extended
  <2>2. Meaning(t.key, t.down) = IF shift(t.down) THEN "8" ELSE "PAD_UP"
    BY <1>4, FlagTable DEF Meaning
  <2>3. t.make => Flags(t.down) = Flags(t.before)
    <3>1. t.key \notin DOMAIN Flag
      BY <1>4, FlagTable
    <3>2. t.make => t.down = t.before \union {t.key}
      BY <1>1, <1>2
    <3>3. Flags(t.before \union {t.key}) = Flags(t.before)
      BY <3>1, FlagsChange
    <3> QED
      BY <3>2, <3>3
  <2> HIDE DEF shift
  <2>4. t.make => shift(t.down) = shift(t.before)
    BY <2>3 DEF shift
  <2> QED
    BY <1>4, <2>1, <2>2, <2>4, FlagTable DEF ModifierKey
<1>5. CASE t.key \in DOMAIN Flag
  <2>1. KeyOf(t) = Flag[t.key]
    BY <1>5, KeymapRows, CodeTable, FlagTable DEF KeyOf, Extended
  <2>2. Meaning(t.key, t.down) = Flag[t.key]
    BY <1>5, FlagTable DEF Meaning
  <2> QED
    BY <1>5, <2>1, <2>2, FlagTable DEF ModifierKey
<1>6. CASE t.key \in {"U_ARROW", "F1", "ENTER"}
  <2>1. KeyOf(t) = IF t.key = "U_ARROW" THEN "UP" ELSE t.key
    BY <1>6, KeymapRows, CodeTable DEF KeyOf, Extended
  <2>2. Meaning(t.key, t.down) = IF t.key = "U_ARROW" THEN "UP" ELSE t.key
    BY <1>6, FlagTable DEF Meaning
  <2> QED
    BY <1>6, <2>1, <2>2, FlagTable DEF ModifierKey
<1> QED
  BY <1>2, <1>3, <1>4, <1>5, <1>6, FlagTable DEF KnownKey

-----------------------------------------------------------------------------
(* The tags and the bytes.                                                 *)

LEMMA ConcatParts ==
  ASSUME NEW S, NEW s \in Seq(S), NEW t \in Seq(S)
  PROVE  /\ \A j \in 1 .. Len(s) : (s \o t)[j] = s[j]
         /\ \A p \in 1 .. Len(t) : (s \o t)[Len(s) + p] = t[p]
<1>1. Len(s) \in Nat /\ Len(t) \in Nat
  OBVIOUS
<1>2. \A p \in 1 .. Len(s) + Len(t) : (s \o t)[p] = IF p <= Len(s) THEN s[p] ELSE t[p - Len(s)]
  BY ConcatProperties
<1>3. ASSUME NEW p \in 1 .. Len(t)
      PROVE  (s \o t)[Len(s) + p] = t[p]
  <2>1. Len(s) + p \in 1 .. Len(s) + Len(t) /\ ~(Len(s) + p <= Len(s)) /\ (Len(s) + p) - Len(s) = p
    BY <1>1
  <2> QED
    BY <1>2, <2>1
<1>4. ASSUME NEW j \in 1 .. Len(s)
      PROVE  (s \o t)[j] = s[j]
  <2>1. j \in 1 .. Len(s) + Len(t) /\ j <= Len(s)
    BY <1>1
  <2> QED
    BY <1>2, <2>1
<1> QED
  BY <1>3, <1>4

\* keyboard_read() takes a byte: the tags lose the first.
LEMMA Reading ==
  ASSUME TypeInv, NEW T, NEW b \in Int, Tagged(T), Complete(T, b), Awaited(T, b),
         kb_in # <<>>, kb_in' = Tail(kb_in), UNCHANGED <<keyboard, expected>>
  PROVE  /\ T[1] \in Tag /\ IsTag(T[1])
         /\ T[2] \in Tag /\ IsTag(T[2])
         /\ Follows(T[1], T[2])
         /\ Byte = Codes(T[2])[T[2].at]
         /\ Tail(T)[1] = T[2]
         /\ Tagged(Tail(T))'
         /\ Complete(Tail(T), b)'
         /\ Awaited(Tail(T), b)'
<1> DEFINE S == Stream
           R == Tail(T)
<1>1. kb_in \in Seq(Int) /\ wire \in Seq(Int) /\ wire' = wire
  BY DEF TypeInv, keyboard
<1>2. /\ S \in Seq(Int) /\ Len(S) = Len(kb_in) + Len(wire)
      /\ \A p \in 1 .. Len(S) : S[p] = IF p <= Len(kb_in) THEN kb_in[p] ELSE wire[p - Len(kb_in)]
  BY <1>1, ConcatProperties, Zenon DEF Stream
<1>3. Len(kb_in) \in Nat \ {0} /\ Len(wire) \in Nat
  BY <1>1
<1>4. Len(S) \in Nat \ {0} /\ S[1] = Byte
  <2>1. Len(S) \in Nat \ {0} /\ 1 \in 1 .. Len(S) /\ 1 <= Len(kb_in)
    BY <1>2, <1>3
  <2>2. S[1] = kb_in[1]
    BY <1>2, <2>1
  <2>3. kb_in[1] = Head(kb_in)
    BY <1>1, <1>3
  <2> QED
    BY <2>1, <2>2, <2>3 DEF Byte
<1>5. /\ Tail(kb_in) \in Seq(Int) /\ Len(Tail(kb_in)) = Len(kb_in) - 1
      /\ \A p \in 1 .. Len(Tail(kb_in)) : Tail(kb_in)[p] = kb_in[p + 1]
  BY <1>1, HeadTailProperties
<1>6. S' = Tail(kb_in) \o wire
  BY <1>1 DEF Stream
<1>7. /\ Len(S') = Len(Tail(kb_in)) + Len(wire)
      /\ \A p \in 1 .. Len(Tail(kb_in)) + Len(wire) :
           S'[p] = IF p <= Len(Tail(kb_in)) THEN Tail(kb_in)[p] ELSE wire[p - Len(Tail(kb_in))]
  BY <1>1, <1>5, <1>6, ConcatProperties, Zenon
<1>8. Len(S') = Len(S) - 1 /\ \A p \in 1 .. Len(S) - 1 : S'[p] = S[p + 1]
  <2>1. Len(S') = Len(S) - 1
    BY <1>2, <1>3, <1>5, <1>7
  <2>2. ASSUME NEW p \in 1 .. Len(S) - 1
        PROVE  S'[p] = S[p + 1]
    <3>1. /\ S'[p] = IF p <= Len(Tail(kb_in)) THEN Tail(kb_in)[p] ELSE wire[p - Len(Tail(kb_in))]
          /\ S[p + 1] = IF p + 1 <= Len(kb_in) THEN kb_in[p + 1] ELSE wire[(p + 1) - Len(kb_in)]
      BY <1>2, <1>3, <1>5, <1>7
    <3>2. p \in Nat \ {0} /\ p - (Len(kb_in) - 1) = (p + 1) - Len(kb_in)
      BY <1>3
    <3>3. p <= Len(Tail(kb_in)) => Tail(kb_in)[p] = kb_in[p + 1]
      BY <1>3, <1>5, <3>2
    <3> QED
      BY <1>3, <1>5, <3>1, <3>2, <3>3
  <2> QED
    BY <2>1, <2>2
<1>9. /\ T \in Seq(Tag) /\ Len(T) = Len(S) + 1
      /\ \A j \in 1 .. Len(T) : IsTag(T[j])
      /\ \A j \in 1 .. Len(S) : S[j] = Codes(T[j + 1])[T[j + 1].at] /\ Follows(T[j], T[j + 1])
  BY DEF Tagged
<1> HIDE DEF S
<1>10. T # <<>>
  BY <1>4, <1>9
<1>11. /\ R \in Seq(Tag) /\ Len(R) = Len(T) - 1
       /\ \A p \in 1 .. Len(R) : R[p] = T[p + 1]
  BY <1>9, <1>10, HeadTailProperties
<1> HIDE DEF R
<1>12. T[1] \in Tag /\ IsTag(T[1]) /\ T[2] \in Tag /\ IsTag(T[2])
  BY <1>4, <1>9
<1>13. Follows(T[1], T[2]) /\ Byte = Codes(T[2])[T[2].at]
  BY <1>4, <1>9
<1>14. R[1] = T[2]
  BY <1>4, <1>9, <1>11
<1>15. Tagged(R)'
  <2>1. Len(R) = Len(S') + 1
    BY <1>4, <1>8, <1>9, <1>11
  <2>2. \A j \in 1 .. Len(R) : IsTag(R[j])
    BY <1>4, <1>9, <1>11
  <2>3. \A j \in 1 .. Len(S') :
           S'[j] = Codes(R[j + 1])[R[j + 1].at] /\ Follows(R[j], R[j + 1])
    <3> SUFFICES ASSUME NEW j \in 1 .. Len(S')
                 PROVE  S'[j] = Codes(R[j + 1])[R[j + 1].at] /\ Follows(R[j], R[j + 1])
      OBVIOUS
    <3>1. j + 1 \in 1 .. Len(S) /\ j \in 1 .. Len(R) /\ j + 1 \in 1 .. Len(R)
      BY <1>4, <1>8, <1>9, <1>11
    <3>2. S'[j] = S[j + 1]
      BY <1>4, <1>8
    <3>3. R[j] = T[j + 1] /\ R[j + 1] = T[(j + 1) + 1]
      BY <1>11, <3>1
    <3> QED
      BY <1>9, <3>1, <3>2, <3>3
  <2> QED
    BY <1>11, <2>1, <2>2, <2>3 DEF Tagged, S
<1>16. R[Len(R)] = T[Len(T)] /\ Len(R) \in 1 .. Len(R)
  BY <1>4, <1>9, <1>11
<1>17. Complete(R, b)'
  BY <1>16 DEF Complete, keyboard
<1>18. Awaited(R, b)'
  <2>1. \A j \in 1 .. Len(R) : j + 1 \in 1 .. Len(T) /\ R[j] = T[j + 1]
    BY <1>4, <1>9, <1>11
  <2> QED
    BY <2>1 DEF Awaited
<1> QED
  BY <1>12, <1>13, <1>14, <1>15, <1>17, <1>18 DEF R

\* A byte goes from the keyboard into the buffer: the tags stay.
LEMMA Arriving ==
  ASSUME TypeInv, NEW T, NEW b, Explained(T, b), Arrive, lost' = 0, lost = 0
  PROVE  Explained(T, b)'
<1>1. /\ wire # <<>> /\ wire' = Tail(wire) /\ kb_in' = Append(kb_in, Head(wire))
      /\ UNCHANGED <<pressed, expected, pc, scan_code, key, code_with_E0, modifiers>>
  BY DEF Arrive, TypeInv, locals
<1>2. wire \in Seq(Int) /\ kb_in \in Seq(Int)
  BY DEF TypeInv
<1>3. Stream' = Stream
  <2>1. Head(wire) \in Int /\ Tail(wire) \in Seq(Int) /\ Len(Tail(wire)) = Len(wire) - 1
        /\ \A p \in 1 .. Len(Tail(wire)) : Tail(wire)[p] = wire[p + 1]
    BY <1>1, <1>2, HeadTailProperties
  <2>2. kb_in' = kb_in \o <<Head(wire)>>
    BY <1>1, <1>2, <2>1, AppendIsConcat
  <2>3. <<Head(wire)>> \in Seq(Int)
    BY <2>1
  <2>4. Stream' = kb_in \o (<<Head(wire)>> \o Tail(wire))
    BY <1>1, <1>2, <2>1, <2>2, <2>3, ConcatAssociative DEF Stream
  <2>5. <<Head(wire)>> \o Tail(wire) = wire
    BY <1>1, <1>2, <2>1
  <2> QED
    BY <2>4, <2>5 DEF Stream
<1>4. Tagged(T)' /\ Complete(T, b)' /\ Awaited(T, b)'
  BY <1>1, <1>3 DEF Explained, Tagged, Complete, Awaited
<1>5. Parser(T[1], b)'
  BY <1>1 DEF Explained, Parser, AtByte, Recognised
<1> QED
  BY <1>4, <1>5 DEF Explained

\* The tag of another byte of the same event.
LEMMA TagAt ==
  ASSUME NEW u \in Tag, NEW p \in Nat
  PROVE  /\ [u EXCEPT !.at = p] \in Tag
         /\ [u EXCEPT !.at = p].at = p
         /\ [u EXCEPT !.at = p].n = u.n
         /\ [u EXCEPT !.at = p].make = u.make
         /\ [u EXCEPT !.at = p].before = u.before
         /\ [u EXCEPT !.at = p].down = u.down
         /\ [u EXCEPT !.at = p].key = u.key
BY DEF Tag

\* The keyboard has an event to send, u with its first byte: a tag for each of
\* its bytes follows those there are.
LEMMA Sending ==
  ASSUME TypeInv, NEW T, NEW b \in Int, Explained(T, b),
         NEW u \in Tag, IsTag(u), u.at = 1, u.before = pressed,
         u.n = IF u.make THEN T[Len(T)].n + 1 ELSE T[Len(T)].n,
         wire = <<>>, wire' = Codes(u), pressed' = u.down,
         expected' = IF u.make THEN Append(expected, Typed(u)) ELSE expected,
         UNCHANGED <<kb_in, pc, scan_code, key, code_with_E0, modifiers>>
  PROVE  \E U : Explained(U, b)'
<1> DEFINE C == Codes(u)
           L == Len(C)
           K == Len(kb_in)
           N == [p \in 1 .. L |-> [u EXCEPT !.at = p]]
           U == T \o N
<1>1. C \in Seq(Int) /\ L \in Nat \ {0}
  BY CodesType DEF IsTag
<1>2. /\ kb_in \in Seq(Int) /\ K \in Nat
      /\ Stream = kb_in /\ Stream' = kb_in \o C
  <2>1. kb_in \in Seq(Int) /\ kb_in' = kb_in
    BY DEF TypeInv
  <2>2. kb_in \o <<>> = kb_in
    BY <2>1, ConcatEmptySeq
  <2> QED
    BY <2>1, <2>2 DEF Stream
<1>3. /\ Len(Stream') = K + L
      /\ \A j \in 1 .. K : Stream'[j] = kb_in[j]
      /\ \A p \in 1 .. L : Stream'[K + p] = C[p]
  BY <1>1, <1>2, ConcatProperties, ConcatParts
<1>4. /\ T \in Seq(Tag) /\ Len(T) = K + 1
      /\ \A j \in 1 .. K + 1 : IsTag(T[j])
      /\ \A j \in 1 .. K : kb_in[j] = Codes(T[j + 1])[T[j + 1].at] /\ Follows(T[j], T[j + 1])
  BY <1>2 DEF Explained, Tagged
<1>5. /\ Whole(T[K + 1]) /\ T[K + 1].down = pressed
      /\ T[K + 1].n - b = Len(expected) /\ T[K + 1].n \in Int
  <2>1. K + 1 \in 1 .. Len(T)
    BY <1>2, <1>4
  <2>2. T[K + 1] \in Tag
    BY <1>4, <2>1
  <2> QED
    BY <1>4, <2>2 DEF Explained, Complete, Tag
<1>6. ASSUME NEW p \in 1 .. L
      PROVE  /\ [u EXCEPT !.at = p] \in Tag
             /\ [u EXCEPT !.at = p].at = p
             /\ [u EXCEPT !.at = p].n = u.n
             /\ [u EXCEPT !.at = p].make = u.make
             /\ [u EXCEPT !.at = p].before = u.before
             /\ [u EXCEPT !.at = p].down = u.down
             /\ [u EXCEPT !.at = p].key = u.key
  <2>1. p \in Nat
    BY <1>1
  <2> QED
    BY <2>1, TagAt
<1>7. N \in Seq(Tag) /\ Len(N) = L /\ \A p \in 1 .. L : N[p] = [u EXCEPT !.at = p]
  <2>1. N \in Seq(Tag)
    BY <1>1, <1>6, IsASeq
  <2> QED
    BY <1>1, <2>1
<1>8. ASSUME NEW p \in 1 .. L
      PROVE  /\ N[p].at = p /\ N[p].n = u.n /\ N[p].make = u.make /\ N[p].before = u.before
             /\ N[p].down = u.down /\ Codes(N[p]) = C /\ Typed(N[p]) = Typed(u)
             /\ IsTag(N[p])
  <2>1. Codes(N[p]) = C /\ Typed(N[p]) = Typed(u)
    BY <1>6, <1>7 DEF Codes, Typed
  <2>2. p \in 1 .. Len(Codes(N[p]))
    BY <2>1
  <2>3. IsTag(N[p])
    BY <1>6, <1>7, <2>2 DEF IsTag
  <2> QED
    BY <1>6, <1>7, <2>1, <2>3
<1>9. ASSUME NEW p \in 1 .. L - 1
      PROVE  Continues(N[p], N[p + 1])
  <2>1. p \in 1 .. L /\ p + 1 \in 1 .. L
    BY <1>1
  <2>2. N[p + 1] = [u EXCEPT !.at = p + 1] /\ N[p] = [u EXCEPT !.at = p] /\ N[p].at = p
    BY <1>7, <1>8, <2>1
  <2>3. [N[p] EXCEPT !.at = p + 1] = [u EXCEPT !.at = p + 1]
    BY <2>2 DEF Tag
  <2> QED
    BY <2>2, <2>3 DEF Continues
<1>10. Begins(T[K + 1], N[1])
  <2>1. 1 \in 1 .. L
    BY <1>1
  <2>2. N[1].at = 1 /\ N[1].before = T[K + 1].down /\ N[1].make = u.make /\ N[1].n = u.n
    BY <1>5, <1>8, <2>1
  <2>3. u.n = IF u.make THEN T[K + 1].n + 1 ELSE T[K + 1].n
    BY <1>4
  <2> QED
    BY <1>5, <2>2, <2>3 DEF Begins
<1> HIDE DEF N, C, L, K
<1>11. /\ U \in Seq(Tag) /\ Len(U) = K + 1 + L
       /\ \A j \in 1 .. K + 1 : U[j] = T[j]
       /\ \A p \in 1 .. L : U[K + 1 + p] = N[p]
  <2>1. U \in Seq(Tag) /\ Len(U) = Len(T) + Len(N)
    <3>1. T \in Seq(Tag) /\ N \in Seq(Tag)
      BY <1>4, <1>7
    <3> QED
      BY <3>1, ConcatProperties DEF U
  <2>2. /\ \A j \in 1 .. Len(T) : U[j] = T[j]
        /\ \A p \in 1 .. Len(N) : U[Len(T) + p] = N[p]
    BY <1>4, <1>7, ConcatParts
  <2> QED
    BY <1>4, <1>7, <2>1, <2>2
<1> HIDE DEF U
<1>12. Tagged(U)'
  <2>1. Len(U) = Len(Stream') + 1
    BY <1>1, <1>2, <1>3, <1>11
  <2>2. ASSUME NEW j \in 1 .. Len(U)
        PROVE  IsTag(U[j])
    <3>1. CASE j <= K + 1
      <4>1. U[j] = T[j] /\ j \in 1 .. K + 1
        BY <1>1, <1>2, <1>11, <3>1
      <4> QED
        BY <1>4, <4>1
    <3>2. CASE ~(j <= K + 1)
      <4>1. PICK p \in 1 .. L : j = K + 1 + p
        <5>1. j - (K + 1) \in 1 .. L /\ j = K + 1 + (j - (K + 1))
          BY <1>1, <1>2, <1>11, <3>2
        <5> QED
          BY <5>1
      <4>2. U[j] = N[p]
        BY <1>11, <4>1
      <4> QED
        BY <1>8, <4>2
    <3> QED
      BY <3>1, <3>2
  <2>3. ASSUME NEW j \in 1 .. Len(Stream')
        PROVE  /\ Stream'[j] = Codes(U[j + 1])[U[j + 1].at]
               /\ Follows(U[j], U[j + 1])
    <3>1. CASE j <= K
      <4>1. j \in 1 .. K /\ Stream'[j] = kb_in[j] /\ U[j] = T[j] /\ U[j + 1] = T[j + 1]
        <5>1. j \in 1 .. K /\ j \in 1 .. K + 1 /\ j + 1 \in 1 .. K + 1
          BY <1>1, <1>2, <1>3, <3>1
        <5> QED
          BY <1>3, <1>11, <5>1
      <4> QED
        BY <1>4, <4>1
    <3>2. CASE j = K + 1
      <4>1. U[j] = T[K + 1] /\ U[j + 1] = N[1] /\ Stream'[j] = C[1] /\ 1 \in 1 .. L
        <5>1. K + 1 \in 1 .. K + 1 /\ 1 \in 1 .. L
          BY <1>1, <1>2
        <5> QED
          BY <1>3, <1>11, <3>2, <5>1
      <4>2. Codes(N[1]) = C /\ N[1].at = 1
        BY <1>8, <4>1
      <4> QED
        BY <1>10, <4>1, <4>2 DEF Follows
    <3>3. CASE j > K + 1
      <4>1. PICK p \in 1 .. L - 1 : j = K + 1 + p
        <5>1. j - (K + 1) \in 1 .. L - 1 /\ j = K + 1 + (j - (K + 1))
          BY <1>1, <1>2, <1>3, <3>3
        <5> QED
          BY <5>1
      <4>2. U[j] = N[p] /\ U[j + 1] = N[p + 1] /\ Stream'[j] = C[p + 1]
        <5>1. /\ p \in 1 .. L /\ p + 1 \in 1 .. L
              /\ j + 1 = K + 1 + (p + 1) /\ j = K + (p + 1)
          <6>1. K \in Nat /\ L \in Nat \ {0} /\ p \in Int /\ 1 <= p /\ p <= L - 1
            BY <1>1, <1>2
          <6>2. p \in 1 .. L /\ p + 1 \in 1 .. L
            BY <6>1
          <6>3. j + 1 = K + 1 + (p + 1) /\ j = K + (p + 1)
            BY <4>1, <6>1
          <6> QED
            BY <6>2, <6>3
        <5>2. U[K + 1 + p] = N[p] /\ U[K + 1 + (p + 1)] = N[p + 1] /\ Stream'[K + (p + 1)] = C[p + 1]
          BY <1>3, <1>11, <5>1
        <5> QED
          BY <4>1, <5>1, <5>2
      <4>3. Codes(N[p + 1]) = C /\ N[p + 1].at = p + 1
        <5>1. p + 1 \in 1 .. L
          BY <1>1
        <5> QED
          BY <1>8, <5>1
      <4> QED
        BY <1>9, <4>1, <4>2, <4>3 DEF Follows
    <3> QED
      BY <1>1, <1>2, <1>3, <3>1, <3>2, <3>3
  <2> QED
    BY <1>11, <2>1, <2>2, <2>3 DEF Tagged
<1>13. /\ expected \in Seq(KeyPress) /\ expected' \in Seq(KeyPress)
       /\ u.make => /\ Len(expected') = Len(expected) + 1
                    /\ expected'[Len(expected) + 1] = Typed(u)
                    /\ \A p \in 1 .. Len(expected) : expected'[p] = expected[p]
       /\ ~u.make => expected' = expected
  <2>1. expected \in Seq(KeyPress) /\ Typed(u) \in KeyPress
    BY DEF TypeInv, KeyPress
  <2>2. CASE u.make
    BY <2>1, <2>2, AppendProperties
  <2> QED
    BY <2>1, <2>2
<1>14. Len(expected) \in Nat /\ u.make \in BOOLEAN /\ u.n \in Int
  BY <1>13 DEF Tag
<1>15. u.n - b = Len(expected')
  <2>1. u.n = IF u.make THEN T[K + 1].n + 1 ELSE T[K + 1].n
    BY <1>4
  <2>2. u.make => u.n = T[K + 1].n + 1 /\ Len(expected') = Len(expected) + 1
    BY <1>13, <2>1
  <2>3. ~u.make => u.n = T[K + 1].n /\ Len(expected') = Len(expected)
    BY <1>13, <2>1
  <2>4. T[K + 1].n - b = Len(expected) /\ T[K + 1].n \in Int
    BY <1>5
  <2>5. PICK m, x, y : m = T[K + 1].n /\ x = Len(expected) /\ y = Len(expected')
    OBVIOUS
  <2>6. m \in Int /\ x \in Nat /\ m - b = x
    BY <1>14, <2>4, <2>5
  <2>7. (u.n = m + 1 /\ y = x + 1) \/ (u.n = m /\ y = x)
    BY <2>2, <2>3, <2>5
  <2>8. u.n - b = y
    BY <2>6, <2>7
  <2> QED
    BY <2>5, <2>8
<1>16. Complete(U, b)'
  <2>1. U[Len(U)] = N[L] /\ L \in 1 .. L
    <3>1. L \in 1 .. L
      BY <1>1
    <3> QED
      BY <1>11, <3>1
  <2>2. N[L].at = L /\ Codes(N[L]) = C /\ N[L].down = u.down /\ N[L].n = u.n
    BY <1>8, <2>1
  <2>3. Whole(N[L])
    BY <2>2 DEF Whole, L
  <2> QED
    BY <1>15, <2>1, <2>2, <2>3 DEF Complete
<1>17. Awaited(U, b)'
  <2> SUFFICES ASSUME NEW j \in 1 .. Len(U), U[j].make, U[j].n > b
               PROVE  /\ U[j].n - b \in 1 .. Len(expected')
                      /\ expected'[U[j].n - b] = Typed(U[j])
    BY DEF Awaited
  <2>1. CASE j <= K + 1
    <3>1. U[j] = T[j] /\ j \in 1 .. Len(T)
      BY <1>1, <1>2, <1>4, <1>11, <2>1
    <3>2. T[j].n - b \in 1 .. Len(expected) /\ expected[T[j].n - b] = Typed(T[j])
      BY <3>1 DEF Explained, Awaited
    <3> QED
      BY <1>13, <1>14, <3>1, <3>2
  <2>2. CASE ~(j <= K + 1)
    <3>1. PICK p \in 1 .. L : j = K + 1 + p
      <4>1. j - (K + 1) \in 1 .. L /\ j = K + 1 + (j - (K + 1))
        BY <1>1, <1>2, <1>11, <2>2
      <4> QED
        BY <4>1
    <3>3. U[j] = N[p]
      BY <1>11, <3>1
    <3>2. U[j].make = u.make /\ U[j].n = u.n /\ Typed(U[j]) = Typed(u)
      BY <1>8, <3>1, <3>3, Zenon
    <3> QED
      BY <1>13, <1>14, <1>15, <3>2
  <2> QED
    BY <2>1, <2>2
<1>18. Parser(U[1], b)'
  <2>1. U[1] = T[1]
    <3>1. 1 \in 1 .. K + 1
      BY <1>2
    <3> QED
      BY <1>11, <3>1
  <2> QED
    BY <2>1 DEF Explained, Parser, AtByte, Recognised
<1> QED
  BY <1>12, <1>16, <1>17, <1>18 DEF Explained

LEMMA LastTag ==
  ASSUME TypeInv, NEW T, NEW b, Explained(T, b)
  PROVE  T \in Seq(Tag) /\ Len(T) = Len(Stream) + 1 /\ Len(Stream) \in Nat
<1>1. Stream \in Seq(Int)
  BY ConcatProperties DEF TypeInv, Stream
<1> QED
  BY <1>1 DEF Explained, Tagged

LEMMA Pressing ==
  ASSUME "POWER" \notin Key, TypeInv, NEW T, NEW b \in Int, Explained(T, b),
         lost = 0, Press
  PROVE  \E U : Explained(U, b)'
<1>1. PICK k \in Key :
        /\ pressed' = IF k = "PAUSE" THEN pressed ELSE pressed \union {k}
        /\ wire' = Make(k)
        /\ expected' = Append(expected, [key |-> Meaning(k, pressed'), flags |-> Flags(pressed')])
  <2>1. PICK k \in Key :
          LET down == IF k = "PAUSE" THEN pressed ELSE pressed \union {k} IN
          /\ pressed' = down
          /\ wire' = Make(k)
          /\ expected' = IF lost > 0 THEN <<>>
                         ELSE Append(expected, [key |-> Meaning(k, down), flags |-> Flags(down)])
    BY Zenon DEF Press
  <2>2. ~(lost > 0)
    OBVIOUS
  <2> QED
    BY <2>1, <2>2, Zenon
<1>2. PICK m : m = T[Len(T)].n + 1
  OBVIOUS
<1> DEFINE u == [key |-> k, make |-> TRUE, before |-> pressed, down |-> pressed', n |-> m, at |-> 1]
<1>3. k \in KnownKey /\ pressed \in SUBSET KnownKey /\ pressed' \in SUBSET KnownKey
  BY <1>1, KeysAreKnown DEF TypeInv
<1>4. m \in Int
  <2>1. T \in Seq(Tag) /\ Len(T) = Len(Stream) + 1 /\ Len(Stream) \in Nat
    BY LastTag
  <2>2. Len(T) \in 1 .. Len(T)
    BY <2>1
  <2>3. T[Len(T)] \in Tag
    BY <2>1, <2>2
  <2> QED
    BY <1>2, <2>3 DEF Tag
<1>5. /\ u \in Tag /\ u.key = k /\ u.make = TRUE /\ u.before = pressed /\ u.down = pressed'
      /\ u.n = m /\ u.at = 1
  BY <1>3, <1>4 DEF Tag
<1> HIDE DEF u
<1>6. Codes(u) = Make(k) /\ Len(Codes(u)) \in Nat \ {0}
  BY <1>5, LengthOf DEF Codes
<1>7. IsTag(u)
  BY <1>1, <1>5, <1>6 DEF IsTag
<1>8. expected' = Append(expected, Typed(u))
  BY <1>1, <1>5 DEF Typed
<1>9. wire = <<>> /\ UNCHANGED <<kb_in, pc, scan_code, key, code_with_E0, modifiers>>
  BY DEF Press, locals
<1> QED
  BY <1>1, <1>2, <1>5, <1>6, <1>7, <1>8, <1>9, Sending

LEMMA Releasing ==
  ASSUME "POWER" \notin Key, TypeInv, NEW T, NEW b \in Int, Explained(T, b), Release
  PROVE  \E U : Explained(U, b)'
<1>1. PICK k \in pressed : pressed' = pressed \ {k} /\ wire' = Break(k)
  BY DEF Release
<1>2. PICK m : m = T[Len(T)].n
  OBVIOUS
<1> DEFINE u == [key |-> k, make |-> FALSE, before |-> pressed, down |-> pressed', n |-> m, at |-> 1]
<1>3. /\ k \in KnownKey /\ k # "PAUSE"
      /\ pressed \in SUBSET KnownKey /\ pressed' \in SUBSET KnownKey
  BY <1>1, KeysAreKnown DEF TypeInv
<1>4. m \in Int
  <2>1. T \in Seq(Tag) /\ Len(T) = Len(Stream) + 1 /\ Len(Stream) \in Nat
    BY LastTag
  <2>2. Len(T) \in 1 .. Len(T)
    BY <2>1
  <2>3. T[Len(T)] \in Tag
    BY <2>1, <2>2
  <2> QED
    BY <1>2, <2>3 DEF Tag
<1>5. /\ u \in Tag /\ u.key = k /\ u.make = FALSE /\ u.before = pressed /\ u.down = pressed'
      /\ u.n = m /\ u.at = 1
  BY <1>3, <1>4 DEF Tag
<1> HIDE DEF u
<1>6. Codes(u) = Break(k) /\ Len(Codes(u)) \in Nat \ {0}
  BY <1>3, <1>5, LengthOf DEF Codes
<1>7. IsTag(u)
  BY <1>1, <1>5, <1>6 DEF IsTag
<1>8. /\ wire = <<>> /\ expected' = expected
      /\ UNCHANGED <<kb_in, pc, scan_code, key, code_with_E0, modifiers>>
  BY DEF Release, locals
<1> QED
  BY <1>1, <1>2, <1>5, <1>6, <1>7, <1>8, Sending

-----------------------------------------------------------------------------
(* keyboard_read(), byte by byte: c is the tag of the byte read last, u of *)
(* the byte that it reads now.                                             *)

\* After the last byte of an event comes the first of the next.
LEMMA AfterWhole ==
  ASSUME NEW c \in Tag, NEW u \in Tag, IsTag(c), IsTag(u), Follows(c, u), Whole(c)
  PROVE  Begins(c, u)
<1>1. Continues(c, u) => u.at = c.at + 1 /\ Codes(u) = Codes(c)
  BY DEF Continues, Codes, Tag
<1>2. c.at \in Nat /\ u.at \in 1 .. Len(Codes(u)) /\ c.at = Len(Codes(c))
  BY DEF IsTag, Whole, Tag
<1> QED
  BY <1>1, <1>2 DEF Follows

\* In the middle of an event comes its next byte.
LEMMA InTheMiddle ==
  ASSUME NEW c \in Tag, NEW u \in Tag, Follows(c, u), ~Whole(c)
  PROVE  /\ u.at = c.at + 1 /\ u.key = c.key /\ u.make = c.make /\ u.n = c.n
         /\ u.before = c.before /\ u.down = c.down /\ Codes(u) = Codes(c)
BY DEF Follows, Begins, Continues, Codes, Tag

LEMMA PcNames ==
  /\ PausePc[1] = "pause1" /\ PausePc[2] = "pause2" /\ PausePc[3] = "pause3"
  /\ PausePc[4] = "pause4" /\ PausePc[5] = "pause5"
BY DEF PausePc

LEMMA FirstByteStep ==
  ASSUME NEW c \in Tag, NEW u \in Tag, NEW b \in Int, IsTag(c), IsTag(u), Follows(c, u),
         Byte = Codes(u)[u.at], Parser(c, b), FirstByte
  PROVE  Parser(u, b)'
<1>1. /\ pc = "poll" /\ modifiers' = modifiers /\ scan_code' = Byte /\ key' = "none"
      /\ code_with_E0' = FALSE
      /\ pc' = CASE Byte = E1 -> "pause1" [] Byte = E0 -> "e0" [] OTHER -> "decode"
  BY DEF FirstByte, GetByte
<1>2. /\ Whole(c) /\ b = c.n /\ modifiers = Flags(c.down)
  BY <1>1 DEF Parser, AtByte
<1>3. /\ u.at = 1 /\ u.before = c.down /\ u.n = IF u.make THEN c.n + 1 ELSE c.n
      /\ Byte = Codes(u)[1]
  BY <1>2, AfterWhole DEF Begins
<1>4. u.make \in BOOLEAN /\ u.n \in Int /\ c.n \in Int
  BY DEF Tag
<1>5. b = IF u.make THEN u.n - 1 ELSE u.n
  BY <1>2, <1>3, <1>4
<1>6. modifiers' = Flags(u.before)
  BY <1>1, <1>2, <1>3
<1>7. CASE u.key = "PAUSE"
  <2>1. u.make /\ Byte = 225
    BY <1>3, <1>4, <1>7, BytesOf, LengthOf DEF IsTag
  <2>2. pc' = "pause1"
    BY <1>1, <2>1 DEF E0, E1
  <2> QED
    BY <1>1, <1>3, <1>5, <1>6, <1>7, <2>1, <2>2, PcNames DEF Parser, AtByte
<1>8. CASE u.key \in Extended \union {"PRTSCRN"}
  <2>1. Byte = 224
    BY <1>3, <1>8, BytesOf
  <2>2. pc' = "e0"
    BY <1>1, <2>1 DEF E0, E1
  <2> QED
    BY <1>1, <1>3, <1>5, <1>6, <1>8, <2>2, PcNames DEF Parser, AtByte
<1>9. CASE u.key \notin Extended \union {"PRTSCRN", "PAUSE"}
  <2>1. Byte = Code[u.key] + (IF u.make THEN 0 ELSE 128)
    BY <1>3, <1>9, BytesOf
  <2>2. Byte # 225 /\ Byte # 224
    BY <1>9, <2>1, CodeTable DEF Tag, KnownKey, Extended
  <2>3. pc' = "decode"
    BY <1>1, <2>2 DEF E0, E1
  <2>4. Whole(u)
    BY <1>3, <1>9, LengthOf DEF Whole
  <2>5. Recognised(u)'
    BY <1>1, <1>9, <2>1 DEF Recognised, FLAG_BREAK
  <2> QED
    BY <1>1, <1>5, <1>6, <2>3, <2>4, <2>5, PcNames DEF Parser, AtByte
<1> QED
  BY <1>7, <1>8, <1>9

LEMMA SecondByteStep ==
  ASSUME NEW c \in Tag, NEW u \in Tag, NEW b \in Int, IsTag(c), IsTag(u), Follows(c, u),
         Byte = Codes(u)[u.at], Parser(c, b), SecondByte
  PROVE  Parser(u, b)'
<1>1. /\ pc = "e0" /\ modifiers' = modifiers /\ scan_code' = Byte /\ key' = key
      /\ Byte \in {42, 183} => pc' = "print1"
      /\ Byte \notin {42, 183} => pc' = "decode" /\ code_with_E0' = TRUE
  BY DEF SecondByte, GetByte
<1>2. /\ c.at = 1 /\ c.key \in Extended \union {"PRTSCRN"} /\ key = "none"
      /\ b = IF c.make THEN c.n - 1 ELSE c.n
      /\ modifiers = Flags(c.before)
  BY <1>1, PcNames DEF Parser, AtByte
<1>3. ~Whole(c)
  <2>1. Len(Codes(c)) \in {2, 4}
    BY <1>2, LengthOf DEF Extended
  <2> QED
    BY <1>2, <2>1 DEF Whole
<1>4. /\ u.at = 2 /\ u.key = c.key /\ u.make = c.make /\ u.n = c.n
      /\ u.before = c.before /\ u.down = c.down /\ Byte = Codes(u)[2]
  BY <1>2, <1>3, InTheMiddle
<1>5. b = (IF u.make THEN u.n - 1 ELSE u.n) /\ modifiers' = Flags(u.before)
  BY <1>1, <1>2, <1>4
<1>6. CASE u.key = "PRTSCRN"
  <2>1. Byte = IF u.make THEN 42 ELSE 183
    BY <1>4, <1>6, BytesOf
  <2> QED
    BY <1>1, <1>2, <1>4, <1>5, <1>6, <2>1, PcNames DEF Parser, AtByte
<1>7. CASE u.key \in Extended
  <2>1. Byte = Code[u.key] + (IF u.make THEN 0 ELSE 128)
    BY <1>4, <1>7, BytesOf
  <2>2. Byte \notin {42, 183}
    BY <1>7, <2>1, CodeTable DEF Tag, KnownKey, Extended
  <2>3. Whole(u)
    BY <1>4, <1>7, LengthOf DEF Whole, Extended
  <2>4. Recognised(u)'
    BY <1>1, <1>2, <1>7, <2>1, <2>2 DEF Recognised, FLAG_BREAK, Extended
  <2> QED
    BY <1>1, <1>5, <2>2, <2>3, <2>4, PcNames DEF Parser, AtByte
<1> QED
  BY <1>2, <1>4, <1>6, <1>7

LEMMA PauseByteStep ==
  ASSUME NEW c \in Tag, NEW u \in Tag, NEW b \in Int, IsTag(c), IsTag(u), Follows(c, u),
         Byte = Codes(u)[u.at], Parser(c, b), PauseByte
  PROVE  Parser(u, b)'
<1>1. PICK p \in 1 .. 5 :
        /\ pc = PausePc[p]
        /\ modifiers' = modifiers
        /\ pc' = IF Byte = PauseCode[p] /\ p < 5 THEN PausePc[p + 1] ELSE "decode"
        /\ key' = IF Byte = PauseCode[p] /\ p = 5 THEN "PAUSEBREAK" ELSE key
  BY DEF PauseByte, GetByte
<1>2. p \in {1, 2, 3, 4, 5} /\ pc \in {"pause1", "pause2", "pause3", "pause4", "pause5"}
  BY <1>1, PcNames
<1>3. /\ c.key = "PAUSE" /\ c.make /\ c.at = p /\ key = "none"
      /\ b = c.n - 1
      /\ modifiers = Flags(c.before)
  BY <1>1, <1>2 DEF Parser, AtByte
<1>4. Len(Codes(c)) = 6 /\ ~Whole(c)
  <2>1. Len(Codes(c)) = 6
    BY <1>3, LengthOf
  <2> QED
    BY <1>2, <1>3, <2>1 DEF Whole
<1>5. /\ u.at = p + 1 /\ u.key = "PAUSE" /\ u.make /\ u.n = c.n
      /\ u.before = c.before /\ Codes(u) = <<225, 29, 69, 225, 157, 197>>
  BY <1>3, <1>4, InTheMiddle, BytesOf
<1>6. Byte = PauseCode[p]
  BY <1>2, <1>5 DEF PauseCode, E1
<1>7. b = u.n - 1 /\ modifiers' = Flags(u.before)
  BY <1>1, <1>3, <1>5
<1>8. CASE p < 5
  <2>1. pc' = PausePc[p + 1] /\ key' = "none"
    BY <1>1, <1>3, <1>6, <1>8
  <2>2. \A j \in 1 .. 5 : pc' = PausePc[j] => j = p + 1
    <3>1. CASE p = 1
      BY <2>1, <3>1, PcNames
    <3>2. CASE p = 2
      BY <2>1, <3>2, PcNames
    <3>3. CASE p = 3
      BY <2>1, <3>3, PcNames
    <3>4. CASE p = 4
      BY <2>1, <3>4, PcNames
    <3> QED
      BY <1>2, <1>8, <3>1, <3>2, <3>3, <3>4
  <2>3. pc' \in {"pause2", "pause3", "pause4", "pause5"}
    BY <1>2, <1>8, <2>1, PcNames
  <2> QED
    BY <1>5, <1>7, <2>1, <2>2, <2>3 DEF Parser, AtByte
<1>9. CASE p = 5
  <2>1. pc' = "decode" /\ key' = "PAUSEBREAK"
    BY <1>1, <1>6, <1>9
  <2>2. Whole(u)
    BY <1>5, <1>9, LengthOf DEF Whole
  <2>3. Recognised(u)'
    BY <1>5, <2>1 DEF Recognised
  <2> QED
    BY <1>5, <1>7, <2>1, <2>2, <2>3, PcNames DEF Parser, AtByte
<1> QED
  BY <1>2, <1>8, <1>9

LEMMA PrintScreenByteStep ==
  ASSUME NEW c \in Tag, NEW u \in Tag, NEW b \in Int, IsTag(c), IsTag(u), Follows(c, u),
         Byte = Codes(u)[u.at], Parser(c, b), PrintScreenByte
  PROVE  Parser(u, b)'
<1>1. /\ pc \in {"print1", "print2"} /\ modifiers' = modifiers /\ scan_code' = scan_code
      /\ pc = "print1" /\ Byte = E0 => pc' = "print2" /\ key' = key
      /\ pc = "print2" /\ Byte = (IF scan_code = 42 THEN 55 ELSE 170) =>
           pc' = "decode" /\ key' = "PRINTSCREEN"
  BY DEF PrintScreenByte, GetByte
<1>2. /\ c.key = "PRTSCRN" /\ scan_code = (IF c.make THEN 42 ELSE 183) /\ key = "none"
      /\ c.at = IF pc = "print1" THEN 2 ELSE 3
      /\ b = IF c.make THEN c.n - 1 ELSE c.n
      /\ modifiers = Flags(c.before)
  BY <1>1 DEF Parser, AtByte
<1>3. Len(Codes(c)) = 4 /\ ~Whole(c)
  <2>1. Len(Codes(c)) = 4
    BY <1>2, LengthOf
  <2>2. c.at \in {2, 3}
    BY <1>1, <1>2
  <2> QED
    BY <2>1, <2>2 DEF Whole
<1>4. /\ u.at = c.at + 1 /\ u.key = "PRTSCRN" /\ u.make = c.make /\ u.n = c.n
      /\ u.before = c.before /\ Codes(u) = Codes(c)
      /\ Codes(c) = IF c.make THEN <<224, 42, 224, 55>> ELSE <<224, 183, 224, 170>>
  BY <1>2, <1>3, InTheMiddle, BytesOf
<1>5. b = (IF u.make THEN u.n - 1 ELSE u.n) /\ modifiers' = Flags(u.before)
  BY <1>1, <1>2, <1>4
<1>6. CASE pc = "print1"
  <2>1. u.at = 3 /\ Byte = E0
    BY <1>2, <1>4, <1>6 DEF E0
  <2> QED
    BY <1>1, <1>2, <1>4, <1>5, <1>6, <2>1, PcNames DEF Parser, AtByte
<1>7. CASE pc = "print2"
  <2>1. u.at = 4 /\ Byte = IF c.make THEN 55 ELSE 170
    BY <1>2, <1>4, <1>7
  <2>2. pc' = "decode" /\ key' = "PRINTSCREEN"
    BY <1>1, <1>2, <1>7, <2>1
  <2>3. Whole(u)
    BY <1>3, <1>4, <2>1 DEF Whole
  <2>4. Recognised(u)'
    BY <1>1, <1>2, <1>4, <2>2 DEF Recognised
  <2> QED
    BY <1>5, <2>2, <2>3, <2>4, PcNames DEF Parser, AtByte
<1> QED
  BY <1>1, <1>6, <1>7

-----------------------------------------------------------------------------
(* The end of an event: c is still the tag of the byte read last.          *)

\* While the bytes and the keys expected stay, so do the tags.
LEMMA SameTags ==
  ASSUME NEW T, NEW b, Tagged(T), Complete(T, b), Awaited(T, b),
         UNCHANGED <<keyboard, kb_in, expected>>
  PROVE  Tagged(T)' /\ Complete(T, b)' /\ Awaited(T, b)'
BY DEF Tagged, Complete, Awaited, Stream, keyboard

LEMMA DecodeStep ==
  ASSUME NEW c \in Tag, NEW b \in Int, IsTag(c), Parser(c, b), Decode
  PROVE  Parser(c, b)'
<1> DEFINE k == KeyOf(c)
<1>1. /\ pc = "decode" /\ key = "none"
      /\ LET make == scan_code < FLAG_BREAK
             r    == keymap(scan_code % FLAG_BREAK)[Column]
         IN /\ Finish(make, r)
            /\ modifiers' = IF r \in ModifierKey
                            THEN IF make THEN modifiers \union {r} ELSE modifiers \ {r}
                            ELSE modifiers
  BY DEF Decode
<1>2. /\ Whole(c) /\ modifiers = Flags(c.before) /\ Recognised(c)
      /\ b = IF c.make THEN c.n - 1 ELSE c.n
  BY <1>1, PcNames DEF Parser, AtByte
<1>3. /\ c.key \in KnownKey \ {"PRTSCRN", "PAUSE"} /\ c.make \in BOOLEAN
      /\ scan_code = Code[c.key] + (IF c.make THEN 0 ELSE 128)
      /\ code_with_E0 <=> c.key \in Extended
  BY <1>1, <1>2 DEF Recognised, Tag, FLAG_BREAK
<1>4. Code[c.key] \in Int /\ 0 < Code[c.key] /\ Code[c.key] < 128
  BY <1>3, CodeTable DEF KnownKey
<1>5. scan_code < FLAG_BREAK <=> c.make
  BY <1>3, <1>4 DEF FLAG_BREAK
<1>6. scan_code % FLAG_BREAK = Code[c.key]
  BY <1>3, <1>4 DEF FLAG_BREAK
<1>7. keymap(scan_code % FLAG_BREAK)[Column] = k
  BY <1>2, <1>3, <1>6 DEF Column, KeyOf
<1>8. /\ c.make => k = Meaning(c.key, c.down)
      /\ k \in ModifierKey <=> c.key \in DOMAIN Flag
      /\ c.key \in DOMAIN Flag => k = Flag[c.key]
  BY <1>3, KeymapIsMeaning
<1> HIDE DEF k
<1>9. /\ pc' = (IF c.make THEN "process" ELSE "poll")
      /\ key' = IF c.make THEN k ELSE "none"
      /\ modifiers' = IF k \in ModifierKey
                      THEN IF c.make THEN modifiers \union {k} ELSE modifiers \ {k}
                      ELSE modifiers
  BY <1>1, <1>5, <1>7 DEF Finish
<1>10. c.down = IF c.make THEN c.before \union {c.key} ELSE c.before \ {c.key}
  BY <1>3 DEF IsTag
<1>11. modifiers' = Flags(c.down)
  <2>1. CASE c.make
    <3>1. Flags(c.down) = Flags(c.before \union {c.key})
      BY <1>10, <2>1
    <3>2. Flags(c.before \union {c.key}) = IF c.key \in DOMAIN Flag THEN Flags(c.before) \union {Flag[c.key]}
                                        ELSE Flags(c.before)
      BY FlagsChange
    <3>3. Flags(c.down) = IF k \in ModifierKey THEN Flags(c.before) \union {k} ELSE Flags(c.before)
      BY <1>8, <3>1, <3>2
    <3> QED
      BY <1>2, <1>9, <2>1, <3>3
  <2>2. CASE ~c.make
    <3>1. Flags(c.down) = Flags(c.before \ {c.key})
      BY <1>10, <2>2
    <3>2. Flags(c.before \ {c.key}) = IF c.key \in DOMAIN Flag THEN Flags(c.before) \ {Flag[c.key]}
                                        ELSE Flags(c.before)
      BY FlagsChange
    <3>3. Flags(c.down) = IF k \in ModifierKey THEN Flags(c.before) \ {k} ELSE Flags(c.before)
      BY <1>8, <3>1, <3>2
    <3> QED
      BY <1>2, <1>9, <2>2, <3>3
  <2> QED
    BY <2>1, <2>2
<1>12. CASE c.make
  <2>1. pc' = "process" /\ key' = Meaning(c.key, c.down) /\ b = c.n - 1
    BY <1>2, <1>8, <1>9, <1>12
  <2> QED
    BY <1>2, <1>11, <1>12, <2>1, PcNames DEF Parser, AtByte
<1>13. CASE ~c.make
  <2>1. pc' = "poll" /\ key' = "none" /\ b = c.n
    BY <1>2, <1>9, <1>13
  <2> QED
    BY <1>2, <1>11, <2>1, PcNames DEF Parser, AtByte
<1> QED
  BY <1>12, <1>13

\* Pause and PrintScreen are no modifiers.
LEMMA SpecialFlags ==
  ASSUME NEW c \in Tag, IsTag(c), c.key \in {"PRTSCRN", "PAUSE"}
  PROVE  /\ Flags(c.down) = Flags(c.before)
         /\ Meaning(c.key, c.down) = IF c.key = "PAUSE" THEN "PAUSEBREAK" ELSE "PRINTSCREEN"
<1>1. c.key \notin DOMAIN Flag
  BY FlagTable
<1>2. c.make \in BOOLEAN
  BY DEF Tag
<1>3. \/ c.down = c.before
      \/ c.down = c.before \union {c.key}
      \/ c.down = c.before \ {c.key}
  BY <1>2 DEF IsTag
<1>4. Flags(c.down) = Flags(c.before)
  <2>1. /\ Flags(c.before \union {c.key}) = Flags(c.before)
        /\ Flags(c.before \ {c.key}) = Flags(c.before)
    BY <1>1, FlagsChange
  <2> QED
    BY <1>3, <2>1
<1>5. Meaning(c.key, c.down) = IF c.key = "PAUSE" THEN "PAUSEBREAK" ELSE "PRINTSCREEN"
  BY <1>1 DEF Meaning
<1> QED
  BY <1>4, <1>5

\* The next key that is expected is the one of the event that ends.
LEMMA NextExpected ==
  ASSUME TypeInv, NEW T, NEW b \in Int, Tagged(T), Complete(T, b), Awaited(T, b), T[1] \in Tag,
         T[1].make, b = T[1].n - 1
  PROVE  /\ expected # <<>>
         /\ Head(expected) = Typed(T[1])
         /\ UNCHANGED <<keyboard, kb_in>> /\ expected' = Tail(expected) =>
              Tagged(T)' /\ Complete(T, b + 1)' /\ Awaited(T, b + 1)'
<1>1. T[1].n \in Int /\ T[1].n - b = 1 /\ T[1].n > b
  BY DEF Tag
<1>2. T \in Seq(Tag) /\ Len(T) \in Nat \ {0}
  <2>1. Stream \in Seq(Int)
    BY ConcatProperties DEF TypeInv, Stream
  <2> QED
    BY <2>1 DEF Tagged
<1>3. /\ 1 \in 1 .. Len(T) /\ Len(T) \in 1 .. Len(T)
      /\ \A j \in 1 .. Len(T) : T[j] \in Tag /\ T[j].n \in Int
  <2>1. \A j \in 1 .. Len(T) : T[j] \in Tag
    BY <1>2
  <2> QED
    BY <1>2, <2>1 DEF Tag
<1>4. 1 \in 1 .. Len(expected) /\ expected[1] = Typed(T[1])
  BY <1>1, <1>3 DEF Awaited
<1>5. /\ expected \in Seq(KeyPress) /\ expected # <<>> /\ Head(expected) = expected[1]
      /\ Len(expected) \in Nat \ {0}
  BY <1>4 DEF TypeInv
<1>6. ASSUME UNCHANGED <<keyboard, kb_in>>, expected' = Tail(expected)
      PROVE  Tagged(T)' /\ Complete(T, b + 1)' /\ Awaited(T, b + 1)'
  <2>1. /\ Len(expected') = Len(expected) - 1
        /\ \A p \in 1 .. Len(expected') : expected'[p] = expected[p + 1]
    BY <1>5, <1>6, HeadTailProperties
  <2>2. Tagged(T)'
    BY <1>6 DEF Tagged, Stream, keyboard
  <2>3. Complete(T, b + 1)'
    <3>1. T[Len(T)].n \in Int /\ T[Len(T)].n - b = Len(expected)
      BY <1>3 DEF Complete
    <3>2. T[Len(T)].n - (b + 1) = Len(expected')
      BY <1>5, <2>1, <3>1
    <3> QED
      BY <1>6, <3>2 DEF Complete, keyboard
  <2>4. Awaited(T, b + 1)'
    <3> SUFFICES ASSUME NEW j \in 1 .. Len(T), T[j].make, T[j].n > b + 1
                 PROVE  /\ T[j].n - (b + 1) \in 1 .. Len(expected')
                        /\ expected'[T[j].n - (b + 1)] = Typed(T[j])
      BY DEF Awaited
    <3>1. T[j].n - b \in 1 .. Len(expected) /\ expected[T[j].n - b] = Typed(T[j])
      BY <1>3 DEF Awaited
    <3>2. T[j].n \in Int
      BY <1>3
    <3>3. T[j].n - (b + 1) \in 1 .. Len(expected') /\ (T[j].n - (b + 1)) + 1 = T[j].n - b
      BY <1>5, <2>1, <3>1, <3>2
    <3> QED
      BY <2>1, <3>1, <3>3
  <2> QED
    BY <2>2, <2>3, <2>4
<1> QED
  BY <1>4, <1>5, <1>6

LEMMA DecodeSpecialStep ==
  ASSUME TypeInv, NEW T, NEW b \in Int, Explained(T, b), T[1] \in Tag, IsTag(T[1]),
         DecodeSpecial
  PROVE  /\ \E e \in Int : Explained(T, e)'
         /\ dropped' \subseteq dropped \union {"PAUSEBREAK"}
<1> DEFINE c == T[1]
<1>1. PICK make \in IF key = "PAUSEBREAK" THEN BOOLEAN ELSE {scan_code = 42} :
        /\ Finish(make, key)
        /\ IF key = "PAUSEBREAK" /\ ~make /\ expected /= <<>>
           THEN expected' = Tail(expected) /\ dropped' = dropped \union {Head(expected).key}
           ELSE UNCHANGED <<expected, dropped>>
  BY DEF DecodeSpecial
<1>2. /\ pc = "decode" /\ key # "none" /\ modifiers' = modifiers
      /\ UNCHANGED <<keyboard, kb_in>>
  BY DEF DecodeSpecial
<1>3. /\ Whole(c) /\ modifiers = Flags(c.before) /\ Recognised(c)
      /\ b = IF c.make THEN c.n - 1 ELSE c.n
  BY <1>2, PcNames DEF Explained, Parser, AtByte
<1>4. c.key \in {"PRTSCRN", "PAUSE"} /\ c.make \in BOOLEAN /\ c.n \in Int
  BY <1>2, <1>3 DEF Recognised, Tag
<1>5. Flags(c.down) = Flags(c.before)
      /\ Meaning(c.key, c.down) = IF c.key = "PAUSE" THEN "PAUSEBREAK" ELSE "PRINTSCREEN"
  BY <1>4, SpecialFlags
<1>6. key = Meaning(c.key, c.down) /\ modifiers' = Flags(c.down)
  BY <1>2, <1>3, <1>4, <1>5 DEF Recognised
<1>7. pc' = (IF make THEN "process" ELSE "poll") /\ key' = IF make THEN key ELSE "none"
  BY <1>1 DEF Finish
<1> HIDE DEF c
<1>8. CASE c.make /\ ~make
  <2>1. key = "PAUSEBREAK"
    BY <1>1, <1>3, <1>4, <1>8 DEF Recognised
  <2>2. b = c.n - 1
    BY <1>3, <1>8
  <2>3. /\ expected # <<>> /\ Head(expected) = Typed(c)
        /\ expected' = Tail(expected) =>
             Tagged(T)' /\ Complete(T, b + 1)' /\ Awaited(T, b + 1)'
    BY <1>2, <1>8, <2>2, NextExpected DEF Explained, c
  <2>4. Tagged(T)' /\ Complete(T, b + 1)' /\ Awaited(T, b + 1)'
    BY <1>1, <1>8, <2>1, <2>3
  <2>5. Parser(c, b + 1)'
    BY <1>3, <1>4, <1>6, <1>7, <1>8, <2>2, PcNames DEF Parser, AtByte
  <2>6. Explained(T, b + 1)'
    BY <2>4, <2>5 DEF Explained, c
  <2>7. dropped' = dropped \union {"PAUSEBREAK"}
    <3>1. Head(expected).key = "PAUSEBREAK"
      BY <1>6, <2>1, <2>3 DEF Typed
    <3> QED
      BY <1>1, <1>8, <2>1, <2>3, <3>1
  <2> QED
    BY <2>6, <2>7
<1>9. CASE ~(c.make /\ ~make)
  <2>1. make = c.make
    BY <1>1, <1>3, <1>4, <1>9 DEF Recognised
  <2>2. expected' = expected /\ dropped' = dropped
    BY <1>1, <1>3, <1>4, <2>1 DEF Recognised
  <2>3. Tagged(T)' /\ Complete(T, b)' /\ Awaited(T, b)'
    BY <1>2, <2>2, SameTags DEF Explained
  <2>4. Parser(c, b)'
    BY <1>3, <1>4, <1>6, <1>7, <2>1, PcNames DEF Parser, AtByte
  <2>5. Explained(T, b)'
    BY <2>3, <2>4 DEF Explained, c
  <2> QED
    BY <2>2, <2>5
<1> QED
  BY <1>8, <1>9

LEMMA InProcessStep ==
  ASSUME TypeInv, NEW T, NEW b \in Int, Explained(T, b), T[1] \in Tag, InProcess
  PROVE  \E e \in Int : Explained(T, e)'
<1> DEFINE c == T[1]
<1>1. /\ pc = "process" /\ pc' = "poll" /\ key' = "none" /\ modifiers' = modifiers
      /\ expected' = (IF expected = <<>> THEN <<>> ELSE Tail(expected))
      /\ UNCHANGED <<keyboard, kb_in>>
  BY DEF InProcess
<1>2. Whole(c) /\ c.make /\ b = c.n - 1 /\ modifiers = Flags(c.down)
  BY <1>1, PcNames DEF Explained, Parser, AtByte
<1>3. expected # <<>> /\ (expected' = Tail(expected) =>
                            Tagged(T)' /\ Complete(T, b + 1)' /\ Awaited(T, b + 1)')
  BY <1>1, <1>2, NextExpected DEF Explained
<1>4. Tagged(T)' /\ Complete(T, b + 1)' /\ Awaited(T, b + 1)'
  BY <1>1, <1>3
<1>5. c.n \in Int
  BY DEF Tag
<1>6. Parser(c, b + 1)'
  BY <1>1, <1>2, <1>5, PcNames DEF Parser, AtByte
<1>7. Explained(T, b + 1)'
  BY <1>4, <1>6 DEF Explained
<1> QED
  BY <1>7

-----------------------------------------------------------------------------
(* The invariant.                                                          *)

LEMMA InitInv ==
  ASSUME Init
  PROVE  IInv
<1>1. TypeInv /\ PcInv
  BY DEF Init, TypeInv, PcInv
<1> DEFINE c == [key |-> "A", make |-> FALSE, before |-> {}, down |-> {}, n |-> 0, at |-> 1]
           T == <<c>>
<1>2. /\ c \in Tag /\ c.key = "A" /\ c.make = FALSE /\ c.before = {} /\ c.down = {}
      /\ c.n = 0 /\ c.at = 1
  BY DEF Tag, KnownKey
<1> HIDE DEF c
<1>3. Len(Codes(c)) = 1
  BY <1>2, LengthOf DEF Extended
<1>4. IsTag(c) /\ Whole(c)
  BY <1>2, <1>3 DEF IsTag, Whole
<1>5. Stream = <<>> /\ T \in Seq(Tag) /\ Len(T) = 1 /\ T[1] = c
  BY <1>2 DEF Init, Stream
<1>6. Tagged(T)
  BY <1>4, <1>5 DEF Tagged
<1>7. Complete(T, 0) /\ Awaited(T, 0)
  BY <1>2, <1>4, <1>5 DEF Init, Complete, Awaited
<1>8. Flags({}) = {}
  BY DEF Flags
<1>9. Parser(c, 0)
  <2>1. pc = "poll" /\ key = "none" /\ modifiers = {}
    BY DEF Init
  <2> QED
    BY <1>2, <1>4, <1>8, <2>1, PcNames DEF Parser, AtByte
<1>10. Explained(T, 0) /\ 0 \in Int
  BY <1>5, <1>6, <1>7, <1>9 DEF Explained
<1>11. dropped = {}
  BY DEF Init
<1> QED
  BY <1>1, <1>10, <1>11 DEF IInv

LEMMA SentBytes ==
  ASSUME "POWER" \notin Key, NEW k \in Key, NEW down \in SUBSET KnownKey
  PROVE  /\ Make(k) \in Seq(Int) /\ Break(k) \in Seq(Int)
         /\ [key |-> Meaning(k, down), flags |-> Flags(down)] \in KeyPress
<1> DEFINE t(mk) == [key |-> k, make |-> mk, before |-> {}, down |-> down, n |-> 0, at |-> 1]
<1>1. t(TRUE) \in Tag /\ t(FALSE) \in Tag
  BY KeysAreKnown DEF Tag
<1>2. Codes(t(TRUE)) = Make(k) /\ Codes(t(FALSE)) = Break(k)
  BY DEF Codes
<1>3. Typed(t(TRUE)) = [key |-> Meaning(k, down), flags |-> Flags(down)]
  BY DEF Typed
<1> HIDE DEF t
<1>4. Make(k) \in Seq(Int) /\ Break(k) \in Seq(Int)
  BY <1>1, <1>2, CodesType
<1> QED
  BY <1>1, <1>3, <1>4 DEF KeyPress

LEMMA TypeStep ==
  ASSUME "POWER" \notin Key, TypeInv, Next
  PROVE  TypeInv'
<1>1. CASE Press
  <2>1. PICK k \in Key :
          LET down == IF k = "PAUSE" THEN pressed ELSE pressed \union {k} IN
          /\ pressed' = down
          /\ wire' = Make(k)
          /\ expected' = IF lost > 0 THEN <<>>
                         ELSE Append(expected, [key |-> Meaning(k, down), flags |-> Flags(down)])
    BY <1>1, Zenon DEF Press
  <2>2. /\ kb_in' = kb_in /\ lost' = lost
        /\ pressed' = IF k = "PAUSE" THEN pressed ELSE pressed \union {k}
        /\ expected' = IF lost > 0 THEN <<>>
                       ELSE Append(expected, [key |-> Meaning(k, pressed'), flags |-> Flags(pressed')])
    BY <1>1, <2>1 DEF Press
  <2>3. pressed' \subseteq Key \ {"PAUSE"}
    BY <2>2 DEF TypeInv
  <2>4. pressed' \in SUBSET KnownKey
    BY <2>3, KeysAreKnown
  <2>5. PICK r : r = [key |-> Meaning(k, pressed'), flags |-> Flags(pressed')]
    OBVIOUS
  <2>6. wire' \in Seq(Int) /\ r \in KeyPress
    BY <2>1, <2>4, <2>5, SentBytes
  <2>7. expected' = IF lost > 0 THEN <<>> ELSE Append(expected, r)
    BY <2>2, <2>5
  <2>8. expected' \in Seq(KeyPress)
    BY <2>6, <2>7 DEF TypeInv
  <2> QED
    BY <2>2, <2>3, <2>6, <2>8 DEF TypeInv
<1>2. CASE Release
  <2>1. PICK k \in pressed : pressed' = pressed \ {k} /\ wire' = Break(k)
    BY <1>2 DEF Release
  <2>2. wire' \in Seq(Int)
    BY <2>1, SentBytes DEF TypeInv
  <2> QED
    BY <1>2, <2>1, <2>2 DEF Release, TypeInv
<1>3. CASE Arrive
  <2>1. /\ pressed' = pressed /\ wire # <<>> /\ wire' = Tail(wire)
        /\ kb_in' = kb_in \/ kb_in' = Append(kb_in, Head(wire))
        /\ lost' = lost \/ lost' = lost + 1
        /\ expected' = expected \/ expected' = <<>>
    BY <1>3 DEF Arrive
  <2>2. Head(wire) \in Int /\ Tail(wire) \in Seq(Int)
    BY <2>1 DEF TypeInv
  <2>3. kb_in' \in Seq(Int)
    <3>1. kb_in \in Seq(Int)
      BY DEF TypeInv
    <3>2. Append(kb_in, Head(wire)) \in Seq(Int)
      BY <2>2, <3>1, AppendProperties
    <3> QED
      BY <2>1, <3>1, <3>2
  <2>4. <<>> \in Seq(KeyPress)
    OBVIOUS
  <2>5. expected' \in Seq(KeyPress)
    BY <2>1, <2>4, Zenon DEF TypeInv
  <2>6. lost' \in Nat
    BY <2>1 DEF TypeInv
  <2> QED
    BY <2>1, <2>2, <2>3, <2>5, <2>6 DEF TypeInv
<1>4. CASE keyboard_read
  <2>1. /\ UNCHANGED <<pressed, wire, lost>>
        /\ kb_in' = kb_in \/ (kb_in # <<>> /\ kb_in' = Tail(kb_in))
        /\ expected' = expected \/ (expected # <<>> /\ expected' = Tail(expected))
    <3>1. CASE FirstByte
      BY <3>1 DEF FirstByte, GetByte, keyboard
    <3>2. CASE PauseByte
      BY <3>2 DEF PauseByte, GetByte, keyboard
    <3>3. CASE SecondByte
      BY <3>3 DEF SecondByte, GetByte, keyboard
    <3>4. CASE PrintScreenByte
      BY <3>4 DEF PrintScreenByte, GetByte, keyboard
    <3>5. CASE Decode
      BY <3>5 DEF Decode, keyboard
    <3>6. CASE DecodeSpecial
      BY <3>6 DEF DecodeSpecial, keyboard
    <3>7. CASE InProcess
      BY <3>7 DEF InProcess, keyboard
    <3> QED
      BY <1>4, <3>1, <3>2, <3>3, <3>4, <3>5, <3>6, <3>7 DEF keyboard_read
  <2>2. \A S : \A s \in Seq(S) : s # <<>> => Tail(s) \in Seq(S)
    BY HeadTailProperties
  <2>3. kb_in' \in Seq(Int) /\ expected' \in Seq(KeyPress)
    BY <2>1, <2>2, Zenon DEF TypeInv
  <2> QED
    BY <2>1, <2>3 DEF TypeInv
<1> QED
  BY <1>1, <1>2, <1>3, <1>4 DEF Next

LEMMA PcStep ==
  ASSUME PcInv, Next
  PROVE  PcInv'
<1>1. CASE Press \/ Release \/ Arrive
  BY <1>1 DEF Press, Release, Arrive, PcInv
<1>2. CASE FirstByte
  <2>1. pc' \in {"pause1", "e0", "decode"}
    BY <1>2 DEF FirstByte, E0, E1
  <2> QED
    BY <2>1, PcNames DEF PcInv
<1>3. CASE PauseByte
  BY <1>3 DEF PauseByte, PcInv
<1>4. CASE SecondByte \/ PrintScreenByte
  BY <1>4 DEF SecondByte, PrintScreenByte, PcInv
<1>5. CASE Decode \/ DecodeSpecial \/ InProcess
  BY <1>5 DEF Decode, DecodeSpecial, InProcess, Finish, PcInv
<1> QED
  BY <1>1, <1>2, <1>3, <1>4, <1>5 DEF Next, keyboard_read

LEMMA ExplainedStep ==
  ASSUME "POWER" \notin Key, TypeInv, NEW T, NEW b \in Int, Explained(T, b), Next,
         lost = 0, lost' = 0
  PROVE  \E U, e : e \in Int /\ Explained(U, e)'
<1>1. CASE Press
  <2>1. \E U : Explained(U, b)'
    BY <1>1, Pressing
  <2> QED
    BY <2>1
<1>2. CASE Release
  <2>1. \E U : Explained(U, b)'
    BY <1>2, Releasing
  <2> QED
    BY <2>1
<1>3. CASE Arrive
  <2>1. Explained(T, b)'
    BY <1>3, Arriving
  <2> QED
    BY <2>1
<1>4. CASE FirstByte \/ PauseByte \/ SecondByte \/ PrintScreenByte
  <2>1. kb_in # <<>> /\ kb_in' = Tail(kb_in) /\ UNCHANGED <<keyboard, expected>>
    BY <1>4 DEF FirstByte, PauseByte, SecondByte, PrintScreenByte, GetByte
  <2>2. /\ T[1] \in Tag /\ IsTag(T[1])
        /\ T[2] \in Tag /\ IsTag(T[2])
        /\ Follows(T[1], T[2])
        /\ Byte = Codes(T[2])[T[2].at]
        /\ Tail(T)[1] = T[2]
        /\ Tagged(Tail(T))' /\ Complete(Tail(T), b)' /\ Awaited(Tail(T), b)'
    BY <2>1, Reading DEF Explained
  <2>3. Parser(T[1], b)
    BY DEF Explained
  <2>4. Parser(T[2], b)'
    BY <1>4, <2>2, <2>3, FirstByteStep, PauseByteStep, SecondByteStep, PrintScreenByteStep
  <2>5. Explained(Tail(T), b)'
    BY <2>2, <2>4 DEF Explained
  <2> QED
    BY <2>5
<1>5. T[1] \in Tag /\ IsTag(T[1])
  <2>1. 1 \in 1 .. Len(T) /\ T \in Seq(Tag)
    BY LastTag
  <2> QED
    BY <2>1 DEF Explained, Tagged
<1>6. CASE Decode
  <2>1. UNCHANGED <<keyboard, kb_in, expected>>
    BY <1>6 DEF Decode
  <2>2. Tagged(T)' /\ Complete(T, b)' /\ Awaited(T, b)'
    BY <2>1, SameTags DEF Explained
  <2>3. Parser(T[1], b)'
    BY <1>5, <1>6, DecodeStep DEF Explained
  <2>4. Explained(T, b)'
    BY <2>2, <2>3 DEF Explained
  <2> QED
    BY <2>4
<1>7. CASE DecodeSpecial
  BY <1>5, <1>7, DecodeSpecialStep
<1>8. CASE InProcess
  BY <1>5, <1>8, InProcessStep
<1> QED
  BY <1>1, <1>2, <1>3, <1>4, <1>6, <1>7, <1>8 DEF Next, keyboard_read

LEMMA DroppedStep ==
  ASSUME TypeInv, NEW T, NEW b \in Int, Explained(T, b), Next
  PROVE  dropped' \subseteq dropped \union {"PAUSEBREAK"}
<1>1. CASE DecodeSpecial
  <2>1. T[1] \in Tag /\ IsTag(T[1])
    <3>1. 1 \in 1 .. Len(T) /\ T \in Seq(Tag)
      BY LastTag
    <3> QED
      BY <3>1 DEF Explained, Tagged
  <2> QED
    BY <1>1, <2>1, DecodeSpecialStep
<1>2. CASE ~DecodeSpecial
  <2>1. dropped' = dropped
    BY <1>2 DEF Next, Press, Release, Arrive, keyboard_read, FirstByte, PauseByte, SecondByte,
                PrintScreenByte, GetByte, Decode, InProcess
  <2> QED
    BY <2>1
<1> QED
  BY <1>1, <1>2

\* A byte that is lost stays lost.
LEMMA LostStays ==
  ASSUME TypeInv, Next, lost' = 0
  PROVE  lost = 0
BY DEF TypeInv, Next, Press, Release, Arrive, keyboard_read, FirstByte, PauseByte, SecondByte,
       PrintScreenByte, GetByte, Decode, DecodeSpecial, InProcess

LEMMA StutterStep ==
  ASSUME IInv, UNCHANGED vars
  PROVE  IInv'
<1>1. TypeInv' /\ PcInv' /\ lost' = lost /\ dropped' = dropped
  BY DEF IInv, TypeInv, PcInv, vars, keyboard
<1>2. ASSUME NEW T, NEW b \in Int, Explained(T, b)
      PROVE  Explained(T, b)'
  BY <1>2 DEF Explained, Tagged, Complete, Awaited, Parser, AtByte, Recognised, Stream, vars,
     keyboard, locals
<1> QED
  BY <1>1, <1>2 DEF IInv

\* The invariant of the decoder, which the theorems below rest on.
THEOREM Invariance ==
  ASSUME "POWER" \notin Key
  PROVE  Spec => []IInv
<1>1. Init => IInv
  BY InitInv
<1>2. IInv /\ [Next]_vars => IInv'
  <2> SUFFICES ASSUME IInv, [Next]_vars
               PROVE  IInv'
    OBVIOUS
  <2>1. CASE UNCHANGED vars
    BY <2>1, StutterStep
  <2>2. CASE Next
    <3>1. TypeInv' /\ PcInv'
      BY <2>2, TypeStep, PcStep DEF IInv
    <3>2. ASSUME lost' = 0
          PROVE  /\ dropped' \subseteq {"PAUSEBREAK"}
                 /\ \E U, e : e \in Int /\ Explained(U, e)'
      <4>1. lost = 0
        BY <2>2, <3>2, LostStays DEF IInv
      <4>2. PICK T, b : b \in Int /\ Explained(T, b)
        BY <4>1 DEF IInv
      <4>3. \E U, e : e \in Int /\ Explained(U, e)'
        BY <2>2, <3>2, <4>1, <4>2, ExplainedStep DEF IInv
      <4>4. dropped' \subseteq dropped \union {"PAUSEBREAK"}
        BY <2>2, <4>2, DroppedStep DEF IInv
      <4>5. dropped \subseteq {"PAUSEBREAK"}
        BY <4>1 DEF IInv
      <4> QED
        BY <4>3, <4>4, <4>5
    <3> QED
      BY <3>1, <3>2 DEF IInv
  <2> QED
    BY <2>1, <2>2
<1> QED
  BY <1>1, <1>2, PTL DEF Spec

LEMMA InvImpliesOrder == IInv => DecodedInOrder
<1> SUFFICES ASSUME IInv, lost = 0, pc = "process"
             PROVE  /\ expected # <<>>
                    /\ Head(expected) = [key |-> key, flags |-> modifiers]
  BY DEF DecodedInOrder
<1>1. PICK T, b : b \in Int /\ Explained(T, b)
  BY DEF IInv
<1> DEFINE c == T[1]
<1>2. c \in Tag
  <2>1. 1 \in 1 .. Len(T) /\ T \in Seq(Tag)
    BY <1>1, LastTag DEF IInv
  <2> QED
    BY <2>1
<1>3. /\ c.make /\ key = Meaning(c.key, c.down) /\ modifiers = Flags(c.down) /\ b = c.n - 1
  BY <1>1 DEF Explained, Parser
<1>4. expected # <<>> /\ Head(expected) = Typed(c)
  BY <1>1, <1>2, <1>3, NextExpected DEF IInv, Explained
<1> QED
  BY <1>3, <1>4 DEF Typed

\* When there is nothing to read, the byte read last was the last of all.
LEMMA NothingToRead ==
  ASSUME TypeInv, NEW T, NEW b, Explained(T, b), wire = <<>>, kb_in = <<>>
  PROVE  Whole(T[1]) /\ T[1].down = pressed /\ T[1].n - b = Len(expected) /\ T[1] \in Tag
<1>1. Stream = <<>>
  BY DEF Stream
<1>2. Len(T) = 1 /\ T[1] \in Tag
  BY <1>1, LastTag
<1> QED
  BY <1>2 DEF Explained, Complete

LEMMA InvImpliesComplete == IInv => NothingForgotten
<1> SUFFICES ASSUME IInv, lost = 0, wire = <<>>, kb_in = <<>>, pc = "poll"
             PROVE  /\ expected = <<>> /\ dropped \subseteq {"PAUSEBREAK"}
                    /\ modifiers = Flags(pressed)
  BY DEF NothingForgotten, Quiet
<1>1. PICK T, b : b \in Int /\ Explained(T, b)
  BY DEF IInv
<1>2. T[1].down = pressed /\ T[1].n - b = Len(expected) /\ T[1] \in Tag
  BY <1>1, NothingToRead DEF IInv
<1>3. b = T[1].n /\ modifiers = Flags(T[1].down)
  BY <1>1 DEF Explained, Parser
<1>4. Len(expected) = 0
  BY <1>2, <1>3 DEF Tag
<1> QED
  BY <1>2, <1>3, <1>4 DEF IInv, TypeInv

LEMMA InvImpliesWaiting == IInv => WaitsOnlyForTheRest
<1> SUFFICES ASSUME IInv, lost = 0, pc \notin {"poll", "decode", "process"},
                    wire = <<>>, kb_in = <<>>
             PROVE  FALSE
  BY DEF WaitsOnlyForTheRest
<1>1. PICK T, b : b \in Int /\ Explained(T, b)
  BY DEF IInv
<1> DEFINE c == T[1]
<1>2. Whole(c) /\ c \in Tag
  BY <1>1, NothingToRead DEF IInv
<1>3. AtByte(c)
  BY <1>1 DEF Explained, Parser
<1> HIDE DEF c
<1>4. CASE pc = "e0"
  <2>1. c.at = 1 /\ c.key \in Extended \union {"PRTSCRN"}
    BY <1>3, <1>4 DEF AtByte
  <2>2. Len(Codes(c)) \in {2, 4}
    BY <1>2, <2>1, LengthOf DEF Extended
  <2> QED
    BY <1>2, <2>1, <2>2 DEF Whole
<1>5. CASE pc \in {"print1", "print2"}
  <2>1. c.at \in {2, 3} /\ c.key = "PRTSCRN"
    BY <1>3, <1>5 DEF AtByte
  <2>2. Len(Codes(c)) = 4
    BY <1>2, <2>1, LengthOf
  <2> QED
    BY <1>2, <2>1, <2>2 DEF Whole
<1>6. ASSUME NEW p \in 1 .. 5, pc = PausePc[p]
      PROVE  FALSE
  <2>1. c.at = p /\ c.key = "PAUSE" /\ c.make
    BY <1>3, <1>6 DEF AtByte
  <2>2. Len(Codes(c)) = 6
    BY <1>2, <2>1, LengthOf
  <2>3. p = 6
    BY <1>2, <2>1, <2>2, Zenon DEF Whole
  <2> QED
    BY <2>3
<1>7. \E p \in 1 .. 5 : pc = PausePc[p]
  BY <1>4, <1>5 DEF IInv, PcInv
<1> QED
  BY <1>6, <1>7

\* While no byte is lost, in_process() gets the keys, but for a Pause that is
\* dropped, in the order in which they were typed, with the modifiers that were
\* down then.
THEOREM DecodedInOrderAlways ==
  ASSUME "POWER" \notin Key
  PROVE  Spec => []DecodedInOrder
BY Invariance, InvImpliesOrder, PTL

\* While no byte is lost, no key but Pause is missing once everything has been
\* read, and the modifiers are those that are down.
THEOREM NothingForgottenAlways ==
  ASSUME "POWER" \notin Key
  PROVE  Spec => []NothingForgotten
BY Invariance, InvImpliesComplete, PTL

\* While no byte is lost, keyboard_read() waits in the middle of a key only
\* for bytes that are on their way.
THEOREM WaitsOnlyForTheRestAlways ==
  ASSUME "POWER" \notin Key
  PROVE  Spec => []WaitsOnlyForTheRest
BY Invariance, InvImpliesWaiting, PTL

-----------------------------------------------------------------------------
(***************************************************************************)
(* Theorems about Tty, for any number of consoles, any size of the buffers *)
(* and any keys.  A TTY's buffer never holds more than the one character   *)
(* that tty_do_read() has just put there, which tty_do_write() prints      *)
(* before the next TTY has its turn.  So what the consoles were told is    *)
(* what the keys read so far ask for, but for the one character that is to *)
(* be printed next.                                                        *)
(***************************************************************************)

RingTypes ==
  /\ in_buf \in [TtyId -> [Slot -> UserKey \union {NoKey}]]
  /\ p_inbuf_head \in [TtyId -> Int]
  /\ p_inbuf_tail \in [TtyId -> Int]
  /\ in_count \in [TtyId -> Int]

\* The TTYs that init_tty() has seen are empty, ...
EmptyFromInit == stage = "init_tty" => \A t \in TtyId : t < i => in_count[t] = 0

\* ... and when tty_do_write() runs, all are but the one it is to print.
OneAtMost ==
  stage = "tty_do_write" =>
    /\ \A t \in TtyId : t /= i => in_count[t] = 0
    /\ in_count[i] <= 1

\* keyboard_read() has a key to read.
KeyIsThere == stage = "keyboard_read" => kb /= <<>>

TtyInv ==
  /\ TypeOK
  /\ RingTypes
  /\ EmptyFromInit
  /\ NothingDropped
  /\ OneAtMost
  /\ KeyIsThere

LEMMA TtyInitInv == TtyInit => TtyInv
<1> USE TtyAssumption DEF TtyId, Slot
<1> SUFFICES ASSUME TtyInit PROVE TtyInv
  OBVIOUS
<1>1. TypeOK
  BY DEF TtyInit, TypeOK
<1>2. RingTypes
  BY DEF TtyInit, RingTypes, Unset
<1>3. EmptyFromInit /\ NothingDropped /\ OneAtMost /\ KeyIsThere
  BY DEF TtyInit, EmptyFromInit, NothingDropped, OneAtMost, KeyIsThere
<1> QED
  BY <1>1, <1>2, <1>3 DEF TtyInv

\* The keyboard and the user do not touch the rings.
LEMMA KeyboardInv ==
  ASSUME TtyInv, (\E k \in UserKey : Type(k)) \/ LastByte
  PROVE  TtyInv'
<1> USE TtyAssumption DEF TtyInv, ring, control
<1>1. UNCHANGED <<ring, nr_current_console, control>>
  BY DEF Type, LastByte
<1>2. kb' \in Seq(UserKey) /\ typed' \in Seq(UserKey) /\ (kb /= <<>> => kb' /= <<>>)
  <2>1. kb \in Seq(UserKey) /\ typed \in Seq(UserKey)
    BY DEF TypeOK
  <2>2. ASSUME NEW k \in UserKey, Type(k)
        PROVE  kb' = Append(kb, k) /\ typed' = Append(typed, k)
    BY <2>2 DEF Type
  <2>3. \A s \in Seq(UserKey), k \in UserKey : Append(s, k) \in Seq(UserKey) /\ Append(s, k) /= <<>>
    OBVIOUS
  <2>4. CASE LastByte
    BY <2>1, <2>4 DEF LastByte
  <2> QED
    BY <2>1, <2>2, <2>3, <2>4
<1>3. partial' \in BOOLEAN
  BY DEF Type, LastByte
<1>4. TypeOK'
  BY <1>1, <1>2, <1>3 DEF TypeOK
<1> QED
  BY <1>1, <1>2, <1>4 DEF RingTypes, EmptyFromInit, NothingDropped, OneAtMost, KeyIsThere

LEMMA InitTtyInv == TtyInv /\ InitTty => TtyInv'
<1> USE TtyAssumption DEF TtyInv, TtyId, Slot
<1> SUFFICES ASSUME TtyInv, InitTty PROVE TtyInv'
  OBVIOUS
<1>1. UNCHANGED <<in_buf, keys, output>> /\ stage = "init_tty"
  BY DEF InitTty
<1>2. /\ i \in TtyId
      /\ \A t \in TtyId : in_count'[t] = IF t = i THEN 0 ELSE in_count[t]
      /\ \A t \in TtyId : p_inbuf_head'[t] = IF t = i THEN 0 ELSE p_inbuf_head[t]
      /\ \A t \in TtyId : p_inbuf_tail'[t] = IF t = i THEN 0 ELSE p_inbuf_tail[t]
  BY DEF InitTty, TypeOK, RingTypes
<1>3. RingTypes'
  BY <1>1, <1>2 DEF InitTty, RingTypes
<1>4. /\ i' \in TtyId /\ nr_current_console' \in TtyId
      /\ stage' \in {"init_tty", "tty_do_read"}
      /\ stage' = "init_tty" => i' = i + 1
      /\ stage' = "tty_do_read" => i + 1 \notin TtyId
  BY <1>1 DEF InitTty, SelectConsole, TypeOK
<1>5. \A t \in TtyId : (stage' /= "init_tty" \/ t < i') => (t = i \/ t < i)
  BY <1>2, <1>4
<1>6. \A t \in TtyId : (stage' /= "init_tty" \/ t < i') =>
        in_count'[t] = 0 /\ p_inbuf_head'[t] \in Slot /\ p_inbuf_tail'[t] \in Slot
  <2>1. 0 \in Slot
    OBVIOUS
  <2>2. \A t \in TtyId : t < i =>
          in_count[t] = 0 /\ p_inbuf_head[t] \in Slot /\ p_inbuf_tail[t] \in Slot
    BY <1>1 DEF TypeOK, EmptyFromInit
  <2> QED
    BY <1>2, <1>5, <2>1, <2>2
<1>7. TypeOK'
  BY <1>1, <1>4, <1>6 DEF TypeOK, keys
<1> QED
  BY <1>3, <1>4, <1>6, <1>7 DEF EmptyFromInit, NothingDropped, OneAtMost, KeyIsThere

LEMMA TtyDoReadInv == TtyInv /\ TtyDoRead => TtyInv'
<1> USE TtyAssumption DEF TtyInv, TtyId, Slot, ring, keys
<1> SUFFICES ASSUME TtyInv, TtyDoRead PROVE TtyInv'
  OBVIOUS
<1>1. /\ UNCHANGED <<ring, nr_current_console, i, keys>> /\ stage = "tty_do_read"
      /\ stage' \in {"keyboard_read", "tty_do_write"}
      /\ stage' = "keyboard_read" => kb /= <<>>
  BY DEF TtyDoRead
<1>2. TypeOK'
  BY <1>1 DEF TypeOK
<1>3. RingTypes'
  BY <1>1 DEF RingTypes
<1>4. i \in TtyId /\ \A t \in TtyId : in_count'[t] = 0
  BY <1>1 DEF NothingDropped, TypeOK
<1> QED
  BY <1>1, <1>2, <1>3, <1>4 DEF EmptyFromInit, NothingDropped, OneAtMost, KeyIsThere

\* Moving a pointer keeps it in the buffer.
LEMMA WrapInSlot == \A s \in Slot : Wrap(s + 1) \in Slot
  BY TtyAssumption DEF Slot, Wrap

LEMMA KeyboardReadInv == TtyInv /\ KeyboardRead => TtyInv'
<1> USE TtyAssumption DEF TtyInv, TtyId
<1> SUFFICES ASSUME TtyInv, KeyboardRead PROVE TtyInv'
  OBVIOUS
<1> DEFINE k == Head(kb)
<1>1. /\ stage = "keyboard_read" /\ stage' = "tty_do_write" /\ UNCHANGED <<i, partial, typed>>
      /\ i \in TtyId /\ \A t \in TtyId : in_count[t] = 0
      /\ \A t \in TtyId : p_inbuf_head[t] \in Slot /\ p_inbuf_tail[t] \in Slot
  BY DEF KeyboardRead, NothingDropped, TypeOK
<1>2. kb' \in Seq(UserKey) /\ k \in UserKey
  BY <1>1 DEF KeyboardRead, TypeOK, KeyIsThere
<1>3. nr_current_console' \in TtyId
  BY DEF KeyboardRead, in_process, SelectConsole, TypeOK
<1>4. put_key(i, k) \/ UNCHANGED ring
  BY DEF KeyboardRead, in_process
<1>5. /\ RingTypes'
      /\ p_inbuf_head'[i] \in Slot
      /\ \A t \in TtyId : t /= i => in_count'[t] = 0 /\ p_inbuf_head'[t] = p_inbuf_head[t]
      /\ in_count'[i] \in 0 .. 1
      /\ p_inbuf_tail' = p_inbuf_tail
  <2>1. CASE put_key(i, k)
    <3>1. /\ in_buf' = [in_buf EXCEPT ![i][p_inbuf_head[i]] = k]
          /\ p_inbuf_head' = [p_inbuf_head EXCEPT ![i] = Wrap(@ + 1)]
          /\ in_count' = [in_count EXCEPT ![i] = @ + 1]
          /\ p_inbuf_tail' = p_inbuf_tail
      BY <1>1, <2>1 DEF put_key
    <3>2. Wrap(p_inbuf_head[i] + 1) \in Slot
      BY <1>1, WrapInSlot
    <3>3. in_buf' \in [TtyId -> [Slot -> UserKey \union {NoKey}]]
      BY <1>1, <1>2, <3>1 DEF RingTypes
    <3>4. RingTypes'
      BY SMTT(30), <1>1, <3>1, <3>2, <3>3 DEF RingTypes, Slot
    <3> QED
      BY <1>1, <3>1, <3>2, <3>4 DEF RingTypes
  <2>2. CASE UNCHANGED ring
    BY <1>1, <2>2 DEF ring, RingTypes
  <2> QED
    BY <1>4, <2>1, <2>2
<1>6. TypeOK'
  <2>1. \A t \in TtyId : in_count'[t] \in 0 .. TTY_IN_BYTES
    BY <1>5
  <2>2. \A t \in TtyId : p_inbuf_head'[t] \in Slot /\ p_inbuf_tail'[t] \in Slot
    BY <1>1, <1>5
  <2> QED
    BY <1>1, <1>2, <1>3, <2>1, <2>2 DEF TypeOK
<1> QED
  BY <1>1, <1>5, <1>6 DEF EmptyFromInit, NothingDropped, OneAtMost, KeyIsThere

LEMMA TtyDoWriteInv == TtyInv /\ TtyDoWrite => TtyInv'
<1> USE TtyAssumption DEF TtyInv, TtyId
<1> SUFFICES ASSUME TtyInv, TtyDoWrite PROVE TtyInv'
  OBVIOUS
<1>1. /\ stage = "tty_do_write" /\ stage' = "tty_do_read" /\ UNCHANGED <<nr_current_console, keys>>
      /\ i \in TtyId /\ i' \in TtyId
      /\ \A t \in TtyId : /\ p_inbuf_head[t] \in Slot /\ p_inbuf_tail[t] \in Slot
                          /\ in_count[t] \in 0 .. TTY_IN_BYTES
      /\ \A t \in TtyId : t /= i => in_count[t] = 0
      /\ in_count[i] \in {0, 1}
  BY SMTT(30) DEF TtyDoWrite, TypeOK, OneAtMost
<1>2. /\ RingTypes'
      /\ \A t \in TtyId : /\ in_count'[t] = 0
                          /\ p_inbuf_head'[t] \in Slot /\ p_inbuf_tail'[t] \in Slot
  <2>1. CASE Waiting(i)
    <3>1. Wrap(p_inbuf_tail[i] + 1) \in Slot
      BY <1>1, WrapInSlot
    <3>2. /\ p_inbuf_tail' = [p_inbuf_tail EXCEPT ![i] = Wrap(@ + 1)]
          /\ in_count' = [in_count EXCEPT ![i] = @ - 1]
          /\ UNCHANGED <<in_buf, p_inbuf_head>> /\ in_count[i] = 1
      BY <1>1, <2>1 DEF TtyDoWrite, Waiting
    <3>3. p_inbuf_tail' \in [TtyId -> Int] /\ in_count' \in [TtyId -> Int]
      <4>1. Wrap(p_inbuf_tail[i] + 1) \in Int
        BY <3>1 DEF Slot
      <4>2. p_inbuf_tail' \in [TtyId -> Int]
        BY <1>1, <3>2, <4>1 DEF RingTypes
      <4>3. in_count' \in [TtyId -> Int]
        BY <1>1, <3>2 DEF RingTypes
      <4> QED
        BY <4>2, <4>3
    <3>4. \A t \in TtyId : p_inbuf_tail'[t] = (IF t = i THEN Wrap(p_inbuf_tail[i] + 1) ELSE p_inbuf_tail[t])
      BY <1>1, <3>2 DEF RingTypes
    <3>5. \A t \in TtyId : in_count'[t] = (IF t = i THEN in_count[i] - 1 ELSE in_count[t])
      BY <1>1, <3>2 DEF RingTypes
    <3>6. RingTypes'
      BY <3>2, <3>3 DEF RingTypes
    <3> QED
      BY <1>1, <3>1, <3>2, <3>4, <3>5, <3>6
  <2>2. CASE ~Waiting(i)
    <3>1. UNCHANGED ring /\ in_count[i] = 0
      BY <1>1, <2>2 DEF TtyDoWrite, Waiting
    <3> QED
      BY <1>1, <3>1 DEF ring, RingTypes
  <2> QED
    BY <2>1, <2>2
<1>3. TypeOK'
  BY <1>1, <1>2 DEF TypeOK, keys
<1> QED
  BY <1>1, <1>2, <1>3 DEF EmptyFromInit, NothingDropped, OneAtMost, KeyIsThere

LEMMA TtyNextInv == TtyInv /\ [TtyNext]_tty_vars => TtyInv'
<1> SUFFICES ASSUME TtyInv, [TtyNext]_tty_vars PROVE TtyInv'
  OBVIOUS
<1>1. CASE TtyTask
  BY <1>1, InitTtyInv, TtyDoReadInv, KeyboardReadInv, TtyDoWriteInv DEF TtyTask
<1>2. CASE LastByte \/ \E k \in UserKey : Type(k)
  BY <1>2, KeyboardInv
<1>3. CASE UNCHANGED tty_vars
  BY <1>3 DEF tty_vars, ring, control, keys, TtyInv, TypeOK, RingTypes, EmptyFromInit,
              NothingDropped, OneAtMost, KeyIsThere
<1> QED
  BY <1>1, <1>2, <1>3 DEF TtyNext

THEOREM TtyInvariance == TtySpec => []TtyInv
  BY TtyInitInv, TtyNextInv, PTL DEF TtySpec

\* nr_current_console never leaves the table of consoles, and no pointer leaves
\* its buffer.
THEOREM TtyTypeCorrect == TtySpec => []TypeOK
<1>1. TtyInv => TypeOK
  BY DEF TtyInv
<1> QED
  BY <1>1, TtyInvariance, PTL

\* put_key() always finds room, for buffers of any size.
THEOREM NothingDroppedTheorem == TtySpec => []NothingDropped
<1>1. TtyInv => NothingDropped
  BY DEF TtyInv
<1> QED
  BY <1>1, TtyInvariance, PTL

-----------------------------------------------------------------------------
(* The order of the echo.                                                  *)
(*                                                                         *)
(* Expected() is defined by recursion along the keys typed, and that there *)
(* is just one such function needs induction.  The keys are read one by    *)
(* one, so that the induction is that of the invariant: Foreseen says that *)
(* there is just one for the keys handled so far, and a step extends it.   *)

IsSeen(s, f) ==
  f = [n \in 0 .. Len(s) |-> IF n = 0 THEN [console |-> 0, output |-> <<>>]
                             ELSE Effect(f[n - 1], s[n])]

TheOnly(s, f) == IsSeen(s, f) /\ \A g : IsSeen(s, g) => g = f

Foreseen(s) == \E f : TheOnly(s, f)

\* The keys typed are those handled and those that wait.
QueueInv == Handled \in Seq(UserKey) /\ typed = Handled \o kb

\* The pointers of an empty buffer meet; one character is what parts them.
RingInv ==
  /\ \A t \in TtyId :
       ((stage /= "init_tty" \/ t < i) /\ in_count[t] = 0) => p_inbuf_head[t] = p_inbuf_tail[t]
  /\ (stage = "tty_do_write" /\ in_count[i] = 1) => p_inbuf_head[i] = Wrap(p_inbuf_tail[i] + 1)

Shown == [console |-> nr_current_console, output |-> output]

\* What is shown once the character in the buffer, if there is one, is printed.
Printed ==
  IF stage = "tty_do_write" /\ in_count[i] = 1
  THEN [console |-> nr_current_console,
        output |-> Append(output, <<i, in_buf[i][p_inbuf_tail[i]].code>>)]
  ELSE Shown

EchoInv ==
  /\ stage = "init_tty" => Handled = <<>> /\ nr_current_console = 0 /\ output = <<>>
  /\ stage = "keyboard_read" => nr_current_console = i
  /\ Printed = Expected(Handled)

EInv == TtyInv /\ QueueInv /\ RingInv /\ Foreseen(Handled) /\ EchoInv

LEMMA ExpectedIsSeen ==
  ASSUME NEW s, NEW f, TheOnly(s, f)
  PROVE  Expected(s) = f[Len(s)]
<1>1. (CHOOSE g : g = [n \in 0 .. Len(s) |-> IF n = 0 THEN [console |-> 0, output |-> <<>>]
                                             ELSE Effect(g[n - 1], s[n])]) = f
  BY Zenon DEF TheOnly, IsSeen
<1> QED
  BY <1>1, Zenon DEF Expected

\* Before any key.
LEMMA ExpectedOfNothing ==
  Foreseen(<<>>) /\ Expected(<<>>) = [console |-> 0, output |-> <<>>]
<1> DEFINE f == [n \in 0 .. 0 |-> [console |-> 0, output |-> <<>>]]
<1>1. Len(<<>>) = 0
  OBVIOUS
<1>2. TheOnly(<<>>, f)
  BY <1>1 DEF TheOnly, IsSeen
<1>3. f[0] = [console |-> 0, output |-> <<>>]
  OBVIOUS
<1> QED
  BY <1>1, <1>2, <1>3, ExpectedIsSeen DEF Foreseen

\* One key more.
LEMMA ExpectedOfAppend ==
  ASSUME NEW S, NEW s \in Seq(S), NEW k \in S, Foreseen(s)
  PROVE  /\ Foreseen(Append(s, k))
         /\ Expected(Append(s, k)) = Effect(Expected(s), k)
<1>1. PICK f : TheOnly(s, f)
  BY DEF Foreseen
<1> DEFINE z == [console |-> 0, output |-> <<>>]
           L == Len(s)
           s2 == Append(s, k)
           f2 == [n \in 0 .. L + 1 |-> IF n <= L THEN f[n] ELSE Effect(f[L], k)]
<1>2. L \in Nat /\ Len(s2) = L + 1 /\ s2[L + 1] = k /\ \A n \in 1 .. L : s2[n] = s[n]
  BY AppendProperties
<1>3. \A n \in 0 .. L : f[n] = IF n = 0 THEN z ELSE Effect(f[n - 1], s[n])
  BY <1>1 DEF TheOnly, IsSeen
<1> HIDE DEF z, L, s2
<1>4. \A n \in 0 .. L + 1 : f2[n] = IF n <= L THEN f[n] ELSE Effect(f[L], k)
  OBVIOUS
<1>5. \A n \in 0 .. L + 1 : f2[n] = IF n = 0 THEN z ELSE Effect(f2[n - 1], s2[n])
  <2> SUFFICES ASSUME NEW n \in 0 .. L + 1
               PROVE  f2[n] = IF n = 0 THEN z ELSE Effect(f2[n - 1], s2[n])
    OBVIOUS
  <2> HIDE DEF f2
  <2>1. CASE n = 0
    <3>1. 0 \in 0 .. L /\ 0 <= L
      BY <1>2
    <3> QED
      BY <1>3, <1>4, <2>1, <3>1
  <2>2. CASE n \in 1 .. L
    <3>1. n \in 0 .. L /\ n <= L /\ n # 0 /\ n - 1 \in 0 .. L + 1 /\ n - 1 <= L
      BY <1>2, <2>2
    <3>2. f2[n] = f[n] /\ f2[n - 1] = f[n - 1] /\ s2[n] = s[n]
      BY <1>2, <1>4, <2>2, <3>1
    <3> QED
      BY <1>3, <3>1, <3>2
  <2>3. CASE n = L + 1
    <3>1. ~(n <= L) /\ n # 0 /\ n - 1 = L /\ L \in 0 .. L + 1 /\ L <= L
      BY <1>2, <2>3
    <3>2. f2[n] = Effect(f[L], k) /\ f2[L] = f[L] /\ s2[n] = k
      BY <1>2, <1>4, <2>3, <3>1
    <3> QED
      BY <3>1, <3>2
  <2> QED
    BY <1>2, <2>1, <2>2, <2>3
<1>6. IsSeen(s2, f2)
  <2>1. f2 = [n \in 0 .. L + 1 |-> f2[n]]
    OBVIOUS
  <2> HIDE DEF f2
  <2>2. [n \in 0 .. L + 1 |-> f2[n]]
        = [n \in 0 .. L + 1 |-> IF n = 0 THEN z ELSE Effect(f2[n - 1], s2[n])]
    BY <1>5, Zenon
  <2>3. f2 = [n \in 0 .. Len(s2) |-> IF n = 0 THEN z ELSE Effect(f2[n - 1], s2[n])]
    BY <1>2, <2>1, <2>2, Zenon
  <2> QED
    BY <2>3, Zenon DEF IsSeen, z
<1>7. ASSUME NEW g, IsSeen(s2, g)
      PROVE  g = f2
  <2>1. g = [n \in 0 .. L + 1 |-> IF n = 0 THEN z ELSE Effect(g[n - 1], s2[n])]
    BY <1>2, <1>7, Zenon DEF IsSeen, z
  <2>2. \A n \in 0 .. L + 1 : g[n] = IF n = 0 THEN z ELSE Effect(g[n - 1], s2[n])
    BY <2>1, Zenon
  <2> DEFINE h == [n \in 0 .. L |-> g[n]]
  <2>3. \A n \in 0 .. L : h[n] = g[n]
    OBVIOUS
  <2>4. \A n \in 0 .. L : h[n] = IF n = 0 THEN z ELSE Effect(h[n - 1], s[n])
    <3> SUFFICES ASSUME NEW n \in 0 .. L
                 PROVE  h[n] = IF n = 0 THEN z ELSE Effect(h[n - 1], s[n])
      OBVIOUS
    <3> HIDE DEF h
    <3>1. n \in 0 .. L + 1
      BY <1>2
    <3>2. CASE n = 0
      BY <2>2, <2>3, <3>1, <3>2
    <3>3. CASE n # 0
      <4>1. n \in 1 .. L /\ n - 1 \in 0 .. L
        BY <1>2, <3>3
      <4>2. h[n] = g[n] /\ h[n - 1] = g[n - 1] /\ s2[n] = s[n]
        BY <1>2, <2>3, <4>1
      <4> QED
        BY <2>2, <3>1, <3>3, <4>2
    <3> QED
      BY <3>2, <3>3
  <2>5. h = [n \in 0 .. L |-> IF n = 0 THEN z ELSE Effect(h[n - 1], s[n])]
    <3>1. h = [n \in 0 .. L |-> h[n]]
      OBVIOUS
    <3> HIDE DEF h
    <3>2. [n \in 0 .. L |-> h[n]] = [n \in 0 .. L |-> IF n = 0 THEN z ELSE Effect(h[n - 1], s[n])]
      BY <2>4, Zenon
    <3> QED
      BY <3>1, <3>2, Zenon
  <2> HIDE DEF h
  <2>6. h = f
    BY <1>1, <2>5, Zenon DEF TheOnly, IsSeen, L, z
  <2>7. \A n \in 0 .. L + 1 : g[n] = IF n <= L THEN f[n] ELSE Effect(f[L], k)
    <3> SUFFICES ASSUME NEW n \in 0 .. L + 1
                 PROVE  g[n] = IF n <= L THEN f[n] ELSE Effect(f[L], k)
      OBVIOUS
    <3>1. CASE n <= L
      <4>1. n \in 0 .. L
        BY <1>2, <3>1
      <4> QED
        BY <2>3, <2>6, <3>1, <4>1
    <3>2. CASE ~(n <= L)
      <4>1. n = L + 1 /\ n # 0 /\ n - 1 = L /\ L \in 0 .. L
        BY <1>2, <3>2
      <4>2. g[L] = f[L] /\ s2[n] = k
        BY <1>2, <2>3, <2>6, <4>1
      <4> QED
        BY <2>2, <3>2, <4>1, <4>2
    <3> QED
      BY <3>1, <3>2
  <2>8. g = [n \in 0 .. L + 1 |-> g[n]]
    BY <2>1
  <2> QED
    BY <2>7, <2>8, Zenon
<1> HIDE DEF f2
<1>8. TheOnly(s2, f2)
  BY <1>6, <1>7, Zenon DEF TheOnly
<1>9. Expected(s2) = f2[L + 1] /\ Expected(s) = f[L]
  BY <1>1, <1>2, <1>8, ExpectedIsSeen DEF L
<1>10. f2[L + 1] = Effect(f[L], k)
  <2>1. L + 1 \in 0 .. L + 1 /\ ~(L + 1 <= L)
    BY <1>2
  <2> QED
    BY <1>4, <2>1
<1> QED
  BY <1>8, <1>9, <1>10 DEF Foreseen, s2

-----------------------------------------------------------------------------
\* A queue loses its head to the keys handled before it.
LEMMA WithoutSuffix ==
  ASSUME NEW S, NEW s \in Seq(S), NEW t \in Seq(S)
  PROVE  SubSeq(s \o t, 1, Len(s \o t) - Len(t)) = s
<1> DEFINE u == s \o t
<1>1. /\ u \in Seq(S) /\ Len(u) = Len(s) + Len(t)
      /\ \A j \in 1 .. Len(s) : u[j] = s[j]
  BY ConcatProperties
<1>2. Len(s) \in Nat /\ Len(t) \in Nat
  OBVIOUS
<1> HIDE DEF u
<1>3. Len(u) - Len(t) = Len(s) /\ Len(s) <= Len(u)
  BY <1>1, <1>2
<1>4. /\ SubSeq(u, 1, Len(s)) \in Seq(S)
      /\ Len(SubSeq(u, 1, Len(s))) = Len(s)
      /\ \A j \in 1 .. Len(s) : SubSeq(u, 1, Len(s))[j] = u[j]
  BY <1>1, <1>2, <1>3
<1>5. SubSeq(u, 1, Len(s)) = s
  BY <1>1, <1>4, SeqEqual
<1> QED
  BY <1>3, <1>5 DEF u

LEMMA HandledIs ==
  ASSUME NEW h \in Seq(UserKey), kb \in Seq(UserKey), typed = h \o kb
  PROVE  Handled = h
  BY WithoutSuffix DEF Handled

LEMMA HandledIsPrime ==
  ASSUME NEW h \in Seq(UserKey), kb' \in Seq(UserKey), typed' = h \o kb'
  PROVE  Handled' = h
<1>1. Handled' = SubSeq(typed', 1, Len(typed') - Len(kb'))
  BY DEF Handled
<1> QED
  BY <1>1, WithoutSuffix

LEMMA InitEcho == TtyInit => EInv
<1> SUFFICES ASSUME TtyInit PROVE EInv
  OBVIOUS
<1>1. TtyInv
  BY TtyInitInv
<1>2. kb = <<>> /\ typed = <<>> /\ stage = "init_tty" /\ i = 0 /\ nr_current_console = 0 /\ output = <<>>
  BY DEF TtyInit
<1>3. <<>> \in Seq(UserKey) /\ <<>> = <<>> \o <<>>
  OBVIOUS
<1>4. Handled = <<>>
  BY <1>2, <1>3, HandledIs
<1>5. QueueInv
  BY <1>2, <1>3, <1>4 DEF QueueInv
<1>6. RingInv
  BY <1>2, TtyAssumption DEF RingInv, TtyId
<1>7. Foreseen(Handled) /\ Expected(Handled) = [console |-> 0, output |-> <<>>]
  BY <1>4, ExpectedOfNothing
<1>8. Printed = [console |-> 0, output |-> <<>>]
  BY <1>2 DEF Printed, Shown
<1>9. EchoInv
  BY <1>2, <1>4, <1>7, <1>8 DEF EchoInv
<1> QED
  BY <1>1, <1>5, <1>6, <1>7, <1>9 DEF EInv

\* What the user types changes nothing that was handled.
LEMMA KeyboardEcho ==
  ASSUME EInv, (\E k \in UserKey : Type(k)) \/ LastByte
  PROVE  EInv'
<1>1. TtyInv'
  BY KeyboardInv DEF EInv
<1>2. UNCHANGED <<ring, nr_current_console, stage, i, output>>
  BY DEF Type, LastByte, control
<1>3. kb \in Seq(UserKey) /\ Handled \in Seq(UserKey) /\ typed = Handled \o kb
  BY DEF EInv, TtyInv, TypeOK, QueueInv
<1>4. kb' \in Seq(UserKey) /\ typed' = Handled \o kb'
  <2>1. CASE LastByte
    BY <1>3, <2>1 DEF LastByte
  <2>2. ASSUME NEW k \in UserKey, Type(k)
        PROVE  kb' \in Seq(UserKey) /\ typed' = Handled \o kb'
    <3>1. kb' = Append(kb, k) /\ typed' = Append(typed, k)
      BY <2>2 DEF Type
    <3> DEFINE h == Handled
    <3>2. h \in Seq(UserKey) /\ typed = h \o kb /\ typed \in Seq(UserKey) /\ <<k>> \in Seq(UserKey)
      BY <1>3 DEF EInv, TtyInv, TypeOK
    <3> HIDE DEF h
    <3>3. Append(kb, k) = kb \o <<k>> /\ Append(typed, k) = typed \o <<k>>
      BY <1>3, <3>2, AppendIsConcat
    <3>4. (h \o kb) \o <<k>> = h \o (kb \o <<k>>)
      BY <1>3, <3>2, ConcatAssociative
    <3>5. typed' = h \o kb'
      BY <3>1, <3>2, <3>3, <3>4
    <3>6. kb' \in Seq(UserKey)
      BY <1>3, <3>1
    <3> QED
      BY <3>5, <3>6 DEF h
  <2> QED
    BY <2>1, <2>2
<1>5. Handled' = Handled
  BY <1>3, <1>4, HandledIsPrime
<1>6. QueueInv'
  BY <1>3, <1>4, <1>5 DEF QueueInv
<1>7. RingInv'
  BY <1>2 DEF EInv, RingInv, ring
<1>8. Printed' = Printed
  BY <1>2 DEF Printed, Shown, ring
<1>9. EchoInv'
  BY <1>2, <1>5, <1>8 DEF EInv, EchoInv
<1> QED
  BY <1>1, <1>5, <1>6, <1>7, <1>9 DEF EInv

LEMMA QueueUnchanged ==
  ASSUME EInv, UNCHANGED keys
  PROVE  Handled' = Handled /\ QueueInv' /\ Foreseen(Handled)'
<1>1. Handled' = Handled
  BY DEF Handled, keys
<1> QED
  BY <1>1 DEF EInv, QueueInv, keys

LEMMA InitTtyEcho == EInv /\ InitTty => EInv'
<1> USE TtyAssumption DEF TtyId
<1> SUFFICES ASSUME EInv, InitTty PROVE EInv'
  OBVIOUS
<1>1. TtyInv'
  BY InitTtyInv DEF EInv
<1>2. Handled' = Handled /\ QueueInv' /\ Foreseen(Handled)'
  BY QueueUnchanged DEF InitTty
<1>3. /\ stage = "init_tty" /\ Handled = <<>> /\ nr_current_console = 0 /\ output = <<>> /\ output' = output
      /\ i \in TtyId /\ Printed = Expected(Handled)
  BY DEF InitTty, EInv, EchoInv, TtyInv, TypeOK
<1>4. /\ (stage' = "init_tty" /\ i' = i + 1) \/ stage' = "tty_do_read"
      /\ stage' = "tty_do_read" => i + 1 \notin TtyId
      /\ nr_current_console' = 0
  BY <1>3 DEF InitTty, SelectConsole
<1>5. RingInv'
  <2>1. /\ \A t \in TtyId : in_count'[t] = IF t = i THEN 0 ELSE in_count[t]
        /\ \A t \in TtyId : p_inbuf_head'[t] = IF t = i THEN 0 ELSE p_inbuf_head[t]
        /\ \A t \in TtyId : p_inbuf_tail'[t] = IF t = i THEN 0 ELSE p_inbuf_tail[t]
    BY DEF InitTty, EInv, TtyInv, RingTypes
  <2>2. \A t \in TtyId : t < i /\ in_count[t] = 0 => p_inbuf_head[t] = p_inbuf_tail[t]
    BY DEF EInv, RingInv
  <2>3. \A t \in TtyId : (stage' /= "init_tty" \/ t < i') => (t = i \/ t < i)
    BY <1>3, <1>4
  <2> QED
    BY <1>4, <2>1, <2>2, <2>3 DEF RingInv
<1>6. Printed' = Printed
  BY <1>3, <1>4 DEF Printed, Shown
<1>7. EchoInv'
  BY <1>2, <1>3, <1>4, <1>6 DEF EchoInv
<1> QED
  BY <1>1, <1>2, <1>5, <1>7 DEF EInv

LEMMA TtyDoReadEcho == EInv /\ TtyDoRead => EInv'
<1> SUFFICES ASSUME EInv, TtyDoRead PROVE EInv'
  OBVIOUS
<1>1. TtyInv'
  BY TtyDoReadInv DEF EInv
<1>2. Handled' = Handled /\ QueueInv' /\ Foreseen(Handled)'
  BY QueueUnchanged DEF TtyDoRead
<1>3. /\ UNCHANGED <<ring, nr_current_console, i, output>> /\ stage = "tty_do_read"
      /\ stage' \in {"keyboard_read", "tty_do_write"}
      /\ stage' = "keyboard_read" => nr_current_console = i
  BY DEF TtyDoRead
<1>4. i \in TtyId /\ \A t \in TtyId : in_count[t] = 0
  BY <1>3 DEF EInv, TtyInv, NothingDropped, TypeOK
<1>5. RingInv'
  BY <1>3, <1>4 DEF EInv, RingInv, ring
<1>6. Printed' = Printed
  BY <1>3, <1>4 DEF Printed, Shown, ring
<1>7. EchoInv'
  BY <1>2, <1>3, <1>6 DEF EInv, EchoInv
<1> QED
  BY <1>1, <1>2, <1>5, <1>7 DEF EInv

LEMMA TtyDoWriteEcho == EInv /\ TtyDoWrite => EInv'
<1> SUFFICES ASSUME EInv, TtyDoWrite PROVE EInv'
  OBVIOUS
<1>1. TtyInv'
  BY TtyDoWriteInv DEF EInv
<1>2. Handled' = Handled /\ QueueInv' /\ Foreseen(Handled)'
  BY QueueUnchanged DEF TtyDoWrite
<1>3. /\ stage = "tty_do_write" /\ stage' = "tty_do_read" /\ UNCHANGED nr_current_console
      /\ i \in TtyId /\ i' \in TtyId
      /\ \A t \in TtyId : t /= i => in_count[t] = 0
      /\ in_count[i] \in {0, 1}
      /\ RingTypes
  <2>1. in_count[i] \in 0 .. TTY_IN_BYTES /\ in_count[i] <= 1 /\ i \in TtyId
    BY DEF EInv, TtyInv, TypeOK, OneAtMost, TtyDoWrite
  <2>2. in_count[i] \in {0, 1}
    BY <2>1, TtyAssumption
  <2>3. i' \in TtyId
    BY <2>1, TtyAssumption DEF TtyDoWrite, TtyId
  <2> QED
    BY <2>1, <2>2, <2>3 DEF EInv, TtyInv, OneAtMost, TtyDoWrite
<1>4. CASE in_count[i] = 0
  <2>1. UNCHANGED <<ring, output>>
    BY <1>3, <1>4 DEF TtyDoWrite, Waiting
  <2>2. RingInv'
    BY <1>3, <2>1 DEF EInv, RingInv, ring
  <2>3. Printed' = Printed
    BY <1>3, <1>4, <2>1 DEF Printed, Shown
  <2>4. EchoInv'
    BY <1>2, <1>3, <2>3 DEF EInv, EchoInv
  <2> QED
    BY <1>1, <1>2, <2>2, <2>4 DEF EInv
<1>5. CASE in_count[i] = 1
  <2>1. /\ p_inbuf_tail' = [p_inbuf_tail EXCEPT ![i] = Wrap(@ + 1)]
        /\ in_count' = [in_count EXCEPT ![i] = @ - 1]
        /\ output' = Append(output, <<i, in_buf[i][p_inbuf_tail[i]].code>>)
        /\ p_inbuf_head' = p_inbuf_head
    BY <1>3, <1>5 DEF TtyDoWrite, Waiting, Tell
  <2>2. RingInv'
    <3>1. \A t \in TtyId : p_inbuf_tail'[t] = IF t = i THEN Wrap(p_inbuf_tail[i] + 1) ELSE p_inbuf_tail[t]
      BY <1>3, <2>1 DEF RingTypes
    <3>2. p_inbuf_head[i] = Wrap(p_inbuf_tail[i] + 1)
      BY <1>3, <1>5 DEF EInv, RingInv
    <3>3. \A t \in TtyId : t /= i => p_inbuf_head[t] = p_inbuf_tail[t]
      BY <1>3 DEF EInv, RingInv
    <3>4. \A t \in TtyId : p_inbuf_head'[t] = p_inbuf_tail'[t]
      BY <2>1, <3>1, <3>2, <3>3
    <3> QED
      BY <1>3, <3>4 DEF RingInv
  <2>3. Printed' = Printed
    BY <1>3, <1>5, <2>1 DEF Printed, Shown
  <2>4. EchoInv'
    BY <1>2, <1>3, <2>3 DEF EInv, EchoInv
  <2> QED
    BY <1>1, <1>2, <2>2, <2>4 DEF EInv
<1> QED
  BY <1>3, <1>4, <1>5

\* A key has one kind of effect.
LEMMA EffectOf ==
  ASSUME NEW c, NEW o, NEW k
  PROVE  /\ Text(k) \/ Scroll(k) =>
              Effect([console |-> c, output |-> o], k)
              = [console |-> c, output |-> Append(o, <<c, k.code>>)]
         /\ Choice(k) =>
              Effect([console |-> c, output |-> o], k)
              = [console |-> IF k.fn \in TtyId THEN k.fn ELSE c, output |-> o]
         /\ ~Text(k) /\ ~Choice(k) /\ ~Scroll(k) =>
              Effect([console |-> c, output |-> o], k) = [console |-> c, output |-> o]
<1> DEFINE seen == [console |-> c, output |-> o]
<1>1. /\ Choice(k) => ~Text(k) /\ ~Scroll(k)
  BY DEF Choice, Text, Scroll
<1>2. ASSUME Text(k) \/ Scroll(k)
      PROVE  Effect(seen, k) = [console |-> c, output |-> Append(o, <<c, k.code>>)]
  <2>1. Effect(seen, k) = [seen EXCEPT !.output = Append(@, <<seen.console, k.code>>)]
    BY <1>1, <1>2 DEF Effect
  <2> QED
    BY <2>1
<1>3. ASSUME Choice(k), k.fn \in TtyId
      PROVE  Effect(seen, k) = [console |-> k.fn, output |-> o]
  <2>1. Effect(seen, k) = [seen EXCEPT !.console = k.fn]
    BY <1>1, <1>3 DEF Effect
  <2> QED
    BY <2>1
<1>4. ASSUME Choice(k), k.fn \notin TtyId
      PROVE  Effect(seen, k) = seen
  BY <1>1, <1>4 DEF Effect
<1>5. ASSUME ~Text(k), ~Choice(k), ~Scroll(k)
      PROVE  Effect(seen, k) = seen
  BY <1>5 DEF Effect
<1> QED
  BY <1>2, <1>3, <1>4, <1>5

LEMMA KeyboardReadEcho == EInv /\ KeyboardRead => EInv'
<1> SUFFICES ASSUME EInv, KeyboardRead PROVE EInv'
  OBVIOUS
<1>1. TtyInv'
  BY KeyboardReadInv DEF EInv
<1> DEFINE k == Head(kb)
<1>2. /\ stage = "keyboard_read" /\ stage' = "tty_do_write" /\ i' = i /\ typed' = typed
      /\ kb' = Tail(kb) /\ in_process(i, k)
      /\ i \in TtyId /\ nr_current_console = i
      /\ \A t \in TtyId : in_count[t] = 0 /\ p_inbuf_head[t] = p_inbuf_tail[t]
      /\ \A t \in TtyId : p_inbuf_head[t] \in Slot /\ p_inbuf_tail[t] \in Slot
      /\ RingTypes
      /\ kb \in Seq(UserKey) /\ kb # <<>>
      /\ Handled \in Seq(UserKey) /\ typed = Handled \o kb /\ Foreseen(Handled)
      /\ Expected(Handled) = Printed
  <2>1. stage = "keyboard_read" /\ stage' = "tty_do_write" /\ i' = i /\ typed' = typed
        /\ kb' = Tail(kb) /\ in_process(i, k)
    BY DEF KeyboardRead
  <2>2. /\ i \in TtyId /\ kb \in Seq(UserKey) /\ kb # <<>> /\ RingTypes
        /\ \A t \in TtyId : in_count[t] = 0
        /\ \A t \in TtyId : p_inbuf_head[t] \in Slot /\ p_inbuf_tail[t] \in Slot
    BY <2>1 DEF EInv, TtyInv, TypeOK, NothingDropped, KeyIsThere
  <2>3. /\ Handled \in Seq(UserKey) /\ typed = Handled \o kb /\ Foreseen(Handled)
        /\ Expected(Handled) = Printed /\ nr_current_console = i
    BY <2>1 DEF EInv, QueueInv, EchoInv
  <2>4. \A t \in TtyId : p_inbuf_head[t] = p_inbuf_tail[t]
    BY <2>1, <2>2 DEF EInv, RingInv
  <2> QED
    BY <2>1, <2>2, <2>3, <2>4
<1> DEFINE h == Handled
<1>3. /\ k \in UserKey /\ Tail(kb) \in Seq(UserKey)
      /\ Append(h, k) \in Seq(UserKey) /\ typed' = Append(h, k) \o kb'
  <2>1. h \in Seq(UserKey) /\ typed = h \o kb /\ kb \in Seq(UserKey) /\ kb # <<>>
    BY <1>2
  <2> HIDE DEF h
  <2>2. k \in UserKey /\ Tail(kb) \in Seq(UserKey) /\ <<k>> \in Seq(UserKey)
    BY <2>1
  <2>3. kb = <<k>> \o Tail(kb)
    BY <2>1
  <2>4. h \o (<<k>> \o Tail(kb)) = (h \o <<k>>) \o Tail(kb)
    BY <2>1, <2>2, ConcatAssociative
  <2>5. Append(h, k) = h \o <<k>>
    BY <2>1, <2>2, AppendIsConcat
  <2>6. typed' = Append(h, k) \o kb'
    BY <1>2, <2>1, <2>3, <2>4, <2>5
  <2>7. Append(h, k) \in Seq(UserKey)
    BY <2>1, <2>2
  <2> QED
    BY <2>2, <2>6, <2>7
<1>4. kb' \in Seq(UserKey) /\ Handled' = Append(Handled, k)
  <2>1. kb' \in Seq(UserKey)
    BY <1>2, <1>3
  <2> QED
    BY <1>3, <2>1, HandledIsPrime
<1>5. QueueInv'
  BY <1>3, <1>4 DEF QueueInv
<1>6. Foreseen(Append(Handled, k)) /\ Expected(Append(Handled, k)) = Effect(Expected(Handled), k)
  BY <1>2, <1>3, ExpectedOfAppend
<1>7. Expected(Handled) = [console |-> i, output |-> output]
  BY <1>2 DEF Printed, Shown
<1> HIDE DEF k
<1>8. /\ Text(k) \/ Scroll(k) =>
           Effect(Expected(Handled), k)
           = [console |-> i, output |-> Append(output, <<i, k.code>>)]
      /\ Choice(k) =>
           Effect(Expected(Handled), k)
           = [console |-> IF k.fn \in TtyId THEN k.fn ELSE i, output |-> output]
      /\ ~Text(k) /\ ~Choice(k) /\ ~Scroll(k) =>
           Effect(Expected(Handled), k) = [console |-> i, output |-> output]
  <2> DEFINE seen == [console |-> i, output |-> output]
  <2>1. /\ Text(k) \/ Scroll(k) =>
             Effect(seen, k) = [console |-> i, output |-> Append(output, <<i, k.code>>)]
        /\ Choice(k) =>
             Effect(seen, k)
             = [console |-> IF k.fn \in TtyId THEN k.fn ELSE i, output |-> output]
        /\ ~Text(k) /\ ~Choice(k) /\ ~Scroll(k) => Effect(seen, k) = seen
    BY EffectOf
  <2>2. Expected(Handled) = seen
    BY <1>7
  <2> QED
    BY <2>1, <2>2
<1>9. CASE Text(k)
  <2>1. put_key(i, k) /\ UNCHANGED <<nr_current_console, output>>
    BY <1>2, <1>9 DEF in_process, Choice, Text, Scroll
  <2>2. /\ in_buf' = [in_buf EXCEPT ![i][p_inbuf_head[i]] = k]
        /\ p_inbuf_head' = [p_inbuf_head EXCEPT ![i] = Wrap(@ + 1)]
        /\ in_count' = [in_count EXCEPT ![i] = @ + 1]
        /\ p_inbuf_tail' = p_inbuf_tail
    BY <1>2, <2>1, TtyAssumption DEF put_key
  <2>3. \A t \in TtyId : in_count'[t] = IF t = i THEN 1 ELSE 0
    BY <1>2, <2>2 DEF RingTypes
  <2>4. \A t \in TtyId :
          p_inbuf_head'[t] = IF t = i THEN Wrap(p_inbuf_tail[i] + 1) ELSE p_inbuf_tail[t]
    BY <1>2, <2>2 DEF RingTypes
  <2>5. RingInv'
    BY <1>2, <2>2, <2>3, <2>4 DEF RingInv
  <2>6. in_buf'[i][p_inbuf_tail'[i]] = k
    BY <1>2, <2>2 DEF RingTypes
  <2>7. Printed' = [console |-> i, output |-> Append(output, <<i, k.code>>)]
    BY <1>2, <2>1, <2>3, <2>6 DEF Printed, Shown
  <2>8. Effect(Expected(Handled), k) = [console |-> i, output |-> Append(output, <<i, k.code>>)]
    BY <1>9, <1>8
  <2>9. EchoInv'
    BY <1>2, <1>4, <1>6, <2>7, <2>8 DEF EchoInv
  <2> QED
    BY <1>1, <1>4, <1>5, <1>6, <2>5, <2>9 DEF EInv
<1>10. CASE ~Text(k)
  <2>1. UNCHANGED ring
    BY <1>2, <1>10 DEF in_process
  <2>2. RingInv'
    BY <1>2, <2>1 DEF RingInv, ring
  <2>3. Printed' = [console |-> nr_current_console', output |-> output']
    BY <1>2, <2>1 DEF Printed, Shown, ring
  <2>4. Effect(Expected(Handled), k) = [console |-> nr_current_console', output |-> output']
    <3>1. CASE Choice(k)
      <4>1. /\ nr_current_console' = IF k.fn \in TtyId THEN k.fn ELSE i
            /\ output' = output
        BY <1>2, <1>10, <3>1 DEF in_process, SelectConsole, Choice, Scroll
      <4>2. Effect(Expected(Handled), k)
            = [console |-> IF k.fn \in TtyId THEN k.fn ELSE i, output |-> output]
        BY <3>1, <1>8
      <4> QED
        BY <4>1, <4>2
    <3>2. CASE Scroll(k)
      <4>1. nr_current_console' = i /\ output' = Append(output, <<i, k.code>>)
        BY <1>2, <1>10, <3>2 DEF in_process, Tell, Choice, Scroll
      <4>2. Effect(Expected(Handled), k) = [console |-> i, output |-> Append(output, <<i, k.code>>)]
        BY <3>2, <1>8
      <4> QED
        BY <4>1, <4>2
    <3>3. CASE ~Choice(k) /\ ~Scroll(k)
      <4>1. nr_current_console' = i /\ output' = output
        BY <1>2, <1>10, <3>3 DEF in_process
      <4>2. Effect(Expected(Handled), k) = [console |-> i, output |-> output]
        BY <1>10, <3>3, <1>8
      <4> QED
        BY <4>1, <4>2
    <3> QED
      BY <3>1, <3>2, <3>3
  <2>5. EchoInv'
    BY <1>2, <1>4, <1>6, <2>3, <2>4 DEF EchoInv
  <2> QED
    BY <1>1, <1>4, <1>5, <1>6, <2>2, <2>5 DEF EInv
<1> QED
  BY <1>9, <1>10

LEMMA NextEcho == EInv /\ [TtyNext]_tty_vars => EInv'
<1> SUFFICES ASSUME EInv, [TtyNext]_tty_vars PROVE EInv'
  OBVIOUS
<1>1. CASE TtyTask
  BY <1>1, InitTtyEcho, TtyDoReadEcho, KeyboardReadEcho, TtyDoWriteEcho DEF TtyTask
<1>2. CASE LastByte \/ \E k \in UserKey : Type(k)
  BY <1>2, KeyboardEcho
<1>3. CASE UNCHANGED tty_vars
  <2>1. UNCHANGED <<ring, nr_current_console, stage, i, keys, output>>
    BY <1>3 DEF tty_vars, control
  <2>2. TtyInv'
    BY <1>3, TtyNextInv DEF EInv
  <2>3. Handled' = Handled /\ QueueInv' /\ Foreseen(Handled)'
    BY <2>1, QueueUnchanged
  <2>4. RingInv'
    BY <2>1 DEF EInv, RingInv, ring
  <2>5. Printed' = Printed
    BY <2>1 DEF Printed, Shown, ring
  <2>6. EchoInv'
    BY <2>1, <2>3, <2>5 DEF EInv, EchoInv
  <2> QED
    BY <2>2, <2>3, <2>4, <2>6 DEF EInv
<1> QED
  BY <1>1, <1>2, <1>3 DEF TtyNext

\* Whenever tty_task() looks for a key, the characters printed, the scrolling
\* and the choice of the console are those of the keys read so far, one by one,
\* each for the console that was current when it was typed.
THEOREM EchoedInOrderAlways == TtySpec => []EchoedInOrder
<1>1. EInv => EchoedInOrder
  <2> SUFFICES ASSUME EInv, stage = "tty_do_read" PROVE Shown = Expected(Handled)
    BY DEF EchoedInOrder, Shown
  <2> QED
    BY DEF EInv, EchoInv, Printed
<1> QED
  BY <1>1, InitEcho, NextEcho, PTL DEF TtySpec
=============================================================================
