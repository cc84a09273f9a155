--------------------------- MODULE FileSystemProofs ---------------------------
(***************************************************************************)
(* Theorems about FileSystem, for any size of the disc, of its blocks and  *)
(* of the table of open files, and any names and lines.                    *)
(*                                                                         *)
(* RootInv holds whatever the chains of blocks are; from it follow         *)
(* RootIsFound and OnTheWayUp.  The second half of the module says what a  *)
(* list of all files and directories is (the witness w of FilesInv), and   *)
(* what an FCB that is written into a directory does to it.  FilesProofs   *)
(* takes such a list through the commands.                                 *)
(***************************************************************************)
EXTENDS FileSystem, TLAPS, FiniteSetTheorems, SequenceTheorems, WellFoundedInduction

-----------------------------------------------------------------------------
(* Numbers.                                                                *)

LEMMA Sizes ==
  /\ FCBSIZE \in Nat /\ FCBSIZE > 0 /\ BLOCKSIZE \in Nat /\ BLOCKSIZE >= 2 * FCBSIZE
  /\ Blocks \in Nat /\ Blocks > 7 /\ Blocks < 65535 /\ MAXOPENFILE \in Nat /\ MAXOPENFILE > 0
  /\ END = 65535 /\ FREE = 0 /\ Root = 5 /\ FirstData = 7
<1>1. /\ FCBSIZE \in Nat \ {0} /\ BLOCKSIZE \in Nat /\ BLOCKSIZE >= 2 * FCBSIZE
      /\ Blocks \in Nat /\ Blocks > FirstData /\ Blocks < END /\ MAXOPENFILE \in Nat \ {0}
  BY FileSystemAssumption, Zenon
<1> QED
  BY <1>1 DEF END, FREE, Root, FirstData

LEMMA Places == 0 \in Fd /\ Root \in Block /\ 0 \in Block /\ 0 \in Unit /\ FCBSIZE \in Unit
BY Sizes DEF Fd, Block, Unit

LEMMA Induction ==
  ASSUME NEW N \in Nat, NEW S, 0 \in S, \A k \in 1 .. N : k - 1 \in S => k \in S
  PROVE  \A k \in 0 .. N : k \in S
<1> DEFINE T == {k \in 0 .. N : k \notin S}
<1> SUFFICES ASSUME T # {} PROVE FALSE
  OBVIOUS
<1>1. PICK x \in T : \A y \in T : ~(<<y, x>> \in OpToRel(<, Nat))
  <2>1. T \subseteq Nat
    OBVIOUS
  <2> HIDE DEF T
  <2> QED
    BY <2>1, WFMin, NatLessThanWellFounded, Zenon
<1>2. \A y \in T : ~(y < x)
  <2>1. T \subseteq Nat
    OBVIOUS
  <2> HIDE DEF T
  <2> QED
    BY <1>1, <2>1 DEF OpToRel
<1>3. x \in 1 .. N /\ x - 1 \in 0 .. N /\ x - 1 < x
  OBVIOUS
<1>4. x - 1 \in S
  BY <1>2, <1>3
<1> QED
  BY <1>3, <1>4

LEMMA MinFound ==
  ASSUME NEW S, S \subseteq Nat, S # {}
  PROVE  Min(S) \in S /\ \A y \in S : Min(S) <= y
<1>1. PICK x \in S : \A y \in S : ~(<<y, x>> \in OpToRel(<, Nat))
  BY WFMin, NatLessThanWellFounded, Zenon
<1>2. S \subseteq Nat
  OBVIOUS
<1>3. \A y \in S : ~(y < x)
  BY <1>1, <1>2 DEF OpToRel
<1>4. \A y \in S : x <= y
  BY <1>2, <1>3
<1> QED
  BY <1>4, Zenon DEF Min

LEMMA Min2 ==
  ASSUME NEW a \in Nat, NEW b \in Nat
  PROVE  Min({a, b}) \in Nat /\ Min({a, b}) \in {a, b} /\ Min({a, b}) <= a /\ Min({a, b}) <= b
<1>1. {a, b} \subseteq Nat /\ {a, b} # {} /\ a \in {a, b} /\ b \in {a, b}
  OBVIOUS
<1>2. Min({a, b}) \in {a, b} /\ \A y \in {a, b} : Min({a, b}) <= y
  BY <1>1, MinFound
<1> QED
  BY <1>1, <1>2

LEMMA Max2 ==
  ASSUME NEW a \in Nat, NEW b \in Nat
  PROVE  Max({a, b}) = IF a > b THEN a ELSE b
BY DEF Max

LEMMA Quotient ==
  ASSUME NEW n \in Nat, NEW w \in Nat, w > 0
  PROVE  /\ n \div w \in Nat /\ n % w \in 0 .. w - 1
         /\ n = (n \div w) * w + (n % w)
BY SMTT(30)

LEMMA Times ==
  ASSUME NEW w \in Nat, NEW m \in Nat, NEW n \in Nat
  PROVE  /\ m * w \in Nat /\ (m + 1) * w = m * w + w
         /\ m <= n => m * w <= n * w
         /\ 0 * w = 0 /\ 1 * w = w
BY SMTT(30)

LEMMA SmallQuotient ==
  ASSUME NEW n \in Nat, NEW w \in Nat, n < w
  PROVE  n \div w = 0 /\ n % w = n
<1> DEFINE q == n \div w
           r == n % w
<1>1. q \in Nat /\ r \in 0 .. w - 1 /\ n = q * w + r
  BY Quotient
<1> HIDE DEF q, r
<1>2. 1 <= q => 1 * w <= q * w
  BY <1>1, Times
<1>3. 0 * w = 0 /\ 1 * w = w
  BY Times
<1>4. q = 0
  BY <1>1, <1>2, <1>3
<1> QED
  BY <1>1, <1>3, <1>4 DEF q, r

LEMMA Multiple ==
  ASSUME NEW w \in Nat, w > 0, NEW n \in Nat, n >= 2 * w
  PROVE  LET m == n \div w
         IN  m \in Nat /\ m >= 2 /\ m * w <= n /\ \A i \in 0 .. m - 1 : (i + 1) * w <= n /\ i * w \in Nat
<1> DEFINE m == n \div w
           r == n % w
<1>1. m \in Nat /\ r \in 0 .. w - 1 /\ n = m * w + r
  BY Quotient
<1> HIDE DEF m, r
<1>2. m <= 1 => m * w <= 1 * w
  BY <1>1, Times
<1>3. 1 * w = w /\ m * w \in Nat
  BY <1>1, Times
<1>4. m >= 2 /\ m * w <= n
  BY <1>1, <1>2, <1>3
<1>5. ASSUME NEW i \in 0 .. m - 1 PROVE (i + 1) * w <= n /\ i * w \in Nat
  <2>1. i \in Nat /\ i + 1 \in Nat /\ i + 1 <= m
    BY <1>1
  <2>2. (i + 1) * w <= m * w /\ (i + 1) * w \in Nat /\ i * w \in Nat
    BY <1>1, <2>1, Times
  <2> QED
    BY <1>1, <1>3, <1>4, <2>2
<1> QED
  BY <1>1, <1>4, <1>5 DEF m

-----------------------------------------------------------------------------
(* The FAT.                                                                *)

\* No entry of a FAT leads to the root's first block.
FatType == [Block -> {FREE, END} \union (Root + 1 .. Blocks - 1)]

ChainNext(h, p) ==
  LET next == h.fat1[Last(p)] IN IF next = END THEN p ELSE Append(p, next)

LEMMA ChainFound ==
  ASSUME NEW h, NEW first
  PROVE  \E c : /\ c[0] = <<first>> /\ \A k \in 1 .. Blocks : c[k] = ChainNext(h, c[k - 1])
                /\ Chain(h, first) = c[Blocks]
<1> DEFINE Is(f, m) == f = [k \in 0 .. m |-> IF k = 0 THEN <<first>> ELSE ChainNext(h, f[k - 1])]
           S == {m \in 0 .. Blocks : \E f : Is(f, m)}
<1> HIDE DEF ChainNext
<1>1. 0 \in S
  <2>1. Is([k \in 0 .. 0 |-> <<first>>], 0)
    OBVIOUS
  <2> HIDE DEF Is
  <2> QED
    BY <2>1, Sizes
<1>2. ASSUME NEW m \in 1 .. Blocks, m - 1 \in S PROVE m \in S
  <2>1. PICK f : Is(f, m - 1)
    BY <1>2
  <2> DEFINE g == [k \in 0 .. m |-> IF k = m THEN ChainNext(h, f[m - 1]) ELSE f[k]]
  <2>2. ASSUME NEW k \in 0 .. m
        PROVE  g[k] = IF k = 0 THEN <<first>> ELSE ChainNext(h, g[k - 1])
    <3>1. CASE k = m
      BY <3>1
    <3>2. CASE k # m
      <4>1. k \in 0 .. m - 1
        BY <3>2
      <4>2. f[k] = IF k = 0 THEN <<first>> ELSE ChainNext(h, f[k - 1])
        BY <2>1, <4>1
      <4> QED
        BY <3>2, <4>1, <4>2
    <3> QED
      BY <3>1, <3>2
  <2>3. Is(g, m)
    <3>1. g = [k \in 0 .. m |-> g[k]]
      OBVIOUS
    <3> HIDE DEF g
    <3> QED
      BY <2>2, <3>1
  <2> HIDE DEF Is, g
  <2> QED
    BY <2>3
<1>3. \E f : Is(f, Blocks)
  <2>1. Blocks \in Nat /\ Blocks \in 0 .. Blocks
    BY Sizes
  <2> HIDE DEF S
  <2>2. Blocks \in S
    BY <1>1, <1>2, <2>1, Induction
  <2> QED
    BY <2>2 DEF S
<1> DEFINE c == CHOOSE f : Is(f, Blocks)
<1>4. Is(c, Blocks)
  BY <1>3, Zenon
<1>5. Chain(h, first) = c[Blocks]
  BY Zenon DEF Chain, ChainNext
<1> HIDE DEF c
<1>6. c[0] = <<first>> /\ \A k \in 1 .. Blocks : c[k] = ChainNext(h, c[k - 1])
  <2>1. \A k \in 0 .. Blocks : c[k] = IF k = 0 THEN <<first>> ELSE ChainNext(h, c[k - 1])
    BY <1>4, Zenon
  <2>2. 0 \in 0 .. Blocks /\ \A k \in 1 .. Blocks : k \in 0 .. Blocks /\ k # 0
    BY Sizes
  <2> QED
    BY <2>1, <2>2, Zenon
<1> QED
  BY <1>5, <1>6

\* A walk through the FAT: only its first block may be the root's.
Walk(first) ==
  {p \in Seq(Block) : Len(p) >= 1 /\ p[1] = first /\ \A i \in 2 .. Len(p) : p[i] # Root}

LEMMA WalkStarts ==
  ASSUME NEW first \in Block
  PROVE  <<first>> \in Walk(first)
BY DEF Walk

LEMMA WalkGoesOn ==
  ASSUME NEW first, NEW p \in Walk(first)
  PROVE  /\ Last(p) \in Block
         /\ \A b \in Block : b # Root => Append(p, b) \in Walk(first)
<1>1. p \in Seq(Block) /\ Len(p) \in Nat /\ Len(p) >= 1 /\ p[1] = first
      /\ \A i \in 2 .. Len(p) : p[i] # Root
  BY LenProperties DEF Walk
<1>2. Last(p) \in Block
  BY <1>1, ElementOfSeq DEF Last
<1>3. ASSUME NEW b \in Block, b # Root PROVE Append(p, b) \in Walk(first)
  <2>1. /\ Append(p, b) \in Seq(Block) /\ Len(Append(p, b)) = Len(p) + 1
        /\ \A i \in 1 .. Len(p) : Append(p, b)[i] = p[i]
        /\ Append(p, b)[Len(p) + 1] = b
    BY <1>1, AppendProperties
  <2> DEFINE q == Append(p, b)
  <2> HIDE DEF q
  <2>2. q[1] = first /\ Len(q) >= 1
    BY <1>1, <2>1 DEF q
  <2>3. ASSUME NEW i \in 2 .. Len(q) PROVE q[i] # Root
    <3>1. i \in 2 .. Len(p) \/ i = Len(p) + 1
      BY <1>1, <2>1 DEF q
    <3> QED
      BY <1>1, <1>3, <2>1, <3>1 DEF q
  <2> QED
    BY <2>1, <2>2, <2>3 DEF Walk, q
<1> QED
  BY <1>2, <1>3

LEMMA FatLeads ==
  ASSUME NEW fat \in FatType, NEW b \in Block
  PROVE  fat[b] # END => fat[b] \in Block /\ fat[b] # Root
BY Sizes DEF FatType, Block

LEMMA ChainWalks ==
  ASSUME NEW h, h.fat1 \in FatType, NEW first \in Block
  PROVE  Chain(h, first) \in Walk(first)
<1>1. PICK c : /\ c[0] = <<first>> /\ \A k \in 1 .. Blocks : c[k] = ChainNext(h, c[k - 1])
               /\ Chain(h, first) = c[Blocks]
  BY ChainFound, Zenon
<1> DEFINE S == {k \in 0 .. Blocks : c[k] \in Walk(first)}
<1>2. 0 \in S
  <2>1. 0 \in 0 .. Blocks
    BY Sizes
  <2> QED
    BY <1>1, <2>1, WalkStarts
<1>3. ASSUME NEW k \in 1 .. Blocks, k - 1 \in S PROVE k \in S
  <2>1. c[k - 1] \in Walk(first) /\ c[k] = ChainNext(h, c[k - 1]) /\ k \in 0 .. Blocks
    BY <1>1, <1>3
  <2> DEFINE p == c[k - 1]
             b == h.fat1[Last(p)]
  <2>2. Last(p) \in Block /\ \A d \in Block : d # Root => Append(p, d) \in Walk(first)
    BY <2>1, WalkGoesOn
  <2>3. b # END => b \in Block /\ b # Root
    BY <2>2, FatLeads
  <2>4. ChainNext(h, p) = IF b = END THEN p ELSE Append(p, b)
    BY Zenon DEF ChainNext
  <2> QED
    BY <2>1, <2>2, <2>3, <2>4
<1>4. Blocks \in Nat /\ Blocks \in 0 .. Blocks
  BY Sizes
<1> HIDE DEF S
<1>5. Blocks \in S
  BY <1>2, <1>3, <1>4, Induction
<1> QED
  BY <1>1, <1>5 DEF S

LEMMA FreeFound ==
  ASSUME NEW h, FreeBlocks(h) # {}
  PROVE  findblock(h) \in FirstData .. Blocks - 1 /\ findblock(h) \in Block
         /\ findblock(h) # Root /\ findblock(h) \in Root + 1 .. Blocks - 1
<1>1. FreeBlocks(h) \subseteq Nat /\ FreeBlocks(h) \subseteq FirstData .. Blocks - 1
  BY Sizes DEF FreeBlocks
<1>2. findblock(h) \in FreeBlocks(h)
  BY <1>1, MinFound, Zenon DEF findblock
<1> QED
  BY <1>1, <1>2, Sizes DEF Block


GrowNext(p) ==
  LET last == Last(p.at)
      b    == findblock(p.h)
  IN  IF p.full THEN p
      ELSE IF p.h.fat1[last] /= END THEN [p EXCEPT !.at = Append(@, p.h.fat1[last])]
      ELSE IF FreeBlocks(p.h) = {} THEN [p EXCEPT !.full = TRUE]
      ELSE [p EXCEPT !.at = Append(@, b),
                     !.h.fat1 = [@ EXCEPT ![last] = b, ![b] = END],
                     !.h.fat2 = [@ EXCEPT ![last] = b, ![b] = END]]

LEMMA GrownChainFound ==
  ASSUME NEW h, NEW first, NEW n \in Nat
  PROVE  \E c : /\ c[0] = [h |-> h, at |-> <<first>>, full |-> FALSE]
                /\ \A k \in 1 .. n : c[k] = GrowNext(c[k - 1])
                /\ GrownChain(h, first, n) = c[n]
<1> DEFINE start == [h |-> h, at |-> <<first>>, full |-> FALSE]
           Is(f, m) == f = [k \in 0 .. m |-> IF k = 0 THEN start ELSE GrowNext(f[k - 1])]
           S == {m \in 0 .. n : \E f : Is(f, m)}
<1> HIDE DEF GrowNext, start
<1>1. 0 \in S
  <2>1. Is([k \in 0 .. 0 |-> start], 0)
    OBVIOUS
  <2> HIDE DEF Is
  <2> QED
    BY <2>1
<1>2. ASSUME NEW m \in 1 .. n, m - 1 \in S PROVE m \in S
  <2>1. PICK f : Is(f, m - 1)
    BY <1>2
  <2> DEFINE g == [k \in 0 .. m |-> IF k = m THEN GrowNext(f[m - 1]) ELSE f[k]]
  <2>2. ASSUME NEW k \in 0 .. m
        PROVE  g[k] = IF k = 0 THEN start ELSE GrowNext(g[k - 1])
    <3>1. CASE k = m
      BY <3>1
    <3>2. CASE k # m
      <4>1. k \in 0 .. m - 1
        BY <3>2
      <4>2. f[k] = IF k = 0 THEN start ELSE GrowNext(f[k - 1])
        BY <2>1, <4>1
      <4> QED
        BY <3>2, <4>1, <4>2
    <3> QED
      BY <3>1, <3>2
  <2>3. Is(g, m)
    <3>1. g = [k \in 0 .. m |-> g[k]]
      OBVIOUS
    <3> HIDE DEF g
    <3> QED
      BY <2>2, <3>1
  <2> HIDE DEF Is, g
  <2> QED
    BY <2>3
<1>3. \E f : Is(f, n)
  <2>1. n \in 0 .. n
    OBVIOUS
  <2> HIDE DEF S
  <2>2. n \in S
    BY <1>1, <1>2, <2>1, Induction
  <2> QED
    BY <2>2 DEF S
<1> DEFINE c == CHOOSE f : Is(f, n)
<1>4. Is(c, n)
  BY <1>3, Zenon
<1>5. GrownChain(h, first, n) = c[n]
  BY Zenon DEF GrownChain, GrowNext, start
<1> HIDE DEF c
<1>6. c[0] = start /\ \A k \in 1 .. n : c[k] = GrowNext(c[k - 1])
  <2>1. \A k \in 0 .. n : c[k] = IF k = 0 THEN start ELSE GrowNext(c[k - 1])
    BY <1>4, Zenon
  <2>2. 0 \in 0 .. n /\ \A k \in 1 .. n : k \in 0 .. n /\ k # 0
    OBVIOUS
  <2> QED
    BY <2>1, <2>2, Zenon
<1> QED
  BY <1>5, <1>6 DEF start

\* A disc whose FATs are in order, and which holds the same blocks as h.
FatsOf(d, h) ==
  /\ d = [block |-> h.block, fat1 |-> d.fat1, fat2 |-> d.fat2]
  /\ d.fat1 \in FatType /\ d.fat2 \in FatType

Growth(p, h, first) ==
  /\ p = [h |-> p.h, at |-> p.at, full |-> p.full]
  /\ p.full \in BOOLEAN /\ p.at \in Walk(first) /\ FatsOf(p.h, h)

LEMMA FatSet ==
  ASSUME NEW fat \in FatType, NEW b \in Block, NEW v \in {FREE, END} \union (Root + 1 .. Blocks - 1)
  PROVE  [fat EXCEPT ![b] = v] \in FatType
BY DEF FatType

\* A growth with other places and other FATs.
Regrown(p, at, fat1, fat2) == [p EXCEPT !.at = at, !.h.fat1 = fat1, !.h.fat2 = fat2]

Regrowth(p, at, fat1, fat2) ==
  [h |-> [block |-> p.h.block, fat1 |-> fat1, fat2 |-> fat2], at |-> at, full |-> p.full]

GrowthFields(p) ==
  /\ p = [h |-> p.h, at |-> p.at, full |-> p.full]
  /\ p.h = [block |-> p.h.block, fat1 |-> p.h.fat1, fat2 |-> p.h.fat2]

LEMMA GrownRecord ==
  ASSUME NEW p, NEW at, NEW f1, NEW f2, GrowthFields(p)
  PROVE  Regrown(p, at, f1, f2) = Regrowth(p, at, f1, f2)
<1> DEFINE r1 == [h |-> p.h, at |-> at, full |-> p.full]
           r2 == [h |-> [block |-> p.h.block, fat1 |-> f1, fat2 |-> p.h.fat2],
                  at |-> at, full |-> p.full]
<1>1. [p EXCEPT !.at = at] = r1
  BY DEF GrowthFields
<1>2. [r1 EXCEPT !.h.fat1 = f1] = r2
  BY DEF GrowthFields
<1>3. [r2 EXCEPT !.h.fat2 = f2] = Regrowth(p, at, f1, f2)
  BY DEF Regrowth
<1> HIDE DEF r1, r2
<1> QED
  BY <1>1, <1>2, <1>3 DEF Regrown

LEMMA GrowsOn ==
  ASSUME NEW h, NEW first, NEW p, Growth(p, h, first)
  PROVE  Growth(GrowNext(p), h, first)
<1> DEFINE last == Last(p.at)
           b == findblock(p.h)
           f1 == p.h.fat1
           f2 == p.h.fat2
<1>1. /\ p = [h |-> p.h, at |-> p.at, full |-> p.full] /\ p.full \in BOOLEAN
      /\ p.at \in Walk(first)
      /\ p.h = [block |-> h.block, fat1 |-> f1, fat2 |-> f2] /\ f1 \in FatType /\ f2 \in FatType
  BY DEF Growth, FatsOf
<1>2. last \in Block /\ \A d \in Block : d # Root => Append(p.at, d) \in Walk(first)
  BY <1>1, WalkGoesOn
<1>3. CASE p.full
  BY <1>3 DEF GrowNext
<1>4. CASE ~p.full /\ f1[last] # END
  <2>1. Append(p.at, f1[last]) \in Walk(first)
    BY <1>1, <1>2, <1>4, FatLeads
  <2>2. GrowNext(p) = [p EXCEPT !.at = Append(@, f1[last])]
    BY <1>4, Zenon DEF GrowNext
  <2> DEFINE q == [h |-> p.h, at |-> Append(p.at, f1[last]), full |-> p.full]
  <2>3. GrowNext(p) = q
    BY <1>1, <2>2
  <2>4. q = [h |-> q.h, at |-> q.at, full |-> q.full] /\ q.full \in BOOLEAN /\ q.at \in Walk(first)
        /\ q.h = p.h
    BY <1>1, <2>1
  <2> HIDE DEF q
  <2> QED
    BY <1>1, <2>3, <2>4 DEF Growth, FatsOf
<1>5. CASE ~p.full /\ f1[last] = END /\ FreeBlocks(p.h) = {}
  <2>1. GrowNext(p) = [p EXCEPT !.full = TRUE]
    BY <1>5, Zenon DEF GrowNext
  <2> DEFINE q == [h |-> p.h, at |-> p.at, full |-> TRUE]
  <2>2. GrowNext(p) = q
    BY <1>1, <2>1
  <2>3. q = [h |-> q.h, at |-> q.at, full |-> q.full] /\ q.full \in BOOLEAN /\ q.at \in Walk(first)
        /\ q.h = p.h
    BY <1>1
  <2> HIDE DEF q
  <2> QED
    BY <1>1, <2>2, <2>3 DEF Growth, FatsOf
<1>6. CASE ~p.full /\ f1[last] = END /\ FreeBlocks(p.h) # {}
  <2>1. b \in Block /\ b # Root /\ b \in Root + 1 .. Blocks - 1
    BY <1>6, FreeFound
  <2>2. Append(p.at, b) \in Walk(first)
    BY <1>2, <2>1
  <2> DEFINE g1 == [f1 EXCEPT ![last] = b, ![b] = END]
             g2 == [f2 EXCEPT ![last] = b, ![b] = END]
  <2>3. g1 \in FatType /\ g2 \in FatType
    <3>1. [f1 EXCEPT ![last] = b] \in FatType /\ [f2 EXCEPT ![last] = b] \in FatType
      BY <1>1, <1>2, <2>1, FatSet
    <3>2. [[f1 EXCEPT ![last] = b] EXCEPT ![b] = END] \in FatType
          /\ [[f2 EXCEPT ![last] = b] EXCEPT ![b] = END] \in FatType
      BY <2>1, <3>1, FatSet
    <3> QED
      BY <3>2
  <2>4. GrowNext(p) = [p EXCEPT !.at = Append(@, b),
                                !.h.fat1 = [@ EXCEPT ![last] = b, ![b] = END],
                                !.h.fat2 = [@ EXCEPT ![last] = b, ![b] = END]]
    BY <1>6, Zenon DEF GrowNext
  <2> HIDE DEF b, last
  <2> DEFINE q == [h |-> [block |-> h.block, fat1 |-> g1, fat2 |-> g2],
                   at |-> Append(p.at, b), full |-> p.full]
  <2>5. GrowNext(p) = q
    <3>1. GrowthFields(p) /\ p.h.block = h.block
      BY <1>1 DEF GrowthFields
    <3>2. GrowNext(p) = Regrown(p, Append(p.at, b), g1, g2)
      BY <2>4 DEF Regrown
    <3> HIDE DEF g1, g2
    <3>3. Regrown(p, Append(p.at, b), g1, g2) = Regrowth(p, Append(p.at, b), g1, g2)
      BY <3>1, GrownRecord
    <3> QED
      BY <3>1, <3>2, <3>3, Zenon DEF q, Regrowth
  <2>6. q = [h |-> q.h, at |-> q.at, full |-> q.full] /\ q.full \in BOOLEAN /\ q.at \in Walk(first)
        /\ q.h = [block |-> h.block, fat1 |-> q.h.fat1, fat2 |-> q.h.fat2]
        /\ q.h.fat1 = g1 /\ q.h.fat2 = g2
    BY <1>1, <2>2
  <2> HIDE DEF q, g1, g2
  <2> QED
    BY <2>3, <2>5, <2>6 DEF Growth, FatsOf
<1> QED
  BY <1>1, <1>3, <1>4, <1>5, <1>6

LEMMA ChainGrows ==
  ASSUME NEW h, FatsOf(h, h), NEW first \in Block, NEW n \in Nat
  PROVE  Growth(GrownChain(h, first, n), h, first)
<1>1. PICK c : /\ c[0] = [h |-> h, at |-> <<first>>, full |-> FALSE]
               /\ \A k \in 1 .. n : c[k] = GrowNext(c[k - 1])
               /\ GrownChain(h, first, n) = c[n]
  BY GrownChainFound
<1> DEFINE S == {k \in 0 .. n : Growth(c[k], h, first)}
<1>2. 0 \in S
  <2> DEFINE q == [h |-> h, at |-> <<first>>, full |-> FALSE]
  <2>1. q = [h |-> q.h, at |-> q.at, full |-> q.full] /\ q.full \in BOOLEAN
        /\ q.at = <<first>> /\ q.h = h
    OBVIOUS
  <2> HIDE DEF q
  <2>2. Growth(q, h, first)
    BY <2>1, WalkStarts DEF Growth
  <2>3. 0 \in 0 .. n /\ c[0] = q
    BY <1>1 DEF q
  <2> QED
    BY <2>2, <2>3
<1>3. ASSUME NEW k \in 1 .. n, k - 1 \in S PROVE k \in S
  <2>1. Growth(c[k - 1], h, first) /\ c[k] = GrowNext(c[k - 1]) /\ k \in 0 .. n
    BY <1>1, <1>3
  <2> QED
    BY <2>1, GrowsOn
<1>4. n \in 0 .. n
  OBVIOUS
<1> HIDE DEF S
<1>5. n \in S
  BY <1>2, <1>3, <1>4, Induction
<1> QED
  BY <1>1, <1>5 DEF S


-----------------------------------------------------------------------------
(* What a disc and the table of open files hold.                           *)

\* The names of entries: whole ones and what strtok() leaves of them.
Given == Name \union {Split[n][1] : n \in Name}
Dots  == {".", ".."}

FcbType == [filename : Given \union Dots \union {""}, exname : {"", "x"}, directory : BOOLEAN,
            first : Block, length : Nat, free : {0, 1}]

\* An entry with a name of the user's never begins in the root directory, and
\* a directory has room for its first two entries.
FcbOk(f) ==
  /\ f \in FcbType
  /\ f.filename \in Given => f.first >= FirstData
  /\ f.filename /= "" /\ f.directory => f.length >= 2 * FCBSIZE
  /\ f.filename = "" => f.free = 0

UnitOk(u) == u[1] = "fcb" => FcbOk(u[2])

IsDot(u)    == u[1] = "fcb" /\ u[2].filename = "." /\ u[2].first = Root /\ u[2].directory /\ u[2].free = 1
IsDotDot(u) == u[1] = "fcb" /\ u[2].filename = ".." /\ u[2].free = 1

UnitsOk(h) == \A b \in Block, j \in Unit : UnitOk(h.block[b][j])

\* The FATs and the FCBs are in order, and the root directory begins with its
\* own two entries.
DiscInv(h) ==
  /\ FatsOf(h, h) /\ UnitsOk(h)
  /\ IsDot(h.block[Root][0]) /\ IsDotDot(h.block[Root][FCBSIZE])

OpenType == [fcb : FcbType, diroff : Nat, father : Fd, fcbstate : BOOLEAN, topenfile : BOOLEAN]

\* An open file's place in the root directory is never that of the root's own
\* two entries.
InRoot(o, fd) == o[fd].diroff >= 2 /\ (o[fd].diroff + 1) * FCBSIZE <= o[0].fcb.length

\* How many times my_close() goes up from an open file to the root: cur is the
\* deepest, and no two are as deep.
Depths(o, cur, r) ==
  /\ r \in [Fd -> Nat] /\ r[0] = 0
  /\ \A fd \in Fd \ {0} : o[fd].topenfile => r[fd] = r[o[fd].father] + 1
  /\ \A fd \in Fd : o[fd].topenfile => r[fd] <= r[cur]
  /\ \A fd, g \in Fd : o[fd].topenfile /\ o[g].topenfile /\ r[fd] = r[g] => fd = g

Ordered(o, cur) == o[0].father = 0 /\ \E r : Depths(o, cur, r)

\* The open files are on the way from the root to cur, which is open.
TableInv(o, cur) ==
  /\ o \in [Fd -> OpenType]
  /\ \A fd \in Fd : FcbOk(o[fd].fcb)
  /\ o[0].topenfile /\ o[0].fcb.first = Root /\ o[0].fcb.directory /\ o[0].fcb.filename = "."
  /\ cur \in Fd /\ o[cur].topenfile
  /\ \A fd \in Fd \ {0} : o[fd].topenfile =>
       /\ o[fd].fcb.filename \in Given
       /\ o[o[fd].father].topenfile /\ o[fd].father /= cur
       /\ o[fd].father = 0 => InRoot(o, fd)
       /\ \A g \in Fd \ {0} : o[g].topenfile /\ o[g].father = o[fd].father => g = fd
  /\ Ordered(o, cur)

Synced(h, o) == h.block[Root][0][2].length = o[0].fcb.length

StateFields(s) == s = [hard |-> s.hard, open |-> s.open, broken |-> s.broken]

-----------------------------------------------------------------------------
(* do_write().                                                             *)

\* The disc that do_write() leaves.
WriteGrowth(h, first, count, units) ==
  GrownChain(h, first, ((count + Len(units)) - 1) \div BLOCKSIZE)

Written(h, first, count, units) ==
  LET grown == WriteGrowth(h, first, count, units)
  IN  [grown.h EXCEPT !.block = WriteBlocks(@, grown.at, count, units)]

WrittenState(s, fd, h, length) ==
  [s EXCEPT !.hard = h, !.open[fd].fcb.length = length, !.open[fd].fcbstate = TRUE]

LEMMA WriteSteps ==
  ASSUME NEW s, NEW fd, NEW count, NEW units
  PROVE  do_write(s, fd, count, units) =
           IF WriteGrowth(s.hard, s.open[fd].fcb.first, count, units).full
           THEN Break(s, "disc full")
           ELSE WrittenState(s, fd, Written(s.hard, s.open[fd].fcb.first, count, units),
                             NewLength(s.open[fd].fcb.length, count + Len(units)))
<1> DEFINE end == count + Len(units)
           grown == GrownChain(s.hard, s.open[fd].fcb.first, (end - 1) \div BLOCKSIZE)
           hard == [grown.h EXCEPT !.block = WriteBlocks(@, grown.at, count, units)]
           length == NewLength(s.open[fd].fcb.length, end)
<1>1. do_write(s, fd, count, units) =
        IF grown.full THEN Break(s, "disc full") ELSE WrittenState(s, fd, hard, length)
  BY DEF do_write, WrittenState
<1>2. /\ grown = WriteGrowth(s.hard, s.open[fd].fcb.first, count, units)
      /\ hard = Written(s.hard, s.open[fd].fcb.first, count, units)
  BY DEF WriteGrowth, Written
<1> HIDE DEF grown, hard
<1> QED
  BY <1>1, <1>2

\* Some units, of which none is a bad FCB.
Writable(units) == units # <<>> /\ \E U : units \in Seq(U) /\ \A u \in U : UnitOk(u)

WrittenUnits(w, h, count, units) ==
  \A b \in Block, j \in Unit :
    w.block[b][j] = h.block[b][j] \/ \E k \in 1 .. Len(units) : w.block[b][j] = units[k]

WrittenRoot(w, h, first, count, units) ==
  \A j \in Unit : w.block[Root][j] =
    IF first = Root /\ j \in count .. count + Len(units) - 1
    THEN units[j - count + 1] ELSE h.block[Root][j]

LEMMA WritableUnits ==
  ASSUME NEW units, Writable(units)
  PROVE  /\ Len(units) \in Nat /\ Len(units) >= 1
         /\ \A k \in 1 .. Len(units) : UnitOk(units[k])
<1>1. PICK U : units \in Seq(U) /\ \A u \in U : UnitOk(u)
  BY DEF Writable
<1>2. Len(units) \in Nat /\ Len(units) # 0 /\ \A k \in 1 .. Len(units) : units[k] \in U
  BY <1>1, EmptySeq, LenProperties, ElementOfSeq DEF Writable
<1> QED
  BY <1>1, <1>2

LEMMA WrittenDisc ==
  ASSUME NEW h, DiscInv(h), NEW first \in Block, NEW count \in Nat, NEW units, Writable(units)
  PROVE  LET w == Written(h, first, count, units)
         IN  /\ FatsOf(w, w) /\ WrittenUnits(w, h, count, units)
             /\ WrittenRoot(w, h, first, count, units)
<1> DEFINE m == ((count + Len(units)) - 1) \div BLOCKSIZE
           grown == WriteGrowth(h, first, count, units)
           end == count + Len(units)
           at == grown.at
           N(b) == CHOOSE n \in DOMAIN at : at[n] = b
           Before(b) == BLOCKSIZE * (N(b) - 1)
           B == [b \in Block |->
                   IF b \notin ToSet(at) THEN h.block[b]
                   ELSE [j \in Unit |-> LET p == Before(b) + j
                                        IN  IF p \in count .. end - 1
                                            THEN units[p - count + 1] ELSE h.block[b][j]]]
           w == Written(h, first, count, units)
<1>1. Len(units) \in Nat /\ Len(units) >= 1
  BY WritableUnits
<1>2. m \in Nat
  <2>1. (count + Len(units)) - 1 \in Nat /\ BLOCKSIZE \in Nat /\ BLOCKSIZE > 0
    BY <1>1, Sizes
  <2> QED
    BY <2>1, Quotient
<1>3. Growth(grown, h, first)
  <2>1. grown = GrownChain(h, first, m)
    BY Zenon DEF WriteGrowth
  <2> HIDE DEF grown, m
  <2> QED
    BY <1>2, <2>1, ChainGrows DEF DiscInv
<1>4. /\ at \in Walk(first)
      /\ grown.h = [block |-> h.block, fat1 |-> grown.h.fat1, fat2 |-> grown.h.fat2]
      /\ grown.h.fat1 \in FatType /\ grown.h.fat2 \in FatType
  BY <1>3 DEF Growth, FatsOf
<1>5. w = [grown.h EXCEPT !.block = B]
  <2>1. w = [grown.h EXCEPT !.block = WriteBlocks(grown.h.block, at, count, units)]
    BY Zenon DEF Written
  <2>2. WriteBlocks(h.block, at, count, units) = B
    BY Zenon DEF WriteBlocks
  <2> HIDE DEF B
  <2> QED
    BY <1>4, <2>1, <2>2
<1> HIDE DEF grown, w
<1>6. w = [block |-> B, fat1 |-> grown.h.fat1, fat2 |-> grown.h.fat2]
  <2> HIDE DEF B
  <2> QED
    BY <1>4, <1>5
<1>7. FatsOf(w, w) /\ w.block = B
  <2> HIDE DEF B
  <2>1. w.block = B /\ w.fat1 = grown.h.fat1 /\ w.fat2 = grown.h.fat2
    BY <1>6
  <2> QED
    BY <1>4, <1>6, <2>1 DEF FatsOf
<1>8. /\ at \in Seq(Block) /\ Len(at) \in Nat /\ DOMAIN at = 1 .. Len(at) /\ Len(at) >= 1
      /\ at[1] = first /\ \A i \in 2 .. Len(at) : at[i] # Root
  BY <1>4, LenProperties DEF Walk
<1>9. ASSUME NEW b \in Block, b \in ToSet(at)
      PROVE  N(b) \in 1 .. Len(at) /\ at[N(b)] = b
  <2>1. \E k \in DOMAIN at : at[k] = b
    BY <1>9, Zenon DEF ToSet
  <2>2. N(b) \in DOMAIN at /\ at[N(b)] = b
    BY <2>1, Zenon
  <2> QED
    BY <1>8, <2>2
<1>10. ASSUME NEW b \in Block, b \in ToSet(at), NEW j \in Unit
       PROVE  /\ Before(b) \in Int
              /\ Before(b) + j \in count .. end - 1
                   => w.block[b][j] = units[(Before(b) + j) - count + 1]
              /\ Before(b) + j \notin count .. end - 1 => w.block[b][j] = h.block[b][j]
  <2> DEFINE k == N(b)
  <2> HIDE DEF k
  <2>1. k \in Int
    BY <1>8, <1>9, <1>10 DEF k
  <2>2. BLOCKSIZE * (k - 1) \in Int
    BY <2>1, Sizes
  <2>3. Before(b) \in Int
    BY <2>2 DEF k
  <2> HIDE DEF Before
  <2>4. B[b] = [i \in Unit |-> LET p == Before(b) + i
                               IN  IF p \in count .. end - 1
                                   THEN units[p - count + 1] ELSE h.block[b][i]]
    BY <1>10, Zenon
  <2> HIDE DEF B
  <2> QED
    BY <1>7, <2>3, <2>4
<1>11. ASSUME NEW b \in Block, b \notin ToSet(at)
       PROVE  w.block[b] = h.block[b]
  BY <1>7, <1>11, Zenon
<1> HIDE DEF B
<1>12. WrittenUnits(w, h, count, units)
  <2> SUFFICES ASSUME NEW b \in Block, NEW j \in Unit
               PROVE  w.block[b][j] = h.block[b][j] \/ \E k \in 1 .. Len(units) : w.block[b][j] = units[k]
    BY DEF WrittenUnits
  <2>1. CASE b \notin ToSet(at)
    BY <1>11, <2>1
  <2>2. CASE b \in ToSet(at)
    <3> DEFINE p == Before(b) + j
    <3>1. Before(b) \in Int /\ j \in Int
      BY <1>10, <2>2, Sizes DEF Unit
    <3> HIDE DEF Before
    <3>2. CASE p \in count .. end - 1
      <4>1. p - count + 1 \in 1 .. Len(units)
        BY <1>1, <3>1, <3>2
      <4>2. w.block[b][j] = units[p - count + 1]
        BY <1>10, <2>2, <3>2, Zenon
      <4> QED
        BY <4>1, <4>2
    <3>3. CASE p \notin count .. end - 1
      BY <1>10, <2>2, <3>3
    <3> QED
      BY <3>2, <3>3
  <2> QED
    BY <2>1, <2>2
<1>13. WrittenRoot(w, h, first, count, units)
  <2> SUFFICES ASSUME NEW j \in Unit
               PROVE  w.block[Root][j] =
                        IF first = Root /\ j \in count .. count + Len(units) - 1
                        THEN units[j - count + 1] ELSE h.block[Root][j]
    BY DEF WrittenRoot
  <2>1. CASE first # Root
    <3>1. \A i \in 1 .. Len(at) : at[i] # Root
      BY <1>8, <2>1
    <3>2. Root \notin ToSet(at)
      BY <1>8, <3>1, Zenon DEF ToSet
    <3> QED
      BY <1>11, <2>1, <3>2, Places
  <2>2. CASE first = Root
    <3>1. 1 \in DOMAIN at /\ at[1] = Root
      BY <1>8, <2>2
    <3>2. Root \in ToSet(at)
      BY <3>1, Zenon DEF ToSet
    <3>3. N(Root) \in 1 .. Len(at) /\ at[N(Root)] = Root
      BY <1>9, <3>2, Places
    <3> DEFINE k == N(Root)
    <3>4. k = 1
      <4> HIDE DEF k
      <4>1. k \in 1 .. Len(at) /\ at[k] = Root
        BY <3>3 DEF k
      <4> QED
        BY <1>8, <4>1
    <3> HIDE DEF k
    <3>5. BLOCKSIZE * (k - 1) = 0
      BY <3>4, Sizes
    <3>6. Before(Root) = 0
      BY <3>5 DEF k
    <3> HIDE DEF Before
    <3>7. w.block[Root][j] = IF 0 + j \in count .. end - 1
                             THEN units[(0 + j) - count + 1] ELSE h.block[Root][j]
      BY <1>10, <3>2, <3>6, Places
    <3>8. j \in Int /\ 0 + j = j
      BY Sizes DEF Unit
    <3> QED
      BY <2>2, <3>7, <3>8
  <2> QED
    BY <2>1, <2>2
<1> QED
  BY <1>7, <1>12, <1>13 DEF w


-----------------------------------------------------------------------------
(* The FCBs of a directory.                                                *)

LEMMA Names == "" \notin Given /\ "." \notin Given /\ ".." \notin Given
BY FileSystemAssumption, Zenon DEF Given

LEMMA NameGiven == ASSUME NEW n \in Name PROVE n \in Given /\ Split[n][1] \in Given
BY DEF Given

FcbWith(f, name, isdir, first, length) ==
  /\ f \in FcbType
  /\ f.filename = name /\ f.directory = isdir /\ f.first = first /\ f.length = length
  /\ f.free = 1

LEMMA FcbMade ==
  ASSUME NEW name \in Given \union Dots \union {""}, NEW isdir \in BOOLEAN, NEW first \in Block,
         NEW length \in Nat
  PROVE  FcbWith(Fcb(name, isdir, first, length), name, isdir, first, length)
<1>1. (IF isdir THEN "" ELSE "x") \in {"", "x"}
  OBVIOUS
<1> QED
  BY <1>1 DEF Fcb, FcbType, FcbWith

LEMMA FcbSized ==
  ASSUME NEW f \in FcbType, NEW length \in Nat
  PROVE  LET g == [f EXCEPT !.length = length]
         IN  /\ g \in FcbType
             /\ g.filename = f.filename /\ g.directory = f.directory /\ g.first = f.first
             /\ g.free = f.free /\ g.length = length
BY DEF FcbType

LEMMA FcbMarked ==
  ASSUME NEW f \in FcbType
  PROVE  LET g == [f EXCEPT !.filename = "", !.free = 0]
         IN  g \in FcbType /\ g.filename = "" /\ g.free = 0
BY DEF FcbType

LEMMA NoFcbOk == FcbOk(NoFcb) /\ NoFcb.filename = ""
<1> DEFINE f == Fcb("", TRUE, 0, 0)
<1>1. FcbWith(f, "", TRUE, 0, 0)
  <2>1. "" \in Given \union Dots \union {""} /\ TRUE \in BOOLEAN /\ 0 \in Block /\ 0 \in Nat
    BY Places
  <2> QED
    BY <2>1, FcbMade, Zenon
<1> HIDE DEF f
<1>2. [f EXCEPT !.free = 0] \in FcbType /\ [f EXCEPT !.free = 0].filename = ""
      /\ [f EXCEPT !.free = 0].free = 0
  BY <1>1 DEF FcbType, FcbWith
<1>3. NoFcb = [f EXCEPT !.free = 0]
  BY DEF NoFcb, f
<1> QED
  BY <1>2, <1>3, Names DEF FcbOk

\* The units that do_read() takes from the disc.
ReadLength(h, first, length) == Min({length, Len(Chain(h, first)) * BLOCKSIZE})

LEMMA UnitsRead ==
  ASSUME NEW h, DiscInv(h), NEW first \in Block, NEW length \in Nat, length >= 2 * FCBSIZE
  PROVE  LET t == do_read(h, first, length)
             L == ReadLength(h, first, length)
         IN  /\ L \in Nat /\ L >= 2 * FCBSIZE /\ L <= length /\ Len(t) = L
             /\ \A k \in 1 .. L : UnitOk(t[k])
             /\ first = Root => t[1] = h.block[Root][0] /\ t[FCBSIZE + 1] = h.block[Root][FCBSIZE]
<1> DEFINE at == Chain(h, first)
           t == do_read(h, first, length)
           L == ReadLength(h, first, length)
           e(k) == h.block[at[(k - 1) \div BLOCKSIZE + 1]][(k - 1) % BLOCKSIZE]
<1>1. at \in Seq(Block) /\ Len(at) \in Nat /\ Len(at) >= 1 /\ at[1] = first
  <2>1. at \in Walk(first)
    BY ChainWalks DEF DiscInv, FatsOf
  <2> HIDE DEF at
  <2> QED
    BY <2>1, LenProperties DEF Walk
<1>2. t = [k \in 1 .. L |-> e(k)]
  BY Zenon DEF do_read, ReadLength
<1> HIDE DEF at, t
<1>3. /\ BLOCKSIZE \in Nat /\ BLOCKSIZE > 0 /\ BLOCKSIZE >= 2 * FCBSIZE /\ FCBSIZE \in Nat
      /\ FCBSIZE > 0
  BY Sizes
<1>4. Len(at) * BLOCKSIZE \in Nat /\ Len(at) * BLOCKSIZE >= BLOCKSIZE
  BY <1>1, <1>3, Times
<1>5. L \in Nat /\ L >= 2 * FCBSIZE /\ L <= length /\ L <= Len(at) * BLOCKSIZE
  <2> DEFINE a == Len(at) * BLOCKSIZE
  <2> HIDE DEF a
  <2>1. L = Min({length, a})
    BY DEF ReadLength, at, a
  <2>2. Min({length, a}) \in Nat /\ Min({length, a}) \in {length, a}
        /\ Min({length, a}) <= length /\ Min({length, a}) <= a
    BY <1>4, Min2 DEF a
  <2> HIDE DEF L
  <2> QED
    BY <1>3, <1>4, <2>1, <2>2 DEF a
<1> HIDE DEF L
<1>6. ASSUME NEW k \in 1 .. L PROVE UnitOk(e(k))
  <2> DEFINE q == (k - 1) \div BLOCKSIZE
             r == (k - 1) % BLOCKSIZE
  <2>1. k - 1 \in Nat /\ k - 1 < Len(at) * BLOCKSIZE
    BY <1>1, <1>4, <1>5
  <2>2. q \in Nat /\ r \in 0 .. BLOCKSIZE - 1 /\ k - 1 = q * BLOCKSIZE + r
    BY <1>3, <2>1, Quotient
  <2> HIDE DEF q, r
  <2>3. Len(at) <= q => Len(at) * BLOCKSIZE <= q * BLOCKSIZE
    BY <1>1, <1>3, <2>2, Times
  <2>4. q * BLOCKSIZE \in Nat
    BY <1>3, <2>2, Times
  <2>5. q + 1 \in 1 .. Len(at)
    BY <1>1, <1>4, <2>1, <2>2, <2>3, <2>4
  <2>6. at[q + 1] \in Block /\ r \in Unit
    BY <1>1, <2>2, <2>5, ElementOfSeq DEF Unit
  <2>7. UnitOk(h.block[at[q + 1]][r])
    BY <2>6 DEF DiscInv, UnitsOk
  <2> QED
    BY <2>7 DEF q, r
<1>7. ASSUME first = Root PROVE e(1) = h.block[Root][0] /\ e(FCBSIZE + 1) = h.block[Root][FCBSIZE]
  <2>1. 0 \div BLOCKSIZE = 0 /\ 0 % BLOCKSIZE = 0
    BY <1>3, SmallQuotient
  <2>2. FCBSIZE \div BLOCKSIZE = 0 /\ FCBSIZE % BLOCKSIZE = FCBSIZE
    BY <1>3, SmallQuotient
  <2>3. 1 - 1 = 0 /\ (FCBSIZE + 1) - 1 = FCBSIZE /\ 0 + 1 = 1
    BY <1>3
  <2>4. e(1) = h.block[at[1]][0]
    BY <2>1, <2>3
  <2>5. e(FCBSIZE + 1) = h.block[at[1]][FCBSIZE]
    BY <2>2, <2>3
  <2> HIDE DEF e
  <2> QED
    BY <1>1, <1>7, <2>4, <2>5
<1> HIDE DEF e
<1>8. Len(t) = L
  BY <1>2, <1>5
<1>9. 1 \in 1 .. L /\ FCBSIZE + 1 \in 1 .. L
  BY <1>3, <1>5
<1> QED
  BY <1>2, <1>5, <1>6, <1>7, <1>8, <1>9 DEF L, t

\* dir lists length units' worth of FCBs at most, and two at least.
Listed(dir, length) ==
  \E m \in Nat : /\ DOMAIN dir = 0 .. m - 1 /\ m >= 2 /\ m * FCBSIZE <= length
                 /\ \A i \in 0 .. m - 1 : FcbOk(dir[i]) /\ (i + 1) * FCBSIZE <= length

LEMMA ListingFound ==
  ASSUME NEW h, DiscInv(h), NEW first \in Block, NEW length \in Nat, length >= 2 * FCBSIZE
  PROVE  /\ Listed(Listing(h, first, length), length)
         /\ first = Root => /\ Listing(h, first, length)[0] = h.block[Root][0][2]
                            /\ Listing(h, first, length)[1] = h.block[Root][FCBSIZE][2]
<1> DEFINE t == do_read(h, first, length)
           L == ReadLength(h, first, length)
           m == Len(t) \div FCBSIZE
           dir == Listing(h, first, length)
           f(u) == IF u[1] = "fcb" THEN u[2] ELSE NoFcb
<1>1. /\ L \in Nat /\ L >= 2 * FCBSIZE /\ L <= length /\ Len(t) = L
      /\ \A k \in 1 .. L : UnitOk(t[k])
      /\ first = Root => t[1] = h.block[Root][0] /\ t[FCBSIZE + 1] = h.block[Root][FCBSIZE]
  BY UnitsRead
<1>2. dir = [i \in 0 .. m - 1 |-> f(t[i * FCBSIZE + 1])]
  BY Zenon DEF Listing
<1> HIDE DEF dir, L, t
<1>3. FCBSIZE \in Nat /\ FCBSIZE > 0
  BY Sizes
<1>4. m \in Nat /\ m >= 2 /\ m * FCBSIZE <= L
      /\ \A i \in 0 .. m - 1 : (i + 1) * FCBSIZE <= L /\ i * FCBSIZE \in Nat
  BY <1>1, <1>3, Multiple
<1> HIDE DEF m
<1>5. ASSUME NEW i \in 0 .. m - 1 PROVE FcbOk(dir[i]) /\ (i + 1) * FCBSIZE <= length
  <2>1. i \in Nat /\ (i + 1) * FCBSIZE <= L /\ i * FCBSIZE \in Nat
    BY <1>4
  <2>2. (i + 1) * FCBSIZE = i * FCBSIZE + FCBSIZE
    BY <1>3, <2>1, Times
  <2>3. i * FCBSIZE + 1 \in 1 .. L
    BY <1>1, <1>3, <2>1, <2>2
  <2> DEFINE u == t[i * FCBSIZE + 1]
  <2>4. UnitOk(u)
    BY <1>1, <2>3
  <2> HIDE DEF u
  <2>5. FcbOk(f(u))
    BY <2>4, NoFcbOk DEF UnitOk
  <2>6. dir[i] = f(u)
    BY <1>2, Zenon DEF u
  <2>7. (i + 1) * FCBSIZE <= length
    BY <1>1, <1>3, <2>1, <2>2
  <2> QED
    BY <2>5, <2>6, <2>7
<1>6. DOMAIN dir = 0 .. m - 1
  BY <1>2
<1>7. m * FCBSIZE <= length
  <2>1. m * FCBSIZE \in Nat
    BY <1>3, <1>4, Times
  <2> QED
    BY <1>1, <1>4, <2>1
<1>8. Listed(dir, length)
  BY <1>4, <1>5, <1>6, <1>7 DEF Listed
<1>9. ASSUME first = Root
      PROVE  dir[0] = h.block[Root][0][2] /\ dir[1] = h.block[Root][FCBSIZE][2]
  <2>1. 0 \in 0 .. m - 1 /\ 1 \in 0 .. m - 1
    BY <1>4
  <2>2. 0 * FCBSIZE + 1 = 1 /\ 1 * FCBSIZE + 1 = FCBSIZE + 1
    BY <1>3
  <2>3. dir[0] = f(t[1]) /\ dir[1] = f(t[FCBSIZE + 1])
    <3>1. dir[0] = f(t[0 * FCBSIZE + 1]) /\ dir[1] = f(t[1 * FCBSIZE + 1])
      BY <1>2, <2>1
    <3> QED
      BY <2>2, <3>1
  <2>4. h.block[Root][0][1] = "fcb" /\ h.block[Root][FCBSIZE][1] = "fcb"
    BY DEF DiscInv, IsDot, IsDotDot
  <2> QED
    BY <1>1, <1>9, <2>3, <2>4
<1> QED
  BY <1>8, <1>9 DEF dir


-----------------------------------------------------------------------------
(* The table of open files.                                                *)

\* An open file's entry, and the table, after a write.
Entered(e, length) ==
  [fcb |-> [e.fcb EXCEPT !.length = length], diroff |-> e.diroff, father |-> e.father,
   fcbstate |-> TRUE, topenfile |-> e.topenfile]

Enter(o, fd, length) == [o EXCEPT ![fd] = Entered(o[fd], length)]

\* An entry made of its fields, and one with another fcbstate.
EntryWith(f, d, r, x, t) ==
  [fcb |-> f, diroff |-> d, father |-> r, fcbstate |-> x, topenfile |-> t]

SetState(e, x) == [e EXCEPT !.fcbstate = x]

LEMMA StateSet ==
  ASSUME NEW f, NEW d, NEW r, NEW x, NEW t, NEW y
  PROVE  SetState(EntryWith(f, d, r, x, t), y) = EntryWith(f, d, r, y, t)
BY DEF SetState, EntryWith

LEMMA EntryFields ==
  ASSUME NEW e \in OpenType, NEW length
  PROVE  [[e EXCEPT !.fcb.length = length] EXCEPT !.fcbstate = TRUE] = Entered(e, length)
<1>1. e = [fcb |-> e.fcb, diroff |-> e.diroff, father |-> e.father, fcbstate |-> e.fcbstate,
           topenfile |-> e.topenfile]
  BY DEF OpenType
<1> DEFINE g == [e.fcb EXCEPT !.length = length]
           e2 == [e EXCEPT !.fcb.length = length]
<1>2. e2 = [e EXCEPT !.fcb = g]
  OBVIOUS
<1> HIDE DEF g
<1>3. [e EXCEPT !.fcb = g] = EntryWith(g, e.diroff, e.father, e.fcbstate, e.topenfile)
  BY <1>1 DEF EntryWith
<1> HIDE DEF e2
<1>4. e2 = EntryWith(g, e.diroff, e.father, e.fcbstate, e.topenfile)
  BY <1>2, <1>3, Zenon
<1>5. SetState(e2, TRUE) = EntryWith(g, e.diroff, e.father, TRUE, e.topenfile)
  <2> DEFINE yes == TRUE
  <2> HIDE DEF yes
  <2>1. SetState(EntryWith(g, e.diroff, e.father, e.fcbstate, e.topenfile), yes)
        = EntryWith(g, e.diroff, e.father, yes, e.topenfile)
    BY StateSet
  <2>2. SetState(e2, yes) = EntryWith(g, e.diroff, e.father, yes, e.topenfile)
    BY <1>4, <2>1, Zenon
  <2> QED
    BY <2>2, Zenon DEF yes
<1>6. Entered(e, length) = EntryWith(g, e.diroff, e.father, TRUE, e.topenfile)
  BY Zenon DEF Entered, EntryWith, g
<1>7. [e2 EXCEPT !.fcbstate = TRUE] = Entered(e, length)
  BY <1>5, <1>6, Zenon DEF SetState
<1> QED
  BY <1>7 DEF e2

LEMMA WrittenFields ==
  ASSUME NEW s, StateFields(s), s.open \in [Fd -> OpenType], NEW fd \in Fd, NEW h, NEW length
  PROVE  WrittenState(s, fd, h, length)
         = [hard |-> h, open |-> Enter(s.open, fd, length), broken |-> s.broken]
<1> DEFINE o == s.open
           e == o[fd]
           e2 == [e EXCEPT !.fcb.length = length]
           e3 == [e2 EXCEPT !.fcbstate = TRUE]
           s1 == [hard |-> h, open |-> o, broken |-> s.broken]
           s2 == [hard |-> h, open |-> [o EXCEPT ![fd] = e2], broken |-> s.broken]
           s3 == [hard |-> h, open |-> [o EXCEPT ![fd] = e3], broken |-> s.broken]
<1>1. e3 = Entered(e, length)
  BY EntryFields
<1>2. [s EXCEPT !.hard = h] = s1
  BY DEF StateFields
<1>3. [s1 EXCEPT !.open[fd].fcb.length = length] = s2
  OBVIOUS
<1>4. [s2 EXCEPT !.open[fd].fcbstate = TRUE] = s3
  <2>1. [o EXCEPT ![fd] = e2][fd] = e2
    <3> HIDE DEF e2
    <3> QED
      OBVIOUS
  <2>2. [[o EXCEPT ![fd] = e2] EXCEPT ![fd] = e3] = [o EXCEPT ![fd] = e3]
    <3> HIDE DEF e2, e3
    <3> QED
      OBVIOUS
  <2> DEFINE o2 == [o EXCEPT ![fd] = e2]
             o3 == [o EXCEPT ![fd] = e3]
             oo == [o2 EXCEPT ![fd] = [o2[fd] EXCEPT !.fcbstate = TRUE]]
  <2>3. oo = o3
    BY <2>1, <2>2
  <2>4. [s2 EXCEPT !.open[fd].fcbstate = TRUE] = [s2 EXCEPT !.open = oo]
    OBVIOUS
  <2> HIDE DEF oo, o2, o3
  <2>5. s2 = [hard |-> h, open |-> o2, broken |-> s.broken]
        /\ s3 = [hard |-> h, open |-> o3, broken |-> s.broken]
    BY DEF o2, o3
  <2> QED
    BY <2>3, <2>4, <2>5
<1> HIDE DEF s1, s2, e3
<1>5. WrittenState(s, fd, h, length) = s3
  BY <1>2, <1>3, <1>4 DEF WrittenState
<1> QED
  BY <1>1, <1>5 DEF Enter


\* The table p is o but for what a write changes of an entry.
Alike(o, p) ==
  /\ p \in [Fd -> OpenType]
  /\ \A g \in Fd :
       /\ FcbOk(p[g].fcb)
       /\ p[g].fcb.filename = o[g].fcb.filename /\ p[g].fcb.first = o[g].fcb.first
       /\ p[g].fcb.directory = o[g].fcb.directory /\ p[g].fcb.length >= o[g].fcb.length
       /\ p[g].diroff = o[g].diroff /\ p[g].father = o[g].father
       /\ p[g].topenfile = o[g].topenfile

LEMMA Entries ==
  ASSUME NEW o \in [Fd -> OpenType], NEW g \in Fd
  PROVE  /\ o[g] \in OpenType /\ o[g].fcb \in FcbType /\ o[g].diroff \in Nat /\ o[g].father \in Fd
         /\ o[g].fcb.length \in Nat /\ o[g].fcb.first \in Block
         /\ o[g].fcb.directory \in BOOLEAN /\ o[g].topenfile \in BOOLEAN /\ o[g].fcbstate \in BOOLEAN
<1>1. o[g] \in OpenType
  OBVIOUS
<1> DEFINE e == o[g]
<1> HIDE DEF e
<1>2. e \in OpenType
  BY <1>1 DEF e
<1>3. /\ e.fcb \in FcbType /\ e.diroff \in Nat /\ e.father \in Fd
      /\ e.topenfile \in BOOLEAN /\ e.fcbstate \in BOOLEAN
  BY <1>2 DEF OpenType
<1> DEFINE f == e.fcb
<1> HIDE DEF f
<1>4. f.length \in Nat /\ f.first \in Block /\ f.directory \in BOOLEAN
  BY <1>3 DEF FcbType, f
<1> QED
  BY <1>1, <1>3, <1>4, Zenon DEF e, f

LEMMA Larger ==
  ASSUME NEW f, FcbOk(f), NEW length \in Nat, length >= f.length
  PROVE  FcbOk([f EXCEPT !.length = length])
<1> DEFINE g == [f EXCEPT !.length = length]
<1>1. f \in FcbType
  BY DEF FcbOk
<1>2. /\ g \in FcbType /\ g.filename = f.filename /\ g.directory = f.directory
      /\ g.first = f.first /\ g.length = length /\ g.free = f.free
  BY <1>1, FcbSized
<1>3. f.length \in Nat /\ 2 * FCBSIZE \in Nat
  <2>1. f.length \in Nat
    BY <1>1 DEF FcbType
  <2>2. 2 * FCBSIZE \in Nat
    BY Sizes
  <2> QED
    BY <2>1, <2>2
<1> HIDE DEF g
<1>4. g.filename \in Given => g.first >= FirstData
  BY <1>2, Zenon DEF FcbOk
<1>5. ASSUME g.filename # "", g.directory PROVE g.length >= 2 * FCBSIZE
  <2>1. f.length >= 2 * FCBSIZE
    BY <1>2, <1>5, Zenon DEF FcbOk
  <2> QED
    BY <1>2, <1>3, <2>1
<1>6. FcbOk(g)
  BY <1>2, <1>4, <1>5, Zenon DEF FcbOk
<1> QED
  BY <1>6 DEF g

LEMMA EnterAlike ==
  ASSUME NEW o \in [Fd -> OpenType], \A g \in Fd : FcbOk(o[g].fcb), NEW fd \in Fd,
         NEW length \in Nat, length >= o[fd].fcb.length
  PROVE  /\ Alike(o, Enter(o, fd, length))
         /\ \A g \in Fd : g # fd => Enter(o, fd, length)[g] = o[g]
         /\ Enter(o, fd, length)[fd].fcb.length = length
         /\ Enter(o, fd, length)[fd].fcbstate
<1> DEFINE p == Enter(o, fd, length)
           e == o[fd]
           f == [e.fcb EXCEPT !.length = length]
           d == Entered(e, length)
<1>1. p[fd] = d /\ \A g \in Fd : g # fd => p[g] = o[g]
  <2> HIDE DEF d
  <2>1. p = [o EXCEPT ![fd] = d]
    BY DEF d, Enter
  <2> HIDE DEF p
  <2> QED
    BY <2>1
<1>2. e \in OpenType /\ e.fcb \in FcbType /\ FcbOk(e.fcb) /\ e.fcb.length \in Nat
  BY Entries
<1>3. /\ f \in FcbType /\ f.filename = e.fcb.filename /\ f.directory = e.fcb.directory
      /\ f.first = e.fcb.first /\ f.length = length
  BY <1>2, FcbSized
<1>4. FcbOk(f)
  BY <1>2, Larger
<1>5. d = [fcb |-> f, diroff |-> e.diroff, father |-> e.father, fcbstate |-> TRUE,
           topenfile |-> e.topenfile]
  BY DEF Entered
<1> HIDE DEF f, d
<1>6. /\ d.fcb = f /\ d.diroff = e.diroff /\ d.father = e.father /\ d.fcbstate
      /\ d.topenfile = e.topenfile
  BY <1>5
<1>7. d \in OpenType
  BY <1>2, <1>3, <1>5 DEF OpenType
<1>8. p \in [Fd -> OpenType]
  <2>1. p = [o EXCEPT ![fd] = d]
    BY DEF d, Enter
  <2> HIDE DEF p
  <2> QED
    BY <1>7, <2>1
<1> HIDE DEF p
<1>9. ASSUME NEW g \in Fd
      PROVE  /\ FcbOk(p[g].fcb)
             /\ p[g].fcb.filename = o[g].fcb.filename /\ p[g].fcb.first = o[g].fcb.first
             /\ p[g].fcb.directory = o[g].fcb.directory /\ p[g].fcb.length >= o[g].fcb.length
             /\ p[g].diroff = o[g].diroff /\ p[g].father = o[g].father
             /\ p[g].topenfile = o[g].topenfile
  <2>1. CASE g = fd
    <3>1. p[g] = d /\ o[g] = e
      BY <1>1, <2>1
    <3> HIDE DEF e
    <3>2. length >= e.fcb.length
      BY DEF e
    <3> QED
      BY <1>3, <1>4, <1>6, <3>1, <3>2
  <2>2. CASE g # fd
    <3>1. p[g] = o[g] /\ o[g].fcb.length \in Nat
      BY <1>1, <2>2, Entries
    <3> QED
      BY <3>1
  <2> QED
    BY <2>1, <2>2
<1>10. Alike(o, p)
  BY <1>8, <1>9, Zenon DEF Alike
<1> QED
  BY <1>1, <1>3, <1>6, <1>10 DEF p

LEMMA AlikeOrdered ==
  ASSUME NEW o, NEW cur \in Fd, Ordered(o, cur), NEW p, Alike(o, p)
  PROVE  Ordered(p, cur)
<1>1. PICK r : Depths(o, cur, r)
  BY DEF Ordered
<1>2. \A g \in Fd : p[g].father = o[g].father /\ p[g].topenfile = o[g].topenfile
  BY DEF Alike
<1>3. Depths(p, cur, r)
  BY <1>1, <1>2 DEF Depths
<1> QED
  BY <1>2, <1>3, Places DEF Ordered

LEMMA AlikeKeeps ==
  ASSUME NEW o, NEW cur, TableInv(o, cur), NEW p, Alike(o, p)
  PROVE  TableInv(p, cur)
<1>1. o \in [Fd -> OpenType] /\ 0 \in Fd /\ cur \in Fd
  BY Places DEF TableInv
<1>2. p \in [Fd -> OpenType] /\ \A fd \in Fd : FcbOk(p[fd].fcb)
  BY DEF Alike
<1>3. p[0].topenfile /\ p[0].fcb.first = Root /\ p[0].fcb.directory /\ p[0].fcb.filename = "."
      /\ p[cur].topenfile
  BY <1>1 DEF TableInv, Alike
<1>4. ASSUME NEW fd \in Fd \ {0}, p[fd].topenfile
      PROVE  /\ p[fd].fcb.filename \in Given
             /\ p[p[fd].father].topenfile /\ p[fd].father /= cur
             /\ p[fd].father = 0 => InRoot(p, fd)
             /\ \A g \in Fd \ {0} : p[g].topenfile /\ p[g].father = p[fd].father => g = fd
  <2>1. o[fd].topenfile /\ o[fd].father \in Fd /\ p[fd].father = o[fd].father
    BY <1>1, <1>4, Entries DEF Alike
  <2>2. p[fd].fcb.filename \in Given /\ p[fd].father # cur
    BY <2>1 DEF TableInv, Alike
  <2>3. p[p[fd].father].topenfile
    BY <2>1 DEF TableInv, Alike
  <2>4. ASSUME p[fd].father = 0 PROVE InRoot(p, fd)
    <3>1. InRoot(o, fd)
      BY <2>1, <2>4 DEF TableInv
    <3>2. p[fd].diroff = o[fd].diroff /\ p[0].fcb.length >= o[0].fcb.length
      BY <1>1 DEF Alike
    <3>3. o[fd].diroff \in Nat /\ p[0].fcb.length \in Nat /\ o[0].fcb.length \in Nat
      BY <1>1, <1>2, Entries
    <3>4. (o[fd].diroff + 1) * FCBSIZE \in Nat
      BY <3>3, Sizes, Times
    <3> QED
      BY <3>1, <3>2, <3>3, <3>4 DEF InRoot
  <2>5. ASSUME NEW g \in Fd \ {0}, p[g].topenfile, p[g].father = p[fd].father PROVE g = fd
    <3>1. o[g].topenfile /\ o[g].father = o[fd].father
      BY <2>1, <2>5 DEF Alike
    <3> QED
      BY <2>1, <3>1 DEF TableInv
  <2> QED
    BY <2>2, <2>3, <2>4, <2>5
<1>5. Ordered(p, cur)
  BY <1>1, AlikeOrdered DEF TableInv
<1> QED
  BY <1>1, <1>2, <1>3, <1>4, <1>5 DEF TableInv


LEMMA OpenFirst ==
  ASSUME NEW o, NEW cur, TableInv(o, cur), NEW fd \in Fd, o[fd].topenfile
  PROVE  o[fd].fcb.first \in Block /\ (o[fd].fcb.first = Root <=> fd = 0)
<1>1. o \in [Fd -> OpenType] /\ FcbOk(o[fd].fcb)
  BY DEF TableInv
<1>2. o[fd].fcb.first \in Block
  BY <1>1, Entries
<1>3. CASE fd = 0
  BY <1>2, <1>3 DEF TableInv
<1>4. CASE fd # 0
  <2>1. o[fd].fcb.filename \in Given
    BY <1>4 DEF TableInv
  <2>2. o[fd].fcb.first >= FirstData
    BY <1>1, <2>1 DEF FcbOk
  <2> QED
    BY <1>2, <1>4, <2>2, Sizes DEF Block
<1> QED
  BY <1>3, <1>4

-----------------------------------------------------------------------------
(* do_write() on what a command works on.                                  *)

Sound(s, cur) ==
  StateFields(s) /\ (s.broken = "no" => DiscInv(s.hard) /\ TableInv(s.open, cur))

LEMMA Broke ==
  ASSUME NEW s, StateFields(s), NEW why
  PROVE  /\ StateFields(Break(s, why)) /\ Break(s, why).broken = why
         /\ Break(s, why).hard = s.hard /\ Break(s, why).open = s.open
<1> DEFINE t == Break(s, why)
<1>1. t = [hard |-> s.hard, open |-> s.open, broken |-> why]
  BY DEF Break, StateFields
<1> HIDE DEF t
<1>2. t.hard = s.hard /\ t.open = s.open /\ t.broken = why
  BY <1>1
<1>3. StateFields(t)
  BY <1>1, <1>2 DEF StateFields
<1> QED
  BY <1>2, <1>3 DEF t

\* do_write() leaves a broken state broken.
LEMMA StaysBroken ==
  ASSUME NEW s, StateFields(s), NEW fd, NEW count, NEW units
  PROVE  /\ StateFields(do_write(s, fd, count, units))
         /\ do_write(s, fd, count, units).broken = "no" => s.broken = "no"
<1> DEFINE t == do_write(s, fd, count, units)
<1>1. ASSUME NEW h, NEW length
      PROVE  /\ StateFields(WrittenState(s, fd, h, length))
             /\ WrittenState(s, fd, h, length).broken = s.broken
  <2> DEFINE s1 == [hard |-> h, open |-> s.open, broken |-> s.broken]
             o2 == [s.open EXCEPT ![fd].fcb.length = length]
             s2 == [hard |-> h, open |-> o2, broken |-> s.broken]
             o3 == [o2 EXCEPT ![fd].fcbstate = TRUE]
             s3 == [hard |-> h, open |-> o3, broken |-> s.broken]
  <2>1. [s EXCEPT !.hard = h] = s1
    BY DEF StateFields
  <2>2. [s1 EXCEPT !.open[fd].fcb.length = length] = s2
    OBVIOUS
  <2>3. [s2 EXCEPT !.open[fd].fcbstate = TRUE] = s3
    <3>1. [s2 EXCEPT !.open[fd].fcbstate = TRUE] = [s2 EXCEPT !.open = o3]
      OBVIOUS
    <3> HIDE DEF o2, o3
    <3> QED
      BY <3>1
  <2> HIDE DEF s1, s2, s3
  <2>4. WrittenState(s, fd, h, length) = s3
    BY <2>1, <2>2, <2>3 DEF WrittenState
  <2> HIDE DEF o3
  <2>5. StateFields(s3) /\ s3.broken = s.broken
    BY DEF s3, StateFields
  <2> QED
    BY <2>4, <2>5
<1> DEFINE why == "disc full"
<1>2. why # "no"
  OBVIOUS
<1> HIDE DEF t, why
<1>3. CASE t = Break(s, why)
  <2>1. StateFields(Break(s, why)) /\ Break(s, why).broken = why
    BY Broke
  <2>2. StateFields(t) /\ t.broken # "no"
    BY <1>2, <1>3, <2>1
  <2> QED
    BY <2>2 DEF t
<1>4. CASE t # Break(s, why)
  <2>1. \E h, length : t = WrittenState(s, fd, h, length)
    BY <1>4, WriteSteps, Zenon DEF t, why
  <2> QED
    BY <1>1, <2>1 DEF t
<1> QED
  BY <1>3, <1>4

\* What a write to fd does that did not fail.
Wrote(s, t, fd, count, units) ==
  /\ Alike(s.open, t.open)
  /\ \A g \in Fd : g # fd => t.open[g] = s.open[g]
  /\ t.open[fd].fcb.length = NewLength(s.open[fd].fcb.length, count + Len(units))
  /\ t.open[fd].fcbstate
  /\ t.hard.block[Root][0] = IF fd = 0 /\ count = 0 THEN units[1] ELSE s.hard.block[Root][0]

\* The root's own two entries keep their places.
KeepsRoot(fd, count, units) ==
  fd = 0 => count >= 2 * FCBSIZE \/ (count = 0 /\ Len(units) = FCBSIZE /\ IsDot(units[1]))

LEMMA WriteTo ==
  ASSUME NEW s, NEW cur, Sound(s, cur), s.broken = "no",
         NEW fd \in Fd, s.open[fd].topenfile, NEW count \in Nat, NEW units, Writable(units),
         KeepsRoot(fd, count, units)
  PROVE  LET t == do_write(s, fd, count, units)
         IN  Sound(t, cur) /\ (t.broken = "no" => Wrote(s, t, fd, count, units))
<1> DEFINE t == do_write(s, fd, count, units)
           o == s.open
           first == o[fd].fcb.first
           end == count + Len(units)
           length == NewLength(o[fd].fcb.length, end)
           w == Written(s.hard, first, count, units)
           p == Enter(o, fd, length)
<1>1. StateFields(s) /\ DiscInv(s.hard) /\ TableInv(o, cur)
  BY DEF Sound
<1>2. StateFields(t)
  BY <1>1, StaysBroken
<1>3. CASE t.broken # "no"
  BY <1>2, <1>3 DEF Sound
<1>4. CASE t.broken = "no"
  <2>1. o \in [Fd -> OpenType] /\ \A g \in Fd : FcbOk(o[g].fcb)
    BY <1>1 DEF TableInv
  <2>2. t = WrittenState(s, fd, w, length)
    <3>1. t = Break(s, "disc full") => t.broken = "disc full"
      <4> HIDE DEF t
      <4>1. Break(s, "disc full").broken = "disc full"
        BY <1>1, Broke
      <4> QED
        BY <4>1
    <3>2. "disc full" # "no"
      OBVIOUS
    <3>3. t # Break(s, "disc full")
      BY <1>4, <3>1, <3>2
    <3> QED
      BY <3>3, WriteSteps, Zenon
  <2>3. t = [hard |-> w, open |-> p, broken |-> s.broken]
    <3>1. WrittenState(s, fd, w, length) = [hard |-> w, open |-> p, broken |-> s.broken]
      BY <1>1, <2>1, WrittenFields
    <3> QED
      BY <2>2, <3>1
  <2> HIDE DEF t, w, p
  <2>4. t.hard = w /\ t.open = p
    BY <2>3
  <2>5. first \in Block /\ (first = Root <=> fd = 0)
    BY <1>1, OpenFirst
  <2>6. /\ FatsOf(w, w) /\ WrittenUnits(w, s.hard, count, units)
        /\ WrittenRoot(w, s.hard, first, count, units)
    BY <1>1, <2>5, WrittenDisc DEF w
  <2>7. Len(units) \in Nat /\ Len(units) >= 1 /\ \A k \in 1 .. Len(units) : UnitOk(units[k])
    BY WritableUnits
  <2>8. length \in Nat /\ length >= o[fd].fcb.length
    <3>1. o[fd].fcb.length \in Nat /\ end \in Nat
      BY <2>1, <2>7, Entries
    <3> DEFINE a == o[fd].fcb.length
    <3> HIDE DEF a, end
    <3>2. Max({a, end}) = IF a > end THEN a ELSE end
      BY <3>1, Max2 DEF a
    <3>3. length = Max({a, end})
      BY DEF NewLength, a
    <3> HIDE DEF length
    <3> QED
      BY <3>1, <3>2, <3>3 DEF a
  <2> HIDE DEF length
  <2>9. /\ Alike(o, p) /\ \A g \in Fd : g # fd => p[g] = o[g]
        /\ p[fd].fcb.length = length /\ p[fd].fcbstate
    BY <2>1, <2>8, EnterAlike DEF p
  <2>10. TableInv(p, cur)
    BY <1>1, <2>9, AlikeKeeps
  <2>11. UnitsOk(w)
    <3> SUFFICES ASSUME NEW b \in Block, NEW j \in Unit PROVE UnitOk(w.block[b][j])
      BY DEF UnitsOk
    <3>1. UnitOk(s.hard.block[b][j])
      BY <1>1 DEF DiscInv, UnitsOk
    <3>2. w.block[b][j] = s.hard.block[b][j] \/ \E k \in 1 .. Len(units) : w.block[b][j] = units[k]
      BY <2>6 DEF WrittenUnits
    <3> QED
      BY <2>7, <3>1, <3>2
  <2>12. /\ \A j \in Unit : w.block[Root][j] =
              IF fd = 0 /\ j \in count .. end - 1 THEN units[j - count + 1] ELSE s.hard.block[Root][j]
    BY <2>5, <2>6 DEF WrittenRoot
  <2>13. FCBSIZE \in Nat /\ FCBSIZE > 0 /\ 0 \in Unit /\ FCBSIZE \in Unit
    BY Sizes, Places
  <2>14. w.block[Root][0] = IF fd = 0 /\ count = 0 THEN units[1] ELSE s.hard.block[Root][0]
    <3>1. 0 \in count .. end - 1 <=> count = 0
      BY <2>7
    <3>2. count = 0 => 0 - count + 1 = 1
      OBVIOUS
    <3> QED
      BY <2>12, <2>13, <3>1, <3>2
  <2>15. w.block[Root][FCBSIZE] = s.hard.block[Root][FCBSIZE]
    <3>1. CASE fd # 0
      BY <2>12, <2>13, <3>1
    <3>2. CASE fd = 0
      <4>1. count >= 2 * FCBSIZE \/ (count = 0 /\ Len(units) = FCBSIZE)
        BY <3>2 DEF KeepsRoot
      <4>2. FCBSIZE \notin count .. end - 1
        BY <2>7, <2>13, <4>1
      <4> QED
        BY <2>12, <2>13, <4>2
    <3> QED
      BY <3>1, <3>2
  <2>16. IsDot(w.block[Root][0]) /\ IsDotDot(w.block[Root][FCBSIZE])
    <3>1. IsDot(s.hard.block[Root][0]) /\ IsDotDot(s.hard.block[Root][FCBSIZE])
      BY <1>1 DEF DiscInv
    <3>2. CASE fd = 0 /\ count = 0
      <4>1. IsDot(units[1])
        BY <2>13, <3>2 DEF KeepsRoot
      <4> QED
        BY <2>14, <2>15, <3>1, <3>2, <4>1
    <3>3. CASE ~(fd = 0 /\ count = 0)
      BY <2>14, <2>15, <3>1, <3>3
    <3> QED
      BY <3>2, <3>3
  <2>17. DiscInv(w)
    BY <2>6, <2>11, <2>16 DEF DiscInv
  <2>18. Wrote(s, t, fd, count, units)
    BY <2>4, <2>9, <2>14 DEF Wrote, length
  <2>19. Sound(t, cur)
    BY <1>2, <2>4, <2>10, <2>17 DEF Sound, t
  <2> QED
    BY <2>18, <2>19 DEF t
<1> QED
  BY <1>3, <1>4


-----------------------------------------------------------------------------
(* The entries of directories.                                             *)

LEMMA FcbUnits ==
  ASSUME NEW fcb, FcbOk(fcb)
  PROVE  /\ Writable(Units(fcb)) /\ Len(Units(fcb)) = FCBSIZE
         /\ Units(fcb)[1] = <<"fcb", fcb, 1>>
<1> DEFINE u(k) == <<"fcb", fcb, k>>
           U == {u(k) : k \in 1 .. FCBSIZE}
<1>1. FCBSIZE \in Nat /\ 1 \in 1 .. FCBSIZE
  BY Sizes
<1>2. \A x \in U : UnitOk(x)
  BY DEF UnitOk
<1> HIDE DEF u
<1>3. Units(fcb) = [k \in 1 .. FCBSIZE |-> u(k)]
  BY Zenon DEF Units, u
<1>4. Len(Units(fcb)) = FCBSIZE /\ Units(fcb)[1] = u(1)
  BY <1>1, <1>3
<1>5. Units(fcb) \in [1 .. FCBSIZE -> U]
  BY <1>3
<1> HIDE DEF U
<1>6. Units(fcb) \in Seq(U)
  BY <1>1, <1>5, SeqDef
<1>7. Units(fcb) # <<>>
  <2>1. Units(fcb) = <<>> => Len(Units(fcb)) = 0
    OBVIOUS
  <2> QED
    BY <1>4, <2>1, Sizes
<1> QED
  BY <1>2, <1>4, <1>6, <1>7 DEF Writable, u

\* What is written to an entry of fd's directory.
FcbWrote(s, t, fd, slot) ==
  /\ Alike(s.open, t.open)
  /\ \A g \in Fd : g # fd => t.open[g] = s.open[g]
  /\ /\ fd # 0 \/ (slot + 1) * FCBSIZE <= s.open[0].fcb.length
     /\ Synced(s.hard, s.open)
     => Synced(t.hard, t.open)

LEMMA WriteFcbTo ==
  ASSUME NEW s, NEW cur, Sound(s, cur), s.broken = "no", NEW fd \in Fd, s.open[fd].topenfile,
         NEW slot \in Nat, fd = 0 => slot >= 2, NEW fcb, FcbOk(fcb)
  PROVE  LET t == WriteFcb(s, fd, slot, fcb)
         IN  Sound(t, cur) /\ (t.broken = "no" => FcbWrote(s, t, fd, slot))
<1> DEFINE t == WriteFcb(s, fd, slot, fcb)
           count == slot * FCBSIZE
           units == Units(fcb)
<1>1. FCBSIZE \in Nat /\ FCBSIZE > 0
  BY Sizes
<1>2. /\ count \in Nat /\ (slot + 1) * FCBSIZE = count + FCBSIZE
      /\ 2 <= slot => 2 * FCBSIZE <= count
  BY <1>1, Times
<1>3. Writable(units) /\ Len(units) = FCBSIZE
  BY FcbUnits
<1>4. t = do_write(s, fd, count, units)
  BY DEF WriteFcb
<1> HIDE DEF t, count, units
<1>5. KeepsRoot(fd, count, units)
  BY <1>1, <1>2 DEF KeepsRoot
<1>6. Sound(t, cur) /\ (t.broken = "no" => Wrote(s, t, fd, count, units))
  BY <1>2, <1>3, <1>4, <1>5, WriteTo
<1>7. ASSUME t.broken = "no" PROVE FcbWrote(s, t, fd, slot)
  <2>1. Wrote(s, t, fd, count, units)
    BY <1>6, <1>7
  <2>2. t.hard.block[Root][0] = s.hard.block[Root][0]
    BY <1>1, <1>2, <2>1 DEF Wrote
  <2>3. ASSUME fd # 0 \/ (slot + 1) * FCBSIZE <= s.open[0].fcb.length
        PROVE  t.open[0].fcb.length = s.open[0].fcb.length
    <3>1. CASE fd # 0
      BY <2>1, <3>1, Places DEF Wrote
    <3>2. CASE fd = 0
      <4> DEFINE a == s.open[0].fcb.length
                 b == count + Len(units)
      <4>1. a \in Nat /\ b \in Nat /\ b <= a
        <5>1. s.open \in [Fd -> OpenType]
          BY DEF Sound, TableInv
        <5>2. a \in Nat
          BY <5>1, Entries, Places
        <5> QED
          BY <1>1, <1>2, <1>3, <2>3, <3>2, <5>2
      <4>2. t.open[0].fcb.length = NewLength(a, b)
        BY <2>1, <3>2 DEF Wrote
      <4> HIDE DEF a, b
      <4>3. Max({a, b}) = IF a > b THEN a ELSE b
        BY <4>1, Max2
      <4>4. NewLength(a, b) = a
        BY <4>1, <4>3 DEF NewLength
      <4> QED
        BY <4>2, <4>4 DEF a
    <3> QED
      BY <3>1, <3>2
  <2> QED
    BY <2>1, <2>2, <2>3 DEF FcbWrote, Wrote, Synced
<1> QED
  BY <1>6, <1>7 DEF t

LEMMA WriteDotTo ==
  ASSUME NEW s, NEW cur, Sound(s, cur), s.broken = "no",
         NEW dot, FcbOk(dot), cur = 0 => IsDot(<<"fcb", dot, 1>>),
         s.open[cur].fcb.length >= 2 * FCBSIZE
  PROVE  LET t == WriteDot(s, cur, dot)
         IN  /\ Sound(t, cur)
             /\ t.broken = "no" /\ (cur # 0 => Synced(s.hard, s.open)) => Synced(t.hard, t.open)
<1> DEFINE t == WriteDot(s, cur, dot)
           a == s.open[cur].fcb.length
           fcb == [dot EXCEPT !.length = a]
           units == Units(fcb)
<1>1. FCBSIZE \in Nat /\ FCBSIZE > 0
  BY Sizes
<1>2. /\ TableInv(s.open, cur) /\ cur \in Fd /\ s.open[cur].topenfile
      /\ s.open \in [Fd -> OpenType]
  BY DEF Sound, TableInv
<1>3. a \in Nat
  BY <1>2, Entries
<1>4. /\ fcb \in FcbType /\ fcb.filename = dot.filename /\ fcb.directory = dot.directory
      /\ fcb.first = dot.first /\ fcb.free = dot.free /\ fcb.length = a
  <2>1. dot \in FcbType
    BY DEF FcbOk
  <2> QED
    BY <1>3, <2>1, FcbSized
<1> HIDE DEF fcb
<1>5. FcbOk(fcb)
  BY <1>4 DEF FcbOk
<1>6. /\ Writable(units) /\ Len(units) = FCBSIZE
      /\ units[1] = <<"fcb", fcb, 1>>
  BY <1>5, FcbUnits
<1>7. t = do_write(s, cur, 0, units)
  <2>1. t = do_write(s, cur, 0 * FCBSIZE, units)
    BY DEF WriteDot, WriteFcb, fcb
  <2>2. 0 * FCBSIZE = 0
    BY <1>1
  <2> HIDE DEF t
  <2> QED
    BY <2>1, <2>2
<1> HIDE DEF t, units, a
<1>8. KeepsRoot(cur, 0, units)
  <2>1. ASSUME cur = 0 PROVE IsDot(units[1])
    <3>1. IsDot(<<"fcb", dot, 1>>)
      BY <2>1
    <3> QED
      BY <1>4, <1>6, <3>1 DEF IsDot
  <2> QED
    BY <1>6, <2>1 DEF KeepsRoot
<1>9. Sound(t, cur) /\ (t.broken = "no" => Wrote(s, t, cur, 0, units))
  <2>1. 0 \in Nat
    OBVIOUS
  <2> QED
    BY <1>2, <1>6, <1>7, <1>8, <2>1, WriteTo
<1>10. ASSUME t.broken = "no", cur # 0 => Synced(s.hard, s.open) PROVE Synced(t.hard, t.open)
  <2>1. Wrote(s, t, cur, 0, units)
    BY <1>9, <1>10
  <2>2. CASE cur # 0
    BY <1>10, <2>1, <2>2, Places DEF Wrote, Synced
  <2>3. CASE cur = 0
    <3>1. t.hard.block[Root][0][2] = fcb
      BY <1>6, <2>1, <2>3 DEF Wrote
    <3>2. t.open[0].fcb.length = NewLength(a, 0 + FCBSIZE)
      BY <1>6, <2>1, <2>3 DEF Wrote, a
    <3>3. Max({a, 0 + FCBSIZE}) = IF a > 0 + FCBSIZE THEN a ELSE 0 + FCBSIZE
      BY <1>1, <1>3, Max2
    <3>4. NewLength(a, 0 + FCBSIZE) = a
      BY <1>1, <1>3, <3>3 DEF NewLength, a
    <3> QED
      BY <1>4, <3>1, <3>2, <3>4 DEF Synced
  <2> QED
    BY <2>2, <2>3
<1> QED
  BY <1>9, <1>10 DEF t

\* The root directory's first two entries.
RootDir(dir) ==
  /\ IsDot(<<"fcb", dir[0], 1>>)
  /\ dir[1].filename = ".." /\ dir[1].free = 1

LEMMA DirLength ==
  ASSUME NEW o, NEW cur, TableInv(o, cur), NEW fd \in Fd, o[fd].topenfile, o[fd].fcb.directory
  PROVE  o[fd].fcb.length \in Nat /\ o[fd].fcb.length >= 2 * FCBSIZE
<1>1. o \in [Fd -> OpenType] /\ FcbOk(o[fd].fcb)
  BY DEF TableInv
<1>2. o[fd].fcb.length \in Nat
  BY <1>1, Entries
<1>3. o[fd].fcb.filename # ""
  <2>1. fd # 0 => o[fd].fcb.filename \in Given
    BY DEF TableInv
  <2>2. fd = 0 => o[fd].fcb.filename = "."
    BY DEF TableInv
  <2>3. "." # ""
    OBVIOUS
  <2> QED
    BY <2>1, <2>2, <2>3, Names
<1> QED
  BY <1>1, <1>2, <1>3 DEF FcbOk

LEMMA DirFound ==
  ASSUME NEW s, NEW cur, Sound(s, cur), s.broken = "no", NEW fd \in Fd, s.open[fd].topenfile,
         s.open[fd].fcb.directory
  PROVE  /\ Listed(Dir(s, fd), s.open[fd].fcb.length)
         /\ fd = 0 => RootDir(Dir(s, fd))
<1> DEFINE f == s.open[fd].fcb
           dir == Listing(s.hard, f.first, f.length)
<1>1. DiscInv(s.hard) /\ TableInv(s.open, cur)
  BY DEF Sound
<1>2. f.length \in Nat /\ f.length >= 2 * FCBSIZE
  BY <1>1, DirLength
<1>3. f.first \in Block /\ (f.first = Root <=> fd = 0)
  BY <1>1, OpenFirst
<1>4. Dir(s, fd) = dir
  BY DEF Dir
<1> HIDE DEF f
<1>5. /\ Listed(dir, f.length)
      /\ f.first = Root => dir[0] = s.hard.block[Root][0][2] /\ dir[1] = s.hard.block[Root][FCBSIZE][2]
  BY <1>1, <1>2, <1>3, ListingFound
<1> HIDE DEF dir
<1>6. ASSUME fd = 0 PROVE RootDir(dir)
  <2>1. dir[0] = s.hard.block[Root][0][2] /\ dir[1] = s.hard.block[Root][FCBSIZE][2]
    BY <1>3, <1>5, <1>6
  <2>2. IsDot(s.hard.block[Root][0]) /\ IsDotDot(s.hard.block[Root][FCBSIZE])
    BY <1>1 DEF DiscInv
  <2> QED
    BY <2>1, <2>2 DEF RootDir, IsDot, IsDotDot
<1> QED
  BY <1>4, <1>5, <1>6 DEF f

LEMMA MatchFound ==
  ASSUME NEW dir, NEW length, Listed(dir, length), NEW name, NEW ex, Matches(dir, name, ex) # {}
  PROVE  LET i == Min(Matches(dir, name, ex))
         IN  /\ i \in Nat /\ FcbOk(dir[i]) /\ dir[i].filename = name
             /\ (i + 1) * FCBSIZE <= length
             /\ RootDir(dir) /\ name \in Given => i >= 2
<1> DEFINE i == Min(Matches(dir, name, ex))
<1>1. PICK m \in Nat : /\ DOMAIN dir = 0 .. m - 1 /\ m >= 2
                       /\ \A k \in 0 .. m - 1 : FcbOk(dir[k]) /\ (k + 1) * FCBSIZE <= length
  BY DEF Listed
<1>2. Matches(dir, name, ex) \subseteq Nat
  BY <1>1 DEF Matches
<1>3. i \in Matches(dir, name, ex)
  BY <1>2, MinFound
<1> HIDE DEF i
<1>4. i \in 0 .. m - 1 /\ dir[i].filename = name
  BY <1>1, <1>3 DEF Matches
<1>5. RootDir(dir) /\ name \in Given => i >= 2
  <2>1. RootDir(dir) => dir[0].filename = "." /\ dir[1].filename = ".."
    BY DEF RootDir, IsDot
  <2>2. RootDir(dir) /\ name \in Given => i # 0 /\ i # 1
    BY <1>4, <2>1, Names
  <2> QED
    BY <1>1, <1>4, <2>2
<1> QED
  BY <1>1, <1>4, <1>5 DEF i

LEMMA SlotFound ==
  ASSUME NEW dir, NEW length, Listed(dir, length)
  PROVE  FreeSlot(dir) \in Nat /\ (RootDir(dir) => FreeSlot(dir) >= 2)
<1>1. PICK m \in Nat : DOMAIN dir = 0 .. m - 1 /\ m >= 2
  BY DEF Listed
<1>2. Cardinality(DOMAIN dir) = m
  <2>1. Cardinality(0 .. m - 1) = IF 0 > m - 1 THEN 0 ELSE (m - 1) - 0 + 1
    BY <1>1, FS_Interval
  <2>2. Cardinality(0 .. m - 1) = m
    BY <1>1, <2>1
  <2> QED
    BY <1>1, <2>2
<1> DEFINE S == {i \in DOMAIN dir : dir[i].free = 0} \union {Cardinality(DOMAIN dir)}
<1>3. S \subseteq Nat /\ S # {}
  BY <1>1, <1>2
<1>4. FreeSlot(dir) = Min(S)
  BY DEF FreeSlot
<1>5. Min(S) \in S
  BY <1>3, MinFound
<1>6. ASSUME RootDir(dir) PROVE 0 \notin S /\ 1 \notin S
  <2>1. dir[0].free = 1 /\ dir[1].free = 1
    BY <1>6 DEF RootDir, IsDot
  <2> QED
    BY <1>1, <1>2, <2>1
<1> DEFINE x == Min(S)
<1> HIDE DEF S, x
<1>7. RootDir(dir) => Min(S) >= 2
  <2>1. x \in S /\ x \in Nat
    BY <1>3, <1>5 DEF x
  <2>2. RootDir(dir) => x # 0 /\ x # 1
    BY <1>6, <2>1
  <2> QED
    BY <2>1, <2>2 DEF x
<1> QED
  BY <1>3, <1>4, <1>5, <1>7


-----------------------------------------------------------------------------
(* Closing.                                                                *)

LEMMA ClosedOk == Closed \in OpenType /\ FcbOk(Closed.fcb) /\ ~Closed.topenfile
<1>1. Closed.fcb = NoFcb /\ ~Closed.topenfile
  BY DEF Closed
<1>2. NoFcb \in FcbType
  BY NoFcbOk DEF FcbOk
<1>3. Closed \in OpenType
  BY <1>2, Places DEF Closed, OpenType
<1> QED
  BY <1>1, <1>3, NoFcbOk

LEMMA CloseOrdered ==
  ASSUME NEW o, NEW fd \in Fd \ {0}, Ordered(o, fd), o[fd].topenfile, NEW p,
         o[fd].father \in Fd, o[o[fd].father].topenfile,
         p[fd] = Closed, \A g \in Fd : g # fd => p[g] = o[g]
  PROVE  Ordered(p, o[fd].father)
<1> DEFINE up == o[fd].father
<1>1. PICK r : Depths(o, fd, r)
  BY DEF Ordered
<1>2. r \in [Fd -> Nat] /\ r[0] = 0 /\ r[fd] \in Nat /\ r[up] \in Nat /\ r[fd] = r[up] + 1
  BY <1>1 DEF Depths
<1>3. \A g \in Fd : p[g].topenfile => g # fd /\ p[g] = o[g] /\ o[g].topenfile
  BY ClosedOk
<1>4. ASSUME NEW g \in Fd, p[g].topenfile PROVE r[g] <= r[up]
  <2>1. r[g] <= r[fd] /\ r[g] # r[fd] /\ r[g] \in Nat
    BY <1>1, <1>2, <1>3, <1>4 DEF Depths
  <2> QED
    BY <1>2, <2>1
<1>5. \A g \in Fd \ {0} : p[g].topenfile => r[g] = r[p[g].father] + 1
  BY <1>1, <1>3 DEF Depths
<1>6. \A g, k \in Fd : p[g].topenfile /\ p[k].topenfile /\ r[g] = r[k] => g = k
  BY <1>1, <1>3 DEF Depths
<1>7. Depths(p, up, r)
  BY <1>2, <1>4, <1>5, <1>6 DEF Depths
<1>8. p[0].father = 0
  BY Places DEF Ordered
<1> QED
  BY <1>7, <1>8 DEF Ordered

LEMMA CloseKeeps ==
  ASSUME NEW o, NEW fd, fd # 0, TableInv(o, fd)
  PROVE  /\ o[fd].father \in Fd /\ o[fd].father # fd
         /\ TableInv([o EXCEPT ![fd] = Closed], o[fd].father)
<1> DEFINE p == [o EXCEPT ![fd] = Closed]
           up == o[fd].father
<1>1. o \in [Fd -> OpenType] /\ fd \in Fd \ {0} /\ o[fd].topenfile /\ 0 \in Fd
  BY Places DEF TableInv
<1>2. up \in Fd /\ up # fd /\ o[up].topenfile
  BY <1>1, Entries DEF TableInv
<1>3. p \in [Fd -> OpenType] /\ p[fd] = Closed /\ \A g \in Fd : g # fd => p[g] = o[g]
  BY <1>1, ClosedOk
<1> HIDE DEF p, up
<1>4. \A g \in Fd : FcbOk(p[g].fcb)
  BY <1>3, ClosedOk DEF TableInv
<1>5. p[0] = o[0] /\ p[up].topenfile
  BY <1>1, <1>2, <1>3
<1>6. ASSUME NEW g \in Fd \ {0}, p[g].topenfile
      PROVE  /\ p[g].fcb.filename \in Given
             /\ p[p[g].father].topenfile /\ p[g].father /= up
             /\ p[g].father = 0 => InRoot(p, g)
             /\ \A k \in Fd \ {0} : p[k].topenfile /\ p[k].father = p[g].father => k = g
  <2>1. g # fd /\ p[g] = o[g] /\ o[g].topenfile
    BY <1>3, <1>6, ClosedOk
  <2>2. o[g].father \in Fd /\ o[g].father # fd /\ o[o[g].father].topenfile
    BY <1>1, <2>1, Entries DEF TableInv
  <2>3. p[g].fcb.filename \in Given /\ p[p[g].father].topenfile
    BY <1>3, <2>1, <2>2 DEF TableInv
  <2>4. p[g].father # up
    BY <1>1, <2>1 DEF TableInv, up
  <2>5. p[g].father = 0 => InRoot(p, g)
    <3>1. o[g].father = 0 => InRoot(o, g)
      BY <2>1 DEF TableInv
    <3> QED
      BY <1>5, <2>1, <3>1 DEF InRoot
  <2>6. ASSUME NEW k \in Fd \ {0}, p[k].topenfile, p[k].father = p[g].father PROVE k = g
    <3>1. k # fd /\ p[k] = o[k]
      BY <1>3, <2>6, ClosedOk
    <3> QED
      BY <2>1, <2>6, <3>1 DEF TableInv
  <2> QED
    BY <2>3, <2>4, <2>5, <2>6
<1>7. TableInv(p, up)
  <2>1. p[0].topenfile /\ p[0].fcb.first = Root /\ p[0].fcb.directory /\ p[0].fcb.filename = "."
    BY <1>5 DEF TableInv
  <2>2. Ordered(p, up)
    BY <1>1, <1>2, <1>3, CloseOrdered DEF TableInv, up
  <2> QED
    BY <1>2, <1>3, <1>4, <1>5, <1>6, <2>1, <2>2 DEF TableInv
<1> QED
  BY <1>2, <1>7 DEF p, up

\* The state that Release() closes fd in.
WrittenBack(s, fd) ==
  IF s.open[fd].fcbstate
  THEN WriteFcb(s, s.open[fd].father, s.open[fd].diroff, s.open[fd].fcb) ELSE s

LEMMA ReleaseFields ==
  ASSUME NEW s, NEW fd, StateFields(WrittenBack(s, fd))
  PROVE  LET t == WrittenBack(s, fd)
             r == Release(s, fd)
         IN  /\ StateFields(r) /\ r.hard = t.hard /\ r.broken = t.broken
             /\ r.open = [t.open EXCEPT ![fd] = Closed]
<1> DEFINE t == WrittenBack(s, fd)
           r == Release(s, fd)
           p == [t.open EXCEPT ![fd] = Closed]
<1>1. r = [t EXCEPT !.open[fd] = Closed]
  BY DEF Release, WrittenBack
<1> HIDE DEF t, r
<1>2. [t EXCEPT !.open[fd] = Closed] = [t EXCEPT !.open = p]
  OBVIOUS
<1> HIDE DEF p
<1>3. t = [hard |-> t.hard, open |-> t.open, broken |-> t.broken]
  BY DEF StateFields, t
<1>4. r = [hard |-> t.hard, open |-> p, broken |-> t.broken]
  BY <1>1, <1>2, <1>3
<1>5. r.hard = t.hard /\ r.broken = t.broken /\ r.open = p
  BY <1>4
<1>6. StateFields(r)
  BY <1>4, <1>5 DEF StateFields
<1> QED
  BY <1>5, <1>6 DEF t, r, p

LEMMA ReleaseBroken ==
  ASSUME NEW s, StateFields(s), NEW fd
  PROVE  StateFields(Release(s, fd)) /\ (Release(s, fd).broken = "no" => s.broken = "no")
<1> DEFINE t == WrittenBack(s, fd)
<1>1. StateFields(t) /\ (t.broken = "no" => s.broken = "no")
  <2>1. CASE s.open[fd].fcbstate
    <3>1. t = do_write(s, s.open[fd].father, s.open[fd].diroff * FCBSIZE, Units(s.open[fd].fcb))
      BY <2>1 DEF WrittenBack, WriteFcb
    <3> HIDE DEF t
    <3> QED
      BY <3>1, StaysBroken
  <2>2. CASE ~s.open[fd].fcbstate
    BY <2>2 DEF WrittenBack
  <2> QED
    BY <2>1, <2>2
<1> QED
  BY <1>1, ReleaseFields

\* The entries of o but fd's are as they were, or longer.
Kept(o, p, fd) ==
  \A g \in Fd : g # fd => /\ p[g].fcb.directory = o[g].fcb.directory
                          /\ p[g].fcb.length >= o[g].fcb.length
                          /\ p[g].topenfile = o[g].topenfile

LEMMA ReleaseTo ==
  ASSUME NEW s, NEW fd, fd # 0, Sound(s, fd), s.broken = "no"
  PROVE  LET t == Release(s, fd)
         IN  /\ s.open[fd].father \in Fd /\ s.open[fd].father # fd
             /\ Sound(t, s.open[fd].father)
             /\ t.broken = "no" => /\ Kept(s.open, t.open, fd)
                                   /\ Synced(s.hard, s.open) => Synced(t.hard, t.open)
<1> DEFINE w == WrittenBack(s, fd)
           t == Release(s, fd)
           up == s.open[fd].father
           off == s.open[fd].diroff
           f == s.open[fd].fcb
<1>1. /\ StateFields(s) /\ DiscInv(s.hard) /\ TableInv(s.open, fd)
      /\ s.open \in [Fd -> OpenType] /\ fd \in Fd /\ s.open[fd].topenfile
  BY DEF Sound, TableInv
<1>2. up \in Fd /\ up # fd /\ off \in Nat /\ FcbOk(f)
  BY <1>1, CloseKeeps, Entries DEF TableInv
<1>3. s.open[up].topenfile /\ (up = 0 => InRoot(s.open, fd))
  BY <1>1 DEF TableInv
<1>4. Sound(w, fd) /\ (w.broken = "no" => /\ Alike(s.open, w.open)
                                          /\ Synced(s.hard, s.open) => Synced(w.hard, w.open))
  <2>1. CASE s.open[fd].fcbstate
    <3>1. w = WriteFcb(s, up, off, f)
      BY <2>1 DEF WrittenBack
    <3>2. up = 0 => off >= 2 /\ (off + 1) * FCBSIZE <= s.open[0].fcb.length
      BY <1>3 DEF InRoot
    <3> HIDE DEF up, off, f, w
    <3>3. Sound(w, fd) /\ (w.broken = "no" => FcbWrote(s, w, up, off))
      BY <1>2, <1>3, <3>1, <3>2, WriteFcbTo
    <3> QED
      BY <3>2, <3>3 DEF FcbWrote
  <2>2. CASE ~s.open[fd].fcbstate
    <3>1. w = s
      BY <2>2 DEF WrittenBack
    <3> HIDE DEF w
    <3>2. Alike(s.open, s.open)
      <4>1. \A g \in Fd : s.open[g].fcb.length \in Nat /\ FcbOk(s.open[g].fcb)
        BY <1>1, Entries DEF TableInv
      <4> QED
        BY <1>1, <4>1 DEF Alike
    <3> QED
      BY <3>1, <3>2
  <2> QED
    BY <2>1, <2>2
<1> HIDE DEF w, t
<1>5. /\ StateFields(t) /\ t.hard = w.hard /\ t.broken = w.broken
      /\ t.open = [w.open EXCEPT ![fd] = Closed]
  <2>1. StateFields(w)
    BY <1>4 DEF Sound
  <2> QED
    BY <2>1, ReleaseFields DEF w, t
<1>6. CASE t.broken # "no"
  BY <1>2, <1>5, <1>6 DEF Sound, t
<1>7. CASE t.broken = "no"
  <2>1. /\ DiscInv(w.hard) /\ TableInv(w.open, fd) /\ Alike(s.open, w.open)
        /\ Synced(s.hard, s.open) => Synced(w.hard, w.open)
    BY <1>4, <1>5, <1>7 DEF Sound
  <2>2. w.open[fd].father = up /\ w.open \in [Fd -> OpenType]
    BY <1>1, <2>1 DEF Alike
  <2>3. TableInv(t.open, up)
    BY <1>5, <2>1, <2>2, CloseKeeps
  <2>4. \A g \in Fd : g # fd => t.open[g] = w.open[g]
    BY <1>5, <2>2
  <2>5. Kept(s.open, t.open, fd)
    BY <2>1, <2>4 DEF Kept, Alike
  <2>6. Synced(s.hard, s.open) => Synced(t.hard, t.open)
    <3>1. t.open[0] = w.open[0]
      BY <2>4, Places
    <3> QED
      BY <1>5, <2>1, <3>1 DEF Synced
  <2> QED
    BY <1>2, <1>5, <2>1, <2>3, <2>5, <2>6 DEF Sound, t
<1> QED
  BY <1>6, <1>7


\* A closing that goes on from the father.
ClosedTo(s, c) ==
  /\ Sound(c.s, c.fd)
  /\ c.s.broken = "no" /\ Synced(s.hard, s.open) => Synced(c.s.hard, c.s.open)

LEMMA CloseTo ==
  ASSUME NEW s, NEW fd, fd # 0, Sound(s, fd), s.broken = "no"
  PROVE  ClosedTo(s, my_close(s, fd))
<1> DEFINE c == my_close(s, fd)
           t == Release(s, fd)
           up == s.open[fd].father
<1>1. /\ Sound(t, up)
      /\ t.broken = "no" /\ Synced(s.hard, s.open) => Synced(t.hard, t.open)
  BY ReleaseTo
<1>2. CASE s.open[fd].fcbstate
  <2>1. c = [s |-> t, fd |-> up]
    BY <1>2 DEF my_close
  <2> HIDE DEF c, t, up
  <2>2. c.s = t /\ c.fd = up
    BY <2>1
  <2> QED
    BY <1>1, <2>2 DEF ClosedTo, c
<1>3. CASE ~s.open[fd].fcbstate
  <2>1. c = [s |-> Break(t, "father"), fd |-> fd]
    BY <1>3 DEF my_close
  <2> HIDE DEF c, t, up
  <2>2. c.s = Break(t, "father") /\ c.fd = fd
    BY <2>1
  <2>3. StateFields(t)
    BY <1>1 DEF Sound
  <2> DEFINE why == "father"
  <2>4. why # "no"
    OBVIOUS
  <2> HIDE DEF why
  <2>5. StateFields(Break(t, why)) /\ Break(t, why).broken = why
    BY <2>3, Broke
  <2>6. StateFields(c.s) /\ c.s.broken # "no"
    BY <2>2, <2>4, <2>5 DEF why
  <2> QED
    BY <2>6 DEF ClosedTo, Sound, c
<1> QED
  BY <1>2, <1>3

CloseNext(p) == IF p.fd = 0 \/ p.s.broken /= "no" THEN p ELSE my_close(p.s, p.fd)

LEMMA CloseAllFound ==
  ASSUME NEW s, NEW fd
  PROVE  \E c : /\ c[0] = [s |-> s, fd |-> fd]
                /\ \A k \in 1 .. MAXOPENFILE : c[k] = CloseNext(c[k - 1])
                /\ CloseAll(s, fd) = c[MAXOPENFILE]
<1> DEFINE start == [s |-> s, fd |-> fd]
           Is(f, m) == f = [k \in 0 .. m |-> IF k = 0 THEN start ELSE CloseNext(f[k - 1])]
           S == {m \in 0 .. MAXOPENFILE : \E f : Is(f, m)}
<1> HIDE DEF CloseNext, start
<1>1. 0 \in S
  <2>1. Is([k \in 0 .. 0 |-> start], 0)
    OBVIOUS
  <2> HIDE DEF Is
  <2> QED
    BY <2>1, Sizes
<1>2. ASSUME NEW m \in 1 .. MAXOPENFILE, m - 1 \in S PROVE m \in S
  <2>1. PICK f : Is(f, m - 1)
    BY <1>2
  <2> DEFINE g == [k \in 0 .. m |-> IF k = m THEN CloseNext(f[m - 1]) ELSE f[k]]
  <2>2. ASSUME NEW k \in 0 .. m
        PROVE  g[k] = IF k = 0 THEN start ELSE CloseNext(g[k - 1])
    <3>1. CASE k = m
      BY <3>1
    <3>2. CASE k # m
      <4>1. k \in 0 .. m - 1
        BY <3>2
      <4>2. f[k] = IF k = 0 THEN start ELSE CloseNext(f[k - 1])
        BY <2>1, <4>1
      <4> QED
        BY <3>2, <4>1, <4>2
    <3> QED
      BY <3>1, <3>2
  <2>3. Is(g, m)
    <3>1. g = [k \in 0 .. m |-> g[k]]
      OBVIOUS
    <3> HIDE DEF g
    <3> QED
      BY <2>2, <3>1
  <2> HIDE DEF Is, g
  <2> QED
    BY <2>3
<1>3. \E f : Is(f, MAXOPENFILE)
  <2>1. MAXOPENFILE \in Nat /\ MAXOPENFILE \in 0 .. MAXOPENFILE
    BY Sizes
  <2> HIDE DEF S
  <2>2. MAXOPENFILE \in S
    BY <1>1, <1>2, <2>1, Induction
  <2> QED
    BY <2>2 DEF S
<1> DEFINE c == CHOOSE f : Is(f, MAXOPENFILE)
<1>4. Is(c, MAXOPENFILE)
  BY <1>3, Zenon
<1>5. CloseAll(s, fd) = c[MAXOPENFILE]
  BY Zenon DEF CloseAll, CloseNext, start
<1> HIDE DEF c
<1>6. c[0] = start /\ \A k \in 1 .. MAXOPENFILE : c[k] = CloseNext(c[k - 1])
  <2>1. \A k \in 0 .. MAXOPENFILE : c[k] = IF k = 0 THEN start ELSE CloseNext(c[k - 1])
    BY <1>4, Zenon
  <2>2. 0 \in 0 .. MAXOPENFILE /\ \A k \in 1 .. MAXOPENFILE : k \in 0 .. MAXOPENFILE /\ k # 0
    BY Sizes
  <2> QED
    BY <2>1, <2>2, Zenon
<1> QED
  BY <1>5, <1>6 DEF start

LEMMA CloseAllTo ==
  ASSUME NEW s, NEW fd, Sound(s, fd)
  PROVE  ClosedTo(s, CloseAll(s, fd))
<1>1. PICK c : /\ c[0] = [s |-> s, fd |-> fd]
               /\ \A k \in 1 .. MAXOPENFILE : c[k] = CloseNext(c[k - 1])
               /\ CloseAll(s, fd) = c[MAXOPENFILE]
  BY CloseAllFound
<1> DEFINE S == {k \in 0 .. MAXOPENFILE : ClosedTo(s, c[k])}
<1>2. MAXOPENFILE \in Nat /\ 0 \in 0 .. MAXOPENFILE /\ MAXOPENFILE \in 0 .. MAXOPENFILE
  BY Sizes
<1>3. 0 \in S
  <2> DEFINE start == c[0]
  <2>1. start.s = s /\ start.fd = fd
    BY <1>1
  <2> HIDE DEF start
  <2>2. ClosedTo(s, start)
    BY <2>1 DEF ClosedTo
  <2> QED
    BY <1>2, <2>2 DEF start
<1>4. ASSUME NEW k \in 1 .. MAXOPENFILE, k - 1 \in S PROVE k \in S
  <2> DEFINE p == c[k - 1]
  <2>1. ClosedTo(s, p) /\ c[k] = CloseNext(p) /\ k \in 0 .. MAXOPENFILE
    BY <1>1, <1>4
  <2> HIDE DEF p
  <2>2. CASE p.fd = 0 \/ p.s.broken # "no"
    BY <2>1, <2>2 DEF CloseNext
  <2>3. CASE ~(p.fd = 0 \/ p.s.broken # "no")
    <3>1. c[k] = my_close(p.s, p.fd)
      BY <2>1, <2>3 DEF CloseNext
    <3>2. ClosedTo(p.s, my_close(p.s, p.fd))
      BY <2>1, <2>3, CloseTo DEF ClosedTo
    <3>3. ClosedTo(s, my_close(p.s, p.fd))
      BY <2>1, <2>3, <3>2 DEF ClosedTo
    <3> QED
      BY <2>1, <3>1, <3>3
  <2> QED
    BY <2>2, <2>3
<1> HIDE DEF S
<1>5. MAXOPENFILE \in S
  BY <1>2, <1>3, <1>4, Induction
<1> QED
  BY <1>1, <1>5 DEF S

-----------------------------------------------------------------------------
(* Opening.                                                                *)

\* The directory open as cur, with entry i of it opened as fd.
OpenedTo(s, t, cur, fd, i) ==
  /\ fd \in Fd \ {0} /\ fd # cur /\ t.broken = s.broken /\ t.hard = s.hard /\ Sound(t, fd)
  /\ \A g \in Fd : g # fd => t.open[g] = s.open[g]
  /\ t.open[fd].father = cur /\ t.open[fd].fcb = Dir(s, cur)[i] /\ ~t.open[fd].fcbstate
  /\ ~s.open[fd].topenfile /\ t.open[fd].topenfile /\ t.open[fd].diroff = i

\* OpenAs() takes an open file of the same name for the one it is to open.
Blocked(o, cur, name, ex) ==
  \E fd \in Fd \ {cur} : o[fd].fcb.filename = name /\ o[fd].fcb.exname = ex

LEMMA OpenOrdered ==
  ASSUME NEW o, NEW cur \in Fd, Ordered(o, cur), o[cur].topenfile, o[0].topenfile,
         \A g \in Fd \ {0} : o[g].topenfile => o[g].father \in Fd /\ o[o[g].father].topenfile,
         NEW fd \in Fd, ~o[fd].topenfile, NEW p,
         p[fd].father = cur, p[fd].topenfile, \A g \in Fd : g # fd => p[g] = o[g]
  PROVE  Ordered(p, fd)
<1>1. PICK r : Depths(o, cur, r)
  BY DEF Ordered
<1> DEFINE q == [r EXCEPT ![fd] = r[cur] + 1]
<1>2. r \in [Fd -> Nat] /\ r[0] = 0 /\ 0 \in Fd /\ fd # 0 /\ fd # cur
  BY <1>1, Places DEF Depths
<1>3. q \in [Fd -> Nat] /\ q[fd] = r[cur] + 1 /\ \A g \in Fd : g # fd => q[g] = r[g]
  BY <1>2
<1> HIDE DEF q
<1>4. \A g \in Fd : g # fd /\ p[g].topenfile => p[g] = o[g] /\ o[g].topenfile
  OBVIOUS
<1>5. ASSUME NEW g \in Fd \ {0}, p[g].topenfile PROVE q[g] = q[p[g].father] + 1
  <2>1. CASE g = fd
    BY <1>2, <1>3, <2>1
  <2>2. CASE g # fd
    <3>1. p[g] = o[g] /\ o[g].father \in Fd /\ o[g].father # fd
      BY <1>4, <1>5, <2>2
    <3>2. r[g] = r[o[g].father] + 1
      BY <1>1, <1>4, <1>5, <2>2 DEF Depths
    <3> QED
      BY <1>3, <2>2, <3>1, <3>2
  <2> QED
    BY <2>1, <2>2
<1>6. ASSUME NEW g \in Fd, p[g].topenfile, g # fd PROVE q[g] < q[fd]
  <2>1. r[g] <= r[cur] /\ r[g] \in Nat /\ r[cur] \in Nat
    BY <1>1, <1>2, <1>4, <1>6 DEF Depths
  <2> QED
    BY <1>3, <1>6, <2>1
<1>7. \A g \in Fd : p[g].topenfile => q[g] <= q[fd]
  BY <1>3, <1>6
<1>8. ASSUME NEW g \in Fd, NEW k \in Fd, p[g].topenfile, p[k].topenfile, q[g] = q[k]
      PROVE  g = k
  <2>1. CASE g # fd /\ k # fd
    BY <1>1, <1>3, <1>4, <1>8, <2>1 DEF Depths
  <2>2. CASE g = fd \/ k = fd
    BY <1>3, <1>6, <1>8, <2>2
  <2> QED
    BY <2>1, <2>2
<1>9. Depths(p, fd, q)
  BY <1>2, <1>3, <1>5, <1>7, <1>8 DEF Depths
<1>10. p[0].father = 0
  BY <1>2 DEF Ordered
<1> QED
  BY <1>9, <1>10 DEF Ordered

LEMMA OpenKeeps ==
  ASSUME NEW o, NEW cur, TableInv(o, cur), NEW fd \in Fd, ~o[fd].topenfile,
         NEW e \in OpenType, FcbOk(e.fcb), e.fcb.filename \in Given, e.father = cur, e.topenfile,
         cur = 0 => e.diroff >= 2 /\ (e.diroff + 1) * FCBSIZE <= o[0].fcb.length
  PROVE  TableInv([o EXCEPT ![fd] = e], fd)
<1> DEFINE p == [o EXCEPT ![fd] = e]
<1>1. o \in [Fd -> OpenType] /\ 0 \in Fd /\ o[0].topenfile /\ cur \in Fd /\ o[cur].topenfile
  BY Places DEF TableInv
<1>2. fd # 0 /\ fd # cur
  BY <1>1
<1>3. p \in [Fd -> OpenType] /\ p[fd] = e /\ \A g \in Fd : g # fd => p[g] = o[g]
  BY <1>1
<1> HIDE DEF p
<1>4. \A g \in Fd : FcbOk(p[g].fcb)
  BY <1>3 DEF TableInv
<1>5. p[0] = o[0] /\ p[cur] = o[cur] /\ p[fd].topenfile
  BY <1>1, <1>2, <1>3
<1>6. ASSUME NEW g \in Fd \ {0}, p[g].topenfile
      PROVE  /\ p[g].fcb.filename \in Given
             /\ p[p[g].father].topenfile /\ p[g].father /= fd
             /\ p[g].father = 0 => InRoot(p, g)
             /\ \A k \in Fd \ {0} : p[k].topenfile /\ p[k].father = p[g].father => k = g
  <2>1. CASE g = fd
    <3>1. p[g] = e /\ p[g].father = cur
      BY <1>3, <2>1
    <3>2. p[g].father = 0 => InRoot(p, g)
      BY <1>5, <3>1 DEF InRoot
    <3>3. ASSUME NEW k \in Fd \ {0}, p[k].topenfile, p[k].father = p[g].father, k # g PROVE FALSE
      <4>1. o[k].topenfile /\ o[k].father = cur
        BY <1>3, <2>1, <3>1, <3>3
      <4> QED
        BY <4>1 DEF TableInv
    <3> QED
      BY <1>1, <1>2, <1>5, <3>1, <3>2, <3>3
  <2>2. CASE g # fd
    <3>1. p[g] = o[g] /\ o[g].topenfile
      BY <1>3, <1>6, <2>2
    <3>2. o[g].father \in Fd /\ o[o[g].father].topenfile /\ o[g].father # fd /\ o[g].father # cur
      BY <1>1, <3>1, Entries DEF TableInv
    <3>3. p[o[g].father].topenfile
      BY <1>3, <3>2
    <3>4. p[g].father = 0 => InRoot(p, g)
      <4>1. o[g].father = 0 => InRoot(o, g)
        BY <3>1 DEF TableInv
      <4> QED
        BY <1>5, <3>1, <4>1 DEF InRoot
    <3>5. ASSUME NEW k \in Fd \ {0}, p[k].topenfile, p[k].father = p[g].father PROVE k = g
      <4>1. k # fd
        BY <1>3, <3>1, <3>2, <3>5
      <4>2. p[k] = o[k]
        BY <1>3, <4>1
      <4> QED
        BY <3>1, <3>5, <4>2 DEF TableInv
    <3>6. p[g].fcb.filename \in Given
      BY <3>1 DEF TableInv
    <3> QED
      BY <3>1, <3>2, <3>3, <3>4, <3>5, <3>6
  <2> QED
    BY <2>1, <2>2
<1>7. TableInv(p, fd)
  <2>1. p[0].topenfile /\ p[0].fcb.first = Root /\ p[0].fcb.directory /\ p[0].fcb.filename = "."
    BY <1>5 DEF TableInv
  <2>2. Ordered(p, fd)
    <3>1. \A g \in Fd \ {0} : o[g].topenfile => o[g].father \in Fd /\ o[o[g].father].topenfile
      BY <1>1, Entries DEF TableInv
    <3>2. p[fd].father = cur
      BY <1>3
    <3> QED
      BY <1>1, <1>3, <1>5, <3>1, <3>2, OpenOrdered DEF TableInv
  <2> QED
    BY <1>3, <1>4, <1>5, <1>6, <2>1, <2>2 DEF TableInv
<1> QED
  BY <1>7 DEF p


OpenResult(s, o, cur, name, ex) ==
  LET i == Min(Matches(Dir(s, cur), name, ex))
  IN  /\ StateFields(o.s)
      /\ o.fd = -1 /\ o.s.broken = "no" =>
           o.s = s /\ (Blocked(s.open, cur, name, ex) \/ Matches(Dir(s, cur), name, ex) = {})
      /\ o.fd # -1 => /\ OpenedTo(s, o.s, cur, o.fd, i) /\ Matches(Dir(s, cur), name, ex) # {}
                      /\ ~Blocked(s.open, cur, name, ex)

LEMMA OpenTo ==
  ASSUME NEW s, NEW cur, Sound(s, cur), s.broken = "no", s.open[cur].fcb.directory,
         NEW name \in Given, NEW ex
  PROVE  OpenResult(s, OpenAs(s, cur, name, ex), cur, name, ex)
<1> DEFINE o == OpenAs(s, cur, name, ex)
           dir == Dir(s, cur)
           M == Matches(dir, name, ex)
           i == Min(M)
           Free == {fd \in Fd : ~s.open[fd].topenfile}
           isOpen == Blocked(s.open, cur, name, ex)
           full == "open table"
           long == "text"
           fits == Fits(s, cur)
           fd == Min(Free)
           e == Opened(dir, i, cur)
           p == [s.open EXCEPT ![fd] = e]
           t == [s EXCEPT !.open[fd] = e]
<1>1. /\ StateFields(s) /\ DiscInv(s.hard) /\ TableInv(s.open, cur)
      /\ s.open \in [Fd -> OpenType] /\ cur \in Fd /\ s.open[cur].topenfile
  BY DEF Sound, TableInv
<1>2. full # "no" /\ long # "no"
  OBVIOUS
<1>3. o = IF isOpen THEN [s |-> s, fd |-> -1]
          ELSE IF ~fits THEN [s |-> Break(s, long), fd |-> -1]
          ELSE IF M = {} THEN [s |-> s, fd |-> -1]
          ELSE IF Free = {} THEN [s |-> Break(s, full), fd |-> -1]
          ELSE [s |-> t, fd |-> fd]
  BY DEF OpenAs, Blocked
<1> HIDE DEF isOpen, full, long, fits, o, t
<1>4. CASE isOpen \/ (fits /\ M = {})
  <2> HIDE DEF M
  <2>1. o = [s |-> s, fd |-> -1]
    BY <1>3, <1>4
  <2>2. o.s = s /\ o.fd = -1
    BY <2>1
  <2> QED
    BY <1>1, <1>4, <2>2 DEF o, isOpen, M, OpenResult
<1>5. CASE ~isOpen /\ (~fits \/ (M # {} /\ Free = {}))
  <2> DEFINE why == IF fits THEN full ELSE long
  <2> HIDE DEF M, Free
  <2>1. o = [s |-> Break(s, why), fd |-> -1]
    BY <1>3, <1>5
  <2>0. why # "no"
    BY <1>2
  <2> HIDE DEF why
  <2>2. o.s = Break(s, why) /\ o.fd = -1
    BY <2>1
  <2>3. StateFields(Break(s, why)) /\ Break(s, why).broken = why
    BY <1>1, Broke
  <2>4. StateFields(o.s) /\ o.fd = -1 /\ o.s.broken # "no"
    BY <2>0, <2>2, <2>3
  <2> QED
    BY <2>4 DEF o, OpenResult
<1>6. CASE ~isOpen /\ fits /\ M # {} /\ Free # {}
  <2>1. fd \in Fd /\ ~s.open[fd].topenfile /\ fd # -1
    <3>1. Free \subseteq Nat
      BY Sizes DEF Fd
    <3>2. fd \in Free
      BY <1>6, <3>1, MinFound
    <3> HIDE DEF fd
    <3> QED
      BY <3>1, <3>2
  <2> HIDE DEF Free, fd
  <2>2. o = [s |-> t, fd |-> fd]
    <3> HIDE DEF M
    <3> QED
      BY <1>3, <1>6
  <2>3. o.s = t /\ o.fd = fd
    <3> HIDE DEF M
    <3> QED
      BY <2>2
  <2>4. Listed(dir, s.open[cur].fcb.length) /\ (cur = 0 => RootDir(dir))
    BY <1>1, DirFound
  <2>5. /\ i \in Nat /\ FcbOk(dir[i]) /\ dir[i].filename = name
        /\ (i + 1) * FCBSIZE <= s.open[cur].fcb.length
        /\ RootDir(dir) => i >= 2
    <3> HIDE DEF dir
    <3> QED
      BY <1>6, <2>4, MatchFound
  <2> HIDE DEF i, M
  <2>6. e = [fcb |-> dir[i], diroff |-> i, father |-> cur, fcbstate |-> FALSE, topenfile |-> TRUE]
    BY DEF Opened
  <2> HIDE DEF dir, e
  <2>7. /\ e.fcb = dir[i] /\ e.diroff = i /\ e.father = cur /\ ~e.fcbstate /\ e.topenfile
    BY <2>6
  <2>8. e \in OpenType
    <3>1. dir[i] \in FcbType
      BY <2>5 DEF FcbOk
    <3> QED
      BY <1>1, <2>5, <2>6, <3>1 DEF OpenType
  <2>9. TableInv(p, fd)
    <3>1. cur = 0 => e.diroff >= 2 /\ (e.diroff + 1) * FCBSIZE <= s.open[0].fcb.length
      BY <2>4, <2>5, <2>7
    <3>2. FcbOk(e.fcb) /\ e.fcb.filename \in Given
      BY <2>5, <2>7
    <3> HIDE DEF p
    <3>3. TableInv([s.open EXCEPT ![fd] = e], fd)
      BY <1>1, <2>1, <2>7, <2>8, <3>1, <3>2, OpenKeeps
    <3> QED
      BY <3>3 DEF p
  <2>10. p[fd] = e /\ \A g \in Fd : g # fd => p[g] = s.open[g]
    BY <1>1, <2>1
  <2>11. fd # 0 /\ fd # cur
    BY <1>1, <2>1 DEF TableInv
  <2>12. t = [s EXCEPT !.open = p]
    BY DEF t
  <2> HIDE DEF p
  <2>13. t = [hard |-> s.hard, open |-> p, broken |-> s.broken]
    BY <1>1, <2>12 DEF StateFields
  <2>14. t.hard = s.hard /\ t.open = p /\ t.broken = s.broken
    BY <2>13
  <2>15. Sound(t, fd)
    <3>1. StateFields(t)
      BY <2>13, <2>14 DEF StateFields
    <3> QED
      BY <1>1, <2>9, <2>14, <3>1 DEF Sound
  <2>16. OpenedTo(s, t, cur, fd, i)
    BY <2>1, <2>7, <2>10, <2>11, <2>14, <2>15 DEF OpenedTo, dir
  <2> QED
    BY <1>6, <2>1, <2>3, <2>15, <2>16 DEF o, Sound, i, M, dir, isOpen, OpenResult
<1> QED
  BY <1>4, <1>5, <1>6


-----------------------------------------------------------------------------
(* Blocks that are taken and given back.                                   *)

\* The FATs alone have changed, and are in order.
Refatted(h, g) ==
  /\ g = [block |-> h.block, fat1 |-> g.fat1, fat2 |-> g.fat2]
  /\ g.fat1 \in FatType /\ g.fat2 \in FatType

LEMMA RefattedKeeps ==
  ASSUME NEW h, DiscInv(h), NEW g, Refatted(h, g)
  PROVE  DiscInv(g) /\ g.block = h.block
<1>1. g.block = h.block
  BY DEF Refatted
<1>2. FatsOf(g, g)
  BY <1>1 DEF Refatted, FatsOf
<1> QED
  BY <1>1, <1>2 DEF DiscInv, UnitsOk

LEMMA DiscFields ==
  ASSUME NEW h, DiscInv(h)
  PROVE  /\ h = [block |-> h.block, fat1 |-> h.fat1, fat2 |-> h.fat2]
         /\ h.fat1 \in FatType /\ h.fat2 \in FatType
BY DEF DiscInv, FatsOf

LEMMA FatsWith ==
  ASSUME NEW h, h = [block |-> h.block, fat1 |-> h.fat1, fat2 |-> h.fat2],
         NEW f1 \in FatType, NEW f2 \in FatType
  PROVE  LET g == [h EXCEPT !.fat1 = f1, !.fat2 = f2]
         IN  Refatted(h, g) /\ g.fat1 = f1 /\ g.fat2 = f2
<1> DEFINE g == [h EXCEPT !.fat1 = f1, !.fat2 = f2]
<1>1. g = [block |-> h.block, fat1 |-> f1, fat2 |-> f2]
  <2>1. [h EXCEPT !.fat1 = f1] = [block |-> h.block, fat1 |-> f1, fat2 |-> h.fat2]
    OBVIOUS
  <2>2. [[block |-> h.block, fat1 |-> f1, fat2 |-> h.fat2] EXCEPT !.fat2 = f2]
        = [block |-> h.block, fat1 |-> f1, fat2 |-> f2]
    OBVIOUS
  <2> QED
    BY <2>1, <2>2
<1> HIDE DEF g
<1>2. g.fat1 = f1 /\ g.fat2 = f2
  BY <1>1
<1>3. Refatted(h, g)
  BY <1>1, <1>2 DEF Refatted
<1> QED
  BY <1>2, <1>3 DEF g

LEMMA FatFreed ==
  ASSUME NEW fat \in FatType, NEW gone
  PROVE  [b \in Block |-> IF b \in gone THEN FREE ELSE fat[b]] \in FatType
BY DEF FatType

LEMMA BlockTaken ==
  ASSUME NEW h, DiscInv(h), NEW b \in Block, NEW second
  PROVE  LET g == NewBlock(h, b, second)
         IN  /\ Refatted(h, g)
             /\ g.fat1 = [h.fat1 EXCEPT ![b] = END]
             /\ g.fat2 = [h.fat2 EXCEPT ![b] = IF second THEN END ELSE h.fat2[b]]
<1> DEFINE f1 == [h.fat1 EXCEPT ![b] = END]
           f2 == [h.fat2 EXCEPT ![b] = IF second THEN END ELSE h.fat2[b]]
<1>1. f1 \in FatType
  BY DiscFields, FatSet
<1>2. f2 \in FatType
  <2>1. h.fat2 \in FatType
    BY DiscFields
  <2>2. h.fat2[b] \in {FREE, END} \union (Root + 1 .. Blocks - 1)
    BY <2>1 DEF FatType
  <2>3. (IF second THEN END ELSE h.fat2[b]) \in {FREE, END} \union (Root + 1 .. Blocks - 1)
    BY <2>2
  <2> QED
    BY <2>1, <2>3, FatSet
<1>3. NewBlock(h, b, second) = [h EXCEPT !.fat1 = f1, !.fat2 = f2]
  <2>1. h = [block |-> h.block, fat1 |-> h.fat1, fat2 |-> h.fat2]
    BY DiscFields
  <2>2. [h EXCEPT !.fat1[b] = END] = [h EXCEPT !.fat1 = f1]
    OBVIOUS
  <2> DEFINE h1 == [h EXCEPT !.fat1 = f1]
  <2>3. h1 = [block |-> h.block, fat1 |-> f1, fat2 |-> h.fat2]
    <3> HIDE DEF f1
    <3> QED
      BY <2>1
  <2>4. NewBlock(h, b, second) = [h1 EXCEPT !.fat2[b] = IF second THEN END ELSE h.fat2[b]]
    BY <2>2 DEF NewBlock
  <2> HIDE DEF h1
  <2>5. h1.fat2 = h.fat2
    BY <2>3
  <2>6. [h1 EXCEPT !.fat2[b] = IF second THEN END ELSE h.fat2[b]] = [h1 EXCEPT !.fat2 = f2]
    BY <2>5
  <2>7. NewBlock(h, b, second) = [h1 EXCEPT !.fat2 = f2]
    BY <2>4, <2>6
  <2> QED
    BY <2>7 DEF h1
<1> HIDE DEF f1, f2
<1> DEFINE g == [h EXCEPT !.fat1 = f1, !.fat2 = f2]
<1>4. Refatted(h, g) /\ g.fat1 = f1 /\ g.fat2 = f2
  <2>1. h = [block |-> h.block, fat1 |-> h.fat1, fat2 |-> h.fat2]
    BY DiscFields
  <2> HIDE DEF g
  <2> QED
    BY <1>1, <1>2, <2>1, FatsWith DEF g
<1> HIDE DEF g
<1>5. NewBlock(h, b, second) = g
  BY <1>3 DEF g
<1> QED
  BY <1>4, <1>5 DEF f1, f2

LEMMA ChainFreed ==
  ASSUME NEW h, DiscInv(h), NEW first
  PROVE  LET g    == FreeChain(h, first)
             gone == ToSet(Chain(h, first))
         IN  /\ Refatted(h, g)
             /\ g.fat1 = [b \in Block |-> IF b \in gone THEN FREE ELSE h.fat1[b]]
             /\ g.fat2 = [b \in Block |-> IF b \in gone THEN FREE ELSE h.fat2[b]]
<1> DEFINE gone == ToSet(Chain(h, first))
           f1 == [b \in Block |-> IF b \in gone THEN FREE ELSE h.fat1[b]]
           f2 == [b \in Block |-> IF b \in gone THEN FREE ELSE h.fat2[b]]
<1>1. FreeChain(h, first) = [h EXCEPT !.fat1 = f1, !.fat2 = f2]
  BY DEF FreeChain
<1> HIDE DEF gone
<1>2. f1 \in FatType /\ f2 \in FatType
  BY DiscFields, FatFreed
<1> HIDE DEF f1, f2
<1> DEFINE g == [h EXCEPT !.fat1 = f1, !.fat2 = f2]
<1>3. Refatted(h, g) /\ g.fat1 = f1 /\ g.fat2 = f2
  <2>1. h = [block |-> h.block, fat1 |-> h.fat1, fat2 |-> h.fat2]
    BY DiscFields
  <2> HIDE DEF g
  <2> QED
    BY <1>2, <2>1, FatsWith DEF g
<1> HIDE DEF g
<1>4. FreeChain(h, first) = g
  BY <1>1 DEF g
<1> QED
  BY <1>3, <1>4 DEF f1, f2, gone

LEMMA CutOff ==
  ASSUME NEW h, DiscInv(h), NEW first \in Block
  PROVE  LET g    == Cut(h, first)
             gone == ToSet(Tail(Chain(h, first)))
             e1   == [h.fat1 EXCEPT ![first] = END]
             e2   == [h.fat2 EXCEPT ![first] = END]
         IN  /\ Refatted(h, g)
             /\ g.fat1 = [b \in Block |-> IF b \in gone THEN FREE ELSE e1[b]]
             /\ g.fat2 = [b \in Block |-> IF b \in gone THEN FREE ELSE e2[b]]
<1> DEFINE gone == ToSet(Tail(Chain(h, first)))
           e1 == [h.fat1 EXCEPT ![first] = END]
           e2 == [h.fat2 EXCEPT ![first] = END]
           kept == [h EXCEPT !.fat1[first] = END, !.fat2[first] = END]
           f1 == [b \in Block |-> IF b \in gone THEN FREE ELSE e1[b]]
           f2 == [b \in Block |-> IF b \in gone THEN FREE ELSE e2[b]]
<1>1. e1 \in FatType /\ e2 \in FatType
  BY DiscFields, FatSet
<1>2. kept = [block |-> h.block, fat1 |-> e1, fat2 |-> e2]
  <2>1. h = [block |-> h.block, fat1 |-> h.fat1, fat2 |-> h.fat2]
    BY DiscFields
  <2> DEFINE h1 == [block |-> h.block, fat1 |-> e1, fat2 |-> h.fat2]
  <2>2. [h EXCEPT !.fat1[first] = END] = h1
    BY <2>1
  <2>3. [h1 EXCEPT !.fat2[first] = END] = [block |-> h.block, fat1 |-> e1, fat2 |-> e2]
    OBVIOUS
  <2> HIDE DEF h1, e1, e2
  <2> QED
    BY <2>2, <2>3
<1>3. Cut(h, first) = [kept EXCEPT !.fat1 = [b \in Block |-> IF b \in gone THEN FREE ELSE kept.fat1[b]],
                                   !.fat2 = [b \in Block |-> IF b \in gone THEN FREE ELSE kept.fat2[b]]]
  BY DEF Cut
<1> HIDE DEF kept, gone, e1, e2
<1>4. kept.fat1 = e1 /\ kept.fat2 = e2 /\ kept.block = h.block
  BY <1>2
<1>5. Cut(h, first) = [kept EXCEPT !.fat1 = f1, !.fat2 = f2]
  BY <1>3, <1>4
<1>6. f1 \in FatType /\ f2 \in FatType
  BY <1>1, FatFreed
<1> DEFINE g == [kept EXCEPT !.fat1 = f1, !.fat2 = f2]
<1> HIDE DEF f1, f2
<1>7. Refatted(kept, g) /\ g.fat1 = f1 /\ g.fat2 = f2
  <2>1. kept = [block |-> kept.block, fat1 |-> kept.fat1, fat2 |-> kept.fat2]
    BY <1>2, <1>4
  <2> QED
    BY <1>6, <2>1, FatsWith
<1> HIDE DEF g
<1>8. Refatted(h, g)
  BY <1>4, <1>7 DEF Refatted
<1>9. Cut(h, first) = g
  BY <1>5 DEF g
<1> QED
  BY <1>7, <1>8, <1>9 DEF f1, f2, e1, e2, gone

\* A command's state with another disc.
OnDisc(s, g) == [s EXCEPT !.hard = g]

LEMMA OnDiscTo ==
  ASSUME NEW s, NEW cur, Sound(s, cur), s.broken = "no", NEW g, Refatted(s.hard, g)
  PROVE  LET t == OnDisc(s, g)
         IN  /\ Sound(t, cur) /\ t.broken = "no" /\ t.open = s.open /\ t.hard = g
             /\ g.block = s.hard.block
             /\ Synced(s.hard, s.open) => Synced(t.hard, t.open)
<1> DEFINE t == OnDisc(s, g)
<1>1. t = [hard |-> g, open |-> s.open, broken |-> s.broken]
  BY DEF OnDisc, Sound, StateFields
<1> HIDE DEF t
<1>2. t.hard = g /\ t.open = s.open /\ t.broken = s.broken
  BY <1>1
<1>3. DiscInv(g) /\ g.block = s.hard.block
  BY RefattedKeeps DEF Sound
<1>4. StateFields(t)
  BY <1>1, <1>2 DEF StateFields
<1>5. Sound(t, cur)
  BY <1>2, <1>3, <1>4 DEF Sound
<1>6. Synced(s.hard, s.open) => Synced(t.hard, t.open)
  BY <1>2, <1>3 DEF Synced
<1> QED
  BY <1>2, <1>3, <1>5, <1>6 DEF t

-----------------------------------------------------------------------------
(* The two properties.                                                     *)

LEMMA RootKept ==
  ASSUME NEW h, DiscInv(h)
  PROVE  RootStays(h)
<1>1. IsDot(h.block[Root][0]) /\ IsDotDot(h.block[Root][FCBSIZE])
  BY DEF DiscInv
<1>2. ASSUME NEW b \in Block PROVE h.fat1[b] \in {FREE, END} \union (Block \ 0 .. Root)
  <2>1. h.fat1 \in FatType
    BY DEF DiscInv, FatsOf
  <2>2. h.fat1[b] \in {FREE, END} \union (Root + 1 .. Blocks - 1)
    BY <2>1 DEF FatType
  <2>3. Root + 1 .. Blocks - 1 \subseteq Block \ 0 .. Root
    BY Sizes DEF Block
  <2> QED
    BY <2>2, <2>3
<1> QED
  BY <1>1, <1>2 DEF RootStays, IsDot, IsDotDot

WayNext(o, fd) == o[fd].father

UpFrom(o, cur, w) == w = [n \in 0 .. MAXOPENFILE |-> IF n = 0 THEN cur ELSE WayNext(o, w[n - 1])]

LEMMA WayFound ==
  ASSUME NEW o, NEW cur
  PROVE  \E w : UpFrom(o, cur, w)
<1> DEFINE Is(f, m) == f = [k \in 0 .. m |-> IF k = 0 THEN cur ELSE WayNext(o, f[k - 1])]
           S == {m \in 0 .. MAXOPENFILE : \E f : Is(f, m)}
<1> HIDE DEF WayNext
<1>1. 0 \in S
  <2>1. Is([k \in 0 .. 0 |-> cur], 0)
    OBVIOUS
  <2> HIDE DEF Is
  <2> QED
    BY <2>1, Sizes
<1>2. ASSUME NEW m \in 1 .. MAXOPENFILE, m - 1 \in S PROVE m \in S
  <2>1. PICK f : Is(f, m - 1)
    BY <1>2
  <2> DEFINE g == [k \in 0 .. m |-> IF k = m THEN WayNext(o, f[m - 1]) ELSE f[k]]
  <2>2. ASSUME NEW k \in 0 .. m
        PROVE  g[k] = IF k = 0 THEN cur ELSE WayNext(o, g[k - 1])
    <3>1. CASE k = m
      BY <3>1
    <3>2. CASE k # m
      <4>1. k \in 0 .. m - 1
        BY <3>2
      <4>2. f[k] = IF k = 0 THEN cur ELSE WayNext(o, f[k - 1])
        BY <2>1, <4>1
      <4> QED
        BY <3>2, <4>1, <4>2
    <3> QED
      BY <3>1, <3>2
  <2>3. Is(g, m)
    <3>1. g = [k \in 0 .. m |-> g[k]]
      OBVIOUS
    <3> HIDE DEF g
    <3> QED
      BY <2>2, <3>1
  <2> HIDE DEF Is, g
  <2> QED
    BY <2>3
<1>3. MAXOPENFILE \in Nat /\ MAXOPENFILE \in 0 .. MAXOPENFILE
  BY Sizes
<1> HIDE DEF S
<1>4. MAXOPENFILE \in S
  BY <1>1, <1>2, <1>3, Induction
<1> QED
  BY <1>4 DEF S, UpFrom

\* What OnTheWayUp says of a table.
WayIs(o, cur) ==
  \A w : UpFrom(o, cur, w) =>
    /\ w[MAXOPENFILE] = 0
    /\ {fd \in Fd : o[fd].topenfile} = {w[n] : n \in 0 .. MAXOPENFILE}

LEMMA WayUp ==
  ASSUME NEW o, NEW cur, TableInv(o, cur)
  PROVE  WayIs(o, cur)
<1> SUFFICES ASSUME NEW w, UpFrom(o, cur, w)
             PROVE  /\ w[MAXOPENFILE] = 0
                    /\ {fd \in Fd : o[fd].topenfile} = {w[n] : n \in 0 .. MAXOPENFILE}
  BY DEF WayIs
<1>1. /\ o \in [Fd -> OpenType] /\ cur \in Fd /\ o[cur].topenfile /\ o[0].topenfile
      /\ o[0].father = 0 /\ 0 \in Fd /\ MAXOPENFILE \in Nat
  BY Places, Sizes DEF TableInv, Ordered
<1>2. PICK r : Depths(o, cur, r)
  BY DEF TableInv, Ordered
<1>3. r \in [Fd -> Nat] /\ r[0] = 0 /\ r[cur] \in Nat
  BY <1>1, <1>2 DEF Depths
<1>4. ASSUME NEW fd \in Fd, o[fd].topenfile
      PROVE  /\ o[fd].father \in Fd /\ o[o[fd].father].topenfile
             /\ r[fd] # 0 => r[fd] = r[o[fd].father] + 1
             /\ r[fd] = 0 => fd = 0
             /\ r[fd] \in Nat /\ r[fd] <= r[cur]
  <2>1. o[fd].father \in Fd
    BY <1>1, Entries
  <2>2. CASE fd = 0
    BY <1>1, <1>2, <1>3, <2>1, <2>2 DEF Depths
  <2>3. CASE fd # 0
    <3>1. o[o[fd].father].topenfile /\ r[fd] = r[o[fd].father] + 1
      BY <1>2, <1>4, <2>3 DEF TableInv, Depths
    <3>2. r[o[fd].father] \in Nat
      BY <1>3, <2>1
    <3> QED
      BY <1>2, <1>3, <1>4, <2>1, <3>1, <3>2 DEF Depths
  <2> QED
    BY <2>2, <2>3
<1> DEFINE D == r[cur]
           Left(n) == IF n <= D THEN D - n ELSE 0
           S == {n \in 0 .. MAXOPENFILE : w[n] \in Fd /\ o[w[n]].topenfile /\ r[w[n]] = Left(n)}
<1>5. D \in Nat
  BY <1>3
<1> HIDE DEF D
<1>6. w[0] = cur /\ \A n \in 1 .. MAXOPENFILE : w[n] = o[w[n - 1]].father
  BY <1>1 DEF UpFrom, WayNext
<1>7. 0 \in S
  BY <1>1, <1>5, <1>6 DEF D
<1>8. ASSUME NEW n \in 1 .. MAXOPENFILE, n - 1 \in S PROVE n \in S
  <2> DEFINE v == w[n - 1]
             u == w[n]
  <2>1. v \in Fd /\ o[v].topenfile /\ r[v] = Left(n - 1) /\ u = o[v].father
    BY <1>6, <1>8
  <2> HIDE DEF v, u
  <2>2. /\ u \in Fd /\ o[u].topenfile
        /\ r[v] # 0 => r[v] = r[u] + 1
        /\ r[v] = 0 => v = 0
        /\ r[u] \in Nat
    BY <1>3, <1>4, <2>1
  <2>3. r[u] = Left(n)
    <3>1. CASE r[v] = 0
      <4>1. u = 0
        BY <1>1, <2>1, <2>2, <3>1
      <4> QED
        BY <1>3, <1>5, <2>1, <3>1, <4>1
    <3>2. CASE r[v] # 0
      BY <1>5, <2>1, <2>2, <3>2
    <3> QED
      BY <3>1, <3>2
  <2> QED
    BY <2>2, <2>3 DEF u
<1>9. ASSUME NEW n \in 0 .. MAXOPENFILE
      PROVE  w[n] \in Fd /\ o[w[n]].topenfile /\ r[w[n]] = Left(n)
  <2> HIDE DEF S
  <2>1. n \in S
    BY <1>1, <1>7, <1>8, Induction
  <2> QED
    BY <2>1 DEF S
<1> HIDE DEF S
<1>10. D < MAXOPENFILE
  <2> SUFFICES ASSUME D >= MAXOPENFILE PROVE FALSE
    BY <1>1, <1>5
  <2>1. w \in [0 .. MAXOPENFILE -> Fd]
    BY <1>9 DEF UpFrom
  <2>2. ASSUME NEW m \in 0 .. MAXOPENFILE, NEW n \in 0 .. MAXOPENFILE, w[m] = w[n] PROVE m = n
    BY <1>1, <1>5, <1>9, <2>2
  <2>3. w \in Injection(0 .. MAXOPENFILE, Fd)
    BY <2>1, <2>2 DEF Injection, IsInjective
  <2>4. IsFiniteSet(Fd) /\ Cardinality(Fd) = MAXOPENFILE
    BY <1>1, FS_Interval DEF Fd
  <2>5. Cardinality(0 .. MAXOPENFILE) = MAXOPENFILE + 1
    BY <1>1, FS_Interval
  <2>6. Cardinality(0 .. MAXOPENFILE) <= Cardinality(Fd)
    BY <2>3, <2>4, FS_Injection
  <2> QED
    BY <1>1, <2>4, <2>5, <2>6
<1>11. w[MAXOPENFILE] = 0
  <2>1. r[w[MAXOPENFILE]] = 0
    BY <1>1, <1>5, <1>9, <1>10
  <2> QED
    BY <1>1, <1>4, <1>9, <2>1
<1>12. ASSUME NEW fd \in Fd, o[fd].topenfile PROVE \E n \in 0 .. MAXOPENFILE : fd = w[n]
  <2> DEFINE n == D - r[fd]
  <2>1. r[fd] \in Nat /\ r[fd] <= D
    BY <1>4, <1>12 DEF D
  <2>2. n \in 0 .. MAXOPENFILE /\ Left(n) = r[fd]
    BY <1>1, <1>5, <1>10, <2>1
  <2> HIDE DEF n
  <2>3. r[w[n]] = r[fd] /\ w[n] \in Fd /\ o[w[n]].topenfile
    BY <1>9, <2>2
  <2>4. fd = w[n]
    BY <1>2, <1>12, <2>3 DEF Depths
  <2> QED
    BY <2>2, <2>4
<1> QED
  BY <1>9, <1>11, <1>12

-----------------------------------------------------------------------------
(* What a command does to the disc and the table.                          *)

\* A command that leaves s, and cur for curdir, where it found s0.
Keeps(s0, s, cur) ==
  /\ Sound(s, cur)
  /\ s.broken = "no" /\ Synced(s0.hard, s0.open) => Synced(s.hard, s.open)

RootInv ==
  /\ DiscInv(myfilesys.image)
  /\ InUse => DiscInv(myvhard) /\ TableInv(openfilelist, curdir)

LEMMA StateIs ==
  /\ StateFields(State)
  /\ State.hard = myvhard /\ State.open = openfilelist /\ State.broken = broken
BY DEF State, StateFields

LEMMA StateSound ==
  ASSUME RootInv, InUse
  PROVE  Sound(State, curdir) /\ State.broken = "no"
BY StateIs DEF RootInv, Sound, InUse

LEMMA CommandKeeps ==
  ASSUME RootInv, InUse, UNCHANGED <<running, myfilesys>>, NEW s, Become(s),
         Sound(s, curdir')
  PROVE  RootInv'
<1>1. DiscInv(myfilesys'.image)
  BY DEF RootInv
<1>2. InUse' => s.broken = "no"
  BY DEF InUse, Become
<1>3. s.broken = "no" => DiscInv(myvhard') /\ TableInv(openfilelist', curdir')
  BY DEF Sound, Become
<1> QED
  BY <1>1, <1>2, <1>3 DEF RootInv

\* RootIsUpToDate, whatever names directories have been made under.
InSync == InUse => Synced(myvhard, openfilelist)

LEMMA CommandSyncs ==
  ASSUME InSync, InUse, NEW s, Become(s),
         s.broken = "no" /\ Synced(State.hard, State.open) => Synced(s.hard, s.open)
  PROVE  InSync'
<1>1. Synced(State.hard, State.open)
  BY StateIs DEF InSync
<1>2. InUse' => Synced(s.hard, s.open)
  BY <1>1 DEF InUse, Become
<1>3. Synced(s.hard, s.open) => Synced(myvhard, openfilelist)'
  BY DEF Synced, Become
<1> QED
  BY <1>2, <1>3 DEF InSync

\* A command breaks off.
LEMMA BreaksOff ==
  ASSUME NEW s, StateFields(s), NEW why, why # "no", NEW s0, NEW cur
  PROVE  Keeps(s0, Break(s, why), cur)
BY Broke DEF Keeps, Sound

LEMMA DownTo ==
  ASSUME NEW s, NEW cur, Sound(s, cur), s.broken = "no", s.open[cur].fcb.directory,
         NEW name \in Given, NEW ex
  PROVE  LET o == OpenAs(s, cur, name, ex)
         IN  /\ o.fd = -1 => Keeps(s, o.s, cur)
             /\ o.fd # -1 => Keeps(s, o.s, o.fd)
<1> DEFINE o == OpenAs(s, cur, name, ex)
           i == Min(Matches(Dir(s, cur), name, ex))
<1>1. /\ StateFields(o.s)
      /\ o.fd = -1 /\ o.s.broken = "no" => o.s = s
      /\ o.fd # -1 => OpenedTo(s, o.s, cur, o.fd, i)
  <2>1. OpenResult(s, o, cur, name, ex)
    BY OpenTo
  <2> HIDE DEF o
  <2> QED
    BY <2>1 DEF OpenResult
<1> HIDE DEF o, i
<1>2. ASSUME o.fd = -1 PROVE Keeps(s, o.s, cur)
  BY <1>1, <1>2 DEF Keeps, Sound
<1>3. ASSUME o.fd # -1 PROVE Keeps(s, o.s, o.fd)
  <2>1. OpenedTo(s, o.s, cur, o.fd, i)
    BY <1>1, <1>3
  <2>2. o.s.hard = s.hard /\ o.s.open[0] = s.open[0] /\ Sound(o.s, o.fd)
    BY <2>1, Places DEF OpenedTo
  <2> QED
    BY <2>2 DEF Keeps, Synced
<1> QED
  BY <1>2, <1>3 DEF o

InHere == RootInv /\ InUse /\ openfilelist[curdir].fcb.directory

LEMMA HereFound ==
  ASSUME InHere
  PROVE  /\ Listed(Here, openfilelist[curdir].fcb.length)
         /\ curdir = 0 => RootDir(Here) /\ IsDot(<<"fcb", Here[0], 1>>)
         /\ FcbOk(Here[0])
<1>1. Sound(State, curdir) /\ State.broken = "no" /\ State.open = openfilelist
  BY StateSound, StateIs DEF InHere
<1>2. curdir \in Fd /\ openfilelist[curdir].topenfile
  BY DEF InHere, RootInv, TableInv
<1> DEFINE dir == Here
<1>3. /\ Listed(dir, openfilelist[curdir].fcb.length)
      /\ curdir = 0 => RootDir(dir)
  BY <1>1, <1>2, DirFound DEF Here, InHere
<1> HIDE DEF dir
<1>4. FcbOk(dir[0])
  BY <1>3 DEF Listed
<1>5. curdir = 0 => IsDot(<<"fcb", dir[0], 1>>)
  BY <1>3 DEF RootDir
<1> QED
  BY <1>3, <1>4, <1>5 DEF dir

\* What comes from s by writes to curdir's directory.
Follows(s, t, cur) ==
  /\ Sound(t, cur)
  /\ t.broken = "no" => /\ t.open[cur].fcb.directory
                        /\ cur # 0 /\ Synced(s.hard, s.open) => Synced(t.hard, t.open)

LEMMA NewEntryTo ==
  ASSUME InHere, NEW fcb, FcbOk(fcb)
  PROVE  Follows(State, NewEntry(State, fcb), curdir)
<1> DEFINE g == NewBlock(State.hard, fcb.first, fcb.directory)
           s == OnDisc(State, g)
           slot == FreeSlot(Here)
           t == WriteFcb(s, curdir, slot, fcb)
<1>1. Sound(State, curdir) /\ State.broken = "no" /\ State.open = openfilelist
  BY StateSound, StateIs DEF InHere
<1>2. curdir \in Fd /\ openfilelist[curdir].topenfile
  BY DEF InHere, RootInv, TableInv
<1>3. NewEntry(State, fcb) = t
  BY DEF NewEntry, OnDisc
<1>4. Refatted(State.hard, g)
  <2>1. fcb.first \in Block /\ DiscInv(State.hard)
    BY <1>1 DEF FcbOk, FcbType, Sound
  <2> QED
    BY <2>1, BlockTaken
<1> HIDE DEF g
<1>5. /\ Sound(s, curdir) /\ s.broken = "no" /\ s.open = State.open
      /\ Synced(State.hard, State.open) => Synced(s.hard, s.open)
  BY <1>1, <1>4, OnDiscTo
<1>6. slot \in Nat /\ (curdir = 0 => slot >= 2)
  BY HereFound, SlotFound
<1> HIDE DEF s, slot
<1>7. Sound(t, curdir) /\ (t.broken = "no" => FcbWrote(s, t, curdir, slot))
  BY <1>1, <1>2, <1>5, <1>6, WriteFcbTo
<1> HIDE DEF t
<1>8. ASSUME t.broken = "no" PROVE t.open[curdir].fcb.directory
  <2>1. Alike(openfilelist, t.open) /\ openfilelist[curdir].fcb.directory
    BY <1>1, <1>5, <1>7, <1>8 DEF FcbWrote, InHere
  <2> QED
    BY <1>2, <2>1 DEF Alike
<1> QED
  BY <1>3, <1>5, <1>7, <1>8 DEF Follows, FcbWrote

LEMMA MadeOk ==
  ASSUME NEW name \in Given \union Dots, NEW isdir \in BOOLEAN, NEW b \in Block,
         b >= FirstData \/ name \in Dots
  PROVE  FcbOk(Fcb(name, isdir, b, IF isdir THEN 2 * FCBSIZE ELSE 0))
<1> DEFINE length == IF isdir THEN 2 * FCBSIZE ELSE 0
           f == Fcb(name, isdir, b, length)
<1>1. length \in Nat /\ (isdir => length >= 2 * FCBSIZE)
  BY Sizes
<1>2. name \in Given \union Dots \union {""}
  OBVIOUS
<1>3. (name \in Given => name \notin Dots) /\ name # ""
  BY Names DEF Dots
<1> HIDE DEF length
<1>4. FcbWith(f, name, isdir, b, length)
  BY <1>1, <1>2, FcbMade
<1> HIDE DEF f
<1>5. FcbOk(f)
  BY <1>1, <1>3, <1>4 DEF FcbWith, FcbOk
<1> QED
  BY <1>5 DEF f, length

LEMMA DotAdded ==
  ASSUME InHere, NEW s, Follows(State, s, curdir), s.broken = "no"
  PROVE  Keeps(State, WriteDot(s, curdir, Here[0]), curdir)
<1> DEFINE t == WriteDot(s, curdir, Here[0])
<1>1. s.open[curdir].fcb.length >= 2 * FCBSIZE
  <2>1. TableInv(s.open, curdir) /\ s.open[curdir].fcb.directory
    BY DEF Follows, Sound
  <2>2. curdir \in Fd /\ s.open[curdir].topenfile
    BY <2>1 DEF TableInv
  <2> QED
    BY <2>1, <2>2, DirLength
<1>2. /\ Sound(t, curdir)
      /\ t.broken = "no" /\ (curdir # 0 => Synced(s.hard, s.open)) => Synced(t.hard, t.open)
  <2>1. FcbOk(Here[0]) /\ (curdir = 0 => IsDot(<<"fcb", Here[0], 1>>)) /\ Sound(s, curdir)
    BY HereFound DEF Follows
  <2> DEFINE dot == Here[0]
  <2> HIDE DEF dot
  <2> QED
    BY <1>1, <2>1, WriteDotTo DEF dot
<1> HIDE DEF t
<1>3. Keeps(State, t, curdir)
  BY <1>2 DEF Keeps, Follows
<1> QED
  BY <1>3 DEF t

-----------------------------------------------------------------------------
(* The commands.                                                           *)

\* What every command keeps, and what all but one keep.
Goes == RootInv' /\ (InSync => InSync')

LEMMA Done ==
  ASSUME RootInv, InUse, UNCHANGED <<running, myfilesys>>, NEW s, Become(s),
         Keeps(State, s, curdir')
  PROVE  Goes
BY CommandKeeps, CommandSyncs DEF Keeps, Goes

LEMMA Commanded ==
  ASSUME RootInv, Command
  PROVE  /\ InUse /\ UNCHANGED <<running, myfilesys>>
         /\ Sound(State, curdir) /\ State.broken = "no" /\ State.open = openfilelist
         /\ State.hard = myvhard
         /\ StateFields(State)
BY StateSound, StateIs DEF Command, InUse

\* A command finds that what it is to read does not fit, or has no room.
LEMMA BrokenOff ==
  ASSUME RootInv, Command, NEW why, why # "no", Become(Break(State, why)), curdir' = curdir
  PROVE  Goes
<1>1. Keeps(State, Break(State, why), curdir')
  BY StateIs, BreaksOff
<1> QED
  BY <1>1, Commanded, Done

LEMMA ReadTooLongKeeps ==
  ASSUME RootInv, ReadTooLong
  PROVE  Goes
<1> DEFINE why == "text"
<1>1. why # "no"
  OBVIOUS
<1>2. Command /\ Become(Break(State, why)) /\ curdir' = curdir
  BY DEF ReadTooLong
<1> HIDE DEF why
<1> QED
  BY <1>1, <1>2, BrokenOff

LEMMA CdDownKeeps ==
  ASSUME RootInv, NEW name \in Name, cd_down(name)
  PROVE  Goes
<1> DEFINE o == my_open(State, curdir, name)
<1>1. Command /\ openfilelist[curdir].fcb.directory
  BY DEF cd_down, InDirectory
<1>2. Become(o.s) /\ curdir' = IF o.fd = -1 THEN curdir ELSE o.fd
  BY DEF cd_down
<1>3. (o.fd = -1 => Keeps(State, o.s, curdir)) /\ (o.fd # -1 => Keeps(State, o.s, o.fd))
  BY <1>1, Commanded, NameGiven, DownTo DEF my_open
<1> HIDE DEF o
<1>4. Keeps(State, o.s, curdir')
  BY <1>2, <1>3
<1> QED
  BY <1>1, <1>2, <1>4, Commanded, Done

LEMMA OpenCommandKeeps ==
  ASSUME RootInv, NEW name \in Name, open(name)
  PROVE  Goes
<1> DEFINE o == my_open(State, curdir, name)
           why == "curdir"
<1>1. Command /\ openfilelist[curdir].fcb.directory
  BY DEF open, InDirectory
<1>2. IF o.fd = -1 THEN Become(Break(o.s, why)) /\ UNCHANGED curdir
      ELSE Become(o.s) /\ curdir' = o.fd
  BY DEF open
<1>3. (o.fd = -1 => Keeps(State, o.s, curdir)) /\ (o.fd # -1 => Keeps(State, o.s, o.fd))
  BY <1>1, Commanded, NameGiven, DownTo DEF my_open
<1>4. why # "no"
  OBVIOUS
<1> HIDE DEF o, why
<1>5. CASE o.fd = -1
  <2>1. StateFields(o.s)
    BY <1>3, <1>5 DEF Keeps, Sound
  <2>2. Keeps(State, Break(o.s, why), curdir')
    BY <1>4, <2>1, BreaksOff
  <2> QED
    BY <1>1, <1>2, <1>5, <2>2, Commanded, Done
<1>6. CASE o.fd # -1
  BY <1>1, <1>2, <1>3, <1>6, Commanded, Done
<1> QED
  BY <1>5, <1>6

\* my_close() of curdir, as cd_up and close do it.
LEMMA CloseKeepsRoot ==
  ASSUME RootInv, Command, curdir # 0,
         Become(my_close(State, curdir).s), curdir' = my_close(State, curdir).fd
  PROVE  Goes
<1> DEFINE c == my_close(State, curdir)
<1>1. ClosedTo(State, c)
  BY Commanded, CloseTo
<1> HIDE DEF c
<1>2. Keeps(State, c.s, curdir')
  BY <1>1 DEF ClosedTo, Keeps, c
<1> QED
  BY <1>2, Commanded, Done DEF c

LEMMA CdUpKeeps ==
  ASSUME RootInv, cd_up
  PROVE  Goes
BY CloseKeepsRoot DEF cd_up, InDirectory

LEMMA NotInRoot ==
  ASSUME RootInv, InFile
  PROVE  curdir # 0
BY DEF InFile, Command, InUse, RootInv, TableInv

LEMMA CloseCommandKeeps ==
  ASSUME RootInv, close
  PROVE  Goes
<1>1. curdir # 0 /\ Command
  BY NotInRoot DEF close, InFile
<1> QED
  BY <1>1, CloseKeepsRoot DEF close

LEMMA CdRootKeeps ==
  ASSUME RootInv, cd_root
  PROVE  Goes
<1> DEFINE c == CloseAll(State, curdir)
<1>1. Command /\ Become(c.s) /\ curdir' = c.fd
  BY DEF cd_root, InDirectory
<1>2. ClosedTo(State, c)
  BY <1>1, Commanded, CloseAllTo
<1> HIDE DEF c
<1>3. Keeps(State, c.s, curdir')
  BY <1>1, <1>2 DEF ClosedTo, Keeps
<1> QED
  BY <1>1, <1>3, Commanded, Done

\* The block that my_create() and my_mkdir() take.
LEMMA NewFcbOk ==
  ASSUME InHere, FreeBlocks(myvhard) # {}, NEW name \in Given, NEW isdir \in BOOLEAN
  PROVE  FcbOk(Fcb(name, isdir, findblock(myvhard), IF isdir THEN 2 * FCBSIZE ELSE 0))
<1>1. findblock(myvhard) \in FirstData .. Blocks - 1
  BY FreeFound
<1>2. FirstData .. Blocks - 1 \subseteq Block /\ \A b \in FirstData .. Blocks - 1 : b >= FirstData
  BY Sizes DEF Block
<1> DEFINE b == findblock(myvhard)
<1> HIDE DEF b
<1>3. b \in Block /\ b >= FirstData
  BY <1>1, <1>2 DEF b
<1>4. FcbOk(Fcb(name, isdir, b, IF isdir THEN 2 * FCBSIZE ELSE 0))
  BY <1>3, MadeOk
<1> QED
  BY <1>4 DEF b

LEMMA RoomFound ==
  ASSUME NoRoom = "no"
  PROVE  FreeBlocks(myvhard) # {} /\ ~((FreeSlot(Here) + 1) * FCBSIZE > MAXTEXT)
BY DEF NoRoom

LEMMA CreateKeeps ==
  ASSUME RootInv, NEW name \in Name, my_create(name)
  PROVE  Goes
<1> DEFINE b == findblock(myvhard)
           f == Fcb(Split[name][1], FALSE, b, 0)
           s == NewEntry(State, f)
           t == IF s.broken = "no" THEN WriteDot(s, curdir, Here[0]) ELSE s
           why == NoRoom
<1>1. Command /\ InHere
  <2>1. Command /\ openfilelist[curdir].fcb.directory
    BY DEF my_create, InDirectory
  <2> QED
    BY <2>1, Commanded DEF InHere
<1>2. /\ curdir' = curdir
      /\ why # "no" => Become(Break(State, why))
      /\ why = "no" => Become(t)
  BY DEF my_create
<1>3. CASE why # "no"
  <2> HIDE DEF why
  <2> QED
    BY <1>1, <1>2, <1>3, BrokenOff
<1>4. CASE why = "no"
  <2>0. FreeBlocks(myvhard) # {}
    BY <1>4, RoomFound
  <2>1. FcbOk(f)
    <3>1. Split[name][1] \in Given /\ FALSE \in BOOLEAN
      BY NameGiven
    <3> QED
      BY <1>1, <2>0, <3>1, NewFcbOk
  <2> HIDE DEF f
  <2>2. Follows(State, s, curdir)
    BY <1>1, <2>1, NewEntryTo
  <2> HIDE DEF s
  <2>3. Keeps(State, t, curdir)
    <3>1. CASE s.broken = "no"
      BY <1>1, <2>2, <3>1, DotAdded
    <3>2. CASE s.broken # "no"
      BY <2>2, <3>2 DEF Follows, Keeps
    <3> QED
      BY <3>1, <3>2
  <2> HIDE DEF t
  <2> QED
    BY <1>1, <1>2, <1>4, <2>3, Commanded, Done
<1> QED
  BY <1>3, <1>4

LEMMA WriteFcbBroken ==
  ASSUME NEW s, StateFields(s), NEW fd, NEW slot, NEW fcb
  PROVE  /\ StateFields(WriteFcb(s, fd, slot, fcb))
         /\ WriteFcb(s, fd, slot, fcb).broken = "no" => s.broken = "no"
BY StaysBroken DEF WriteFcb

LEMMA WriteDotBroken ==
  ASSUME NEW s, StateFields(s), NEW fd, NEW dot
  PROVE  /\ StateFields(WriteDot(s, fd, dot))
         /\ WriteDot(s, fd, dot).broken = "no" => s.broken = "no"
BY WriteFcbBroken DEF WriteDot

\* The two entries of a directory that is open as fd.
TwoDots(s, fd, b) ==
  WriteFcb(WriteFcb(s, fd, 0, Fcb(".", TRUE, b, 2 * FCBSIZE)), fd, 1, Fcb("..", TRUE, b, 2 * FCBSIZE))

LEMMA TwoDotsTo ==
  ASSUME NEW s, NEW fd \in Fd \ {0}, Sound(s, fd), s.broken = "no", NEW b \in Block
  PROVE  LET t == TwoDots(s, fd, b)
         IN  /\ Sound(t, fd)
             /\ t.broken = "no" => /\ \A g \in Fd : g # fd => t.open[g] = s.open[g]
                                   /\ t.open[fd].father = s.open[fd].father
                                   /\ Synced(s.hard, s.open) => Synced(t.hard, t.open)
<1> DEFINE d(n) == Fcb(n, TRUE, b, 2 * FCBSIZE)
           u == WriteFcb(s, fd, 0, d("."))
           t == WriteFcb(u, fd, 1, d(".."))
<1>1. FcbOk(d(".")) /\ FcbOk(d(".."))
  <2>1. ASSUME NEW n \in Dots PROVE FcbOk(d(n))
    <3> DEFINE isdir == TRUE
    <3>1. isdir \in BOOLEAN /\ (IF isdir THEN 2 * FCBSIZE ELSE 0) = 2 * FCBSIZE
      OBVIOUS
    <3> HIDE DEF isdir
    <3>2. FcbOk(Fcb(n, isdir, b, IF isdir THEN 2 * FCBSIZE ELSE 0))
      BY <3>1, MadeOk
    <3>3. FcbOk(Fcb(n, isdir, b, 2 * FCBSIZE))
      BY <3>1, <3>2
    <3> QED
      BY <3>3 DEF isdir
  <2> HIDE DEF d
  <2> QED
    BY <2>1 DEF Dots
<1>2. TwoDots(s, fd, b) = t
  BY DEF TwoDots
<1> HIDE DEF d
<1>3. s.open[fd].topenfile /\ StateFields(s)
  BY DEF Sound, TableInv
<1>4. Sound(u, fd) /\ (u.broken = "no" => FcbWrote(s, u, fd, 0))
  <2>1. 0 \in Nat
    OBVIOUS
  <2> QED
    BY <1>1, <1>3, <2>1, WriteFcbTo
<1> HIDE DEF u
<1>5. CASE u.broken # "no"
  <2>1. StateFields(t) /\ t.broken # "no"
    BY <1>4, <1>5, WriteFcbBroken DEF Sound
  <2> HIDE DEF t
  <2> QED
    BY <1>2, <2>1 DEF Sound
<1>6. CASE u.broken = "no"
  <2>1. u.open[fd].topenfile
    BY <1>4, <1>6 DEF Sound, TableInv
  <2>2. Sound(t, fd) /\ (t.broken = "no" => FcbWrote(u, t, fd, 1))
    <3>1. 1 \in Nat
      OBVIOUS
    <3> QED
      BY <1>1, <1>4, <1>6, <2>1, <3>1, WriteFcbTo
  <2> HIDE DEF t
  <2>3. ASSUME t.broken = "no"
        PROVE  /\ \A g \in Fd : g # fd => t.open[g] = s.open[g]
               /\ t.open[fd].father = s.open[fd].father
               /\ Synced(s.hard, s.open) => Synced(t.hard, t.open)
    <3>1. FcbWrote(s, u, fd, 0) /\ FcbWrote(u, t, fd, 1)
      BY <1>4, <1>6, <2>2, <2>3
    <3>2. t.open[fd].father = s.open[fd].father
      BY <3>1 DEF FcbWrote, Alike
    <3> QED
      BY <3>1, <3>2 DEF FcbWrote
  <2> QED
    BY <1>2, <2>2, <2>3
<1> QED
  BY <1>5, <1>6

\* my_mkdir() closes the directory that it opened as fd, and fills.
LEMMA FilledTo ==
  ASSUME NEW s, NEW fd \in Fd \ {0}, NEW cur \in Fd, cur # fd, Sound(s, fd), s.broken = "no",
         s.open[fd].father = cur, s.open[cur].fcb.directory, NEW b \in Block
  PROVE  LET t == Release(TwoDots(s, fd, b), fd)
         IN  /\ StateFields(t)
             /\ t.broken = "no" => /\ Sound(t, cur) /\ t.open[cur].fcb.directory
                                   /\ Synced(s.hard, s.open) => Synced(t.hard, t.open)
<1> DEFINE u == TwoDots(s, fd, b)
           t == Release(u, fd)
<1>1. /\ Sound(u, fd)
      /\ u.broken = "no" => /\ \A g \in Fd : g # fd => u.open[g] = s.open[g]
                            /\ u.open[fd].father = s.open[fd].father
                            /\ Synced(s.hard, s.open) => Synced(u.hard, u.open)
  BY TwoDotsTo
<1> HIDE DEF u
<1>2. StateFields(t) /\ (t.broken = "no" => u.broken = "no")
  BY <1>1, ReleaseBroken DEF Sound
<1>3. ASSUME u.broken = "no"
      PROVE  /\ Sound(t, cur)
             /\ t.broken = "no" => /\ t.open[cur].fcb.directory
                                   /\ Synced(s.hard, s.open) => Synced(t.hard, t.open)
  <2>1. /\ Sound(t, u.open[fd].father)
        /\ t.broken = "no" => /\ Kept(u.open, t.open, fd)
                              /\ Synced(u.hard, u.open) => Synced(t.hard, t.open)
    BY <1>1, <1>3, ReleaseTo
  <2> HIDE DEF t
  <2>2. u.open[cur].fcb.directory
    BY <1>1, <1>3
  <2> QED
    BY <1>1, <1>3, <2>1, <2>2 DEF Kept
<1> HIDE DEF t
<1>4. /\ StateFields(t)
      /\ t.broken = "no" => /\ Sound(t, cur) /\ t.open[cur].fcb.directory
                            /\ Synced(s.hard, s.open) => Synced(t.hard, t.open)
  BY <1>2, <1>3
<1> QED
  BY <1>4 DEF t, u

LEMMA FillDirectoryTo ==
  ASSUME InHere, NEW name \in Name, NEW b \in Block, NEW s, Follows(State, s, curdir)
  PROVE  LET t == FillDirectory(s, name, b)
         IN  Sound(t, curdir) /\ (curdir # 0 => Keeps(State, t, curdir))
<1> DEFINE plain == Split[name][1]
           ex == Split[name][2]
           o == my_open(s, curdir, name)
           filled == Release(TwoDots(o.s, o.fd, b), o.fd)
           u == WriteDot(filled, curdir, Here[0])
           t == FillDirectory(s, name, b)
           i == Min(Matches(Dir(s, curdir), plain, ex))
<1>1. t = IF s.broken /= "no" THEN s ELSE IF o.fd = -1 THEN o.s ELSE u
  BY DEF FillDirectory, TwoDots
<1> HIDE DEF t
<1>2. CASE s.broken # "no"
  <2>1. t = s
    BY <1>1, <1>2
  <2> QED
    BY <1>2, <2>1 DEF Follows, Keeps, t
<1>3. CASE s.broken = "no"
  <2>1. /\ Sound(s, curdir) /\ s.open[curdir].fcb.directory
        /\ curdir # 0 /\ Synced(State.hard, State.open) => Synced(s.hard, s.open)
    BY <1>3 DEF Follows
  <2>2. /\ o.fd = -1 => Keeps(s, o.s, curdir)
        /\ o.fd # -1 => Keeps(s, o.s, o.fd)
    BY <1>3, <2>1, NameGiven, DownTo DEF my_open
  <2>3. o.fd # -1 => OpenedTo(s, o.s, curdir, o.fd, i)
    <3>1. OpenResult(s, o, curdir, plain, ex)
      BY <1>3, <2>1, NameGiven, OpenTo DEF my_open
    <3> HIDE DEF o
    <3> QED
      BY <3>1 DEF OpenResult
  <2> HIDE DEF o, i
  <2>4. CASE o.fd = -1
    <3>1. t = o.s
      BY <1>1, <1>3, <2>4
    <3> QED
      BY <2>1, <2>2, <2>4, <3>1 DEF Keeps, t
  <2>5. CASE o.fd # -1
    <3>1. OpenedTo(s, o.s, curdir, o.fd, i) /\ curdir \in Fd
      BY <2>1, <2>3, <2>5, <1>3 DEF Sound, TableInv
    <3>2. /\ o.fd \in Fd \ {0} /\ curdir # o.fd /\ o.s.broken = "no" /\ Sound(o.s, o.fd)
          /\ o.s.open[o.fd].father = curdir /\ o.s.open[curdir] = s.open[curdir]
      BY <1>3, <3>1 DEF OpenedTo
    <3>3. Synced(s.hard, s.open) => Synced(o.s.hard, o.s.open)
      BY <2>2, <2>5, <3>2 DEF Keeps
    <3>4. /\ StateFields(filled)
          /\ filled.broken = "no" => /\ Sound(filled, curdir) /\ filled.open[curdir].fcb.directory
                                     /\ Synced(o.s.hard, o.s.open) => Synced(filled.hard, filled.open)
      BY <2>1, <3>1, <3>2, FilledTo
    <3> HIDE DEF filled
    <3>5. t = u
      BY <1>1, <1>3, <2>5
    <3>6. CASE filled.broken # "no"
      <4>1. StateFields(u) /\ u.broken # "no"
        BY <3>4, <3>6, WriteDotBroken
      <4> QED
        BY <3>5, <4>1 DEF Sound, Keeps, t
    <3>7. CASE filled.broken = "no"
      <4>1. Follows(State, filled, curdir)
        BY <2>1, <3>3, <3>4, <3>7 DEF Follows
      <4>2. Keeps(State, u, curdir)
        BY <3>7, <4>1, DotAdded
      <4> QED
        BY <3>5, <4>2 DEF Keeps, t
    <3> QED
      BY <3>6, <3>7
  <2> QED
    BY <2>4, <2>5
<1> QED
  BY <1>2, <1>3

LEMMA MkdirKeeps ==
  ASSUME RootInv, NEW name \in Name, my_mkdir(name)
  PROVE  RootInv' /\ (curdir # 0 => Goes)
<1> DEFINE b == findblock(myvhard)
           f == Fcb(name, TRUE, b, 2 * FCBSIZE)
           s == NewEntry(State, f)
           t == FillDirectory(s, name, b)
           why == NoRoom
<1>1. Command /\ InHere
  <2>1. Command /\ openfilelist[curdir].fcb.directory
    BY DEF my_mkdir, InDirectory
  <2> QED
    BY <2>1, Commanded DEF InHere
<1>2. /\ curdir' = curdir
      /\ why # "no" => Become(Break(State, why))
      /\ why = "no" => Become(t)
  BY DEF my_mkdir
<1>3. CASE why # "no"
  <2> HIDE DEF why
  <2>1. Goes
    BY <1>1, <1>2, <1>3, BrokenOff
  <2> QED
    BY <2>1 DEF Goes
<1>4. CASE why = "no"
  <2>0. FreeBlocks(myvhard) # {}
    BY <1>4, RoomFound
  <2>1. name \in Given
    BY NameGiven
  <2>2. FcbOk(f)
    <3> DEFINE isdir == TRUE
    <3>1. isdir \in BOOLEAN /\ (IF isdir THEN 2 * FCBSIZE ELSE 0) = 2 * FCBSIZE
      OBVIOUS
    <3> HIDE DEF isdir
    <3>2. FcbOk(Fcb(name, isdir, b, IF isdir THEN 2 * FCBSIZE ELSE 0))
      BY <1>1, <2>0, <2>1, <3>1, NewFcbOk
    <3>3. FcbOk(Fcb(name, isdir, b, 2 * FCBSIZE))
      BY <3>1, <3>2
    <3> QED
      BY <3>3 DEF isdir
  <2>3. b \in Block
    <3>1. b \in FirstData .. Blocks - 1
      BY <2>0, FreeFound
    <3> QED
      BY <3>1, Sizes DEF Block
  <2> HIDE DEF f, b
  <2>4. Follows(State, s, curdir)
    BY <1>1, <2>2, NewEntryTo
  <2> HIDE DEF s
  <2>5. Sound(t, curdir) /\ (curdir # 0 => Keeps(State, t, curdir))
    BY <1>1, <2>1, <2>3, <2>4, FillDirectoryTo
  <2> HIDE DEF t
  <2>6. RootInv'
    BY <1>1, <1>2, <1>4, <2>5, Commanded, CommandKeeps
  <2>7. curdir # 0 => Goes
    BY <1>1, <1>2, <1>4, <2>5, Commanded, Done
  <2> QED
    BY <2>6, <2>7
<1> QED
  BY <1>3, <1>4

\* An entry of Here is marked free, in s.
LEMMA RemovedTo ==
  ASSUME InHere, NEW s, Sound(s, curdir), s.broken = "no",
         s.open[0].fcb.length >= openfilelist[0].fcb.length,
         Synced(State.hard, State.open) => Synced(s.hard, s.open),
         NEW slot \in Nat, FcbOk(Here[slot]),
         (slot + 1) * FCBSIZE <= openfilelist[curdir].fcb.length, curdir = 0 => slot >= 2,
         NEW first
  PROVE  Keeps(State, RemoveEntry(s, slot, first), curdir)
<1> DEFINE g == FreeChain(s.hard, first)
           u == OnDisc(s, g)
           fcb == [Here[slot] EXCEPT !.filename = "", !.free = 0]
           t == WriteFcb(u, curdir, slot, fcb)
<1>1. RemoveEntry(s, slot, first) = t
  BY DEF RemoveEntry, OnDisc
<1>2. FcbOk(fcb)
  <2> DEFINE old == Here[slot]
  <2> HIDE DEF old
  <2>1. fcb = [old EXCEPT !.filename = "", !.free = 0] /\ old \in FcbType
    BY DEF old, FcbOk
  <2> HIDE DEF fcb
  <2>2. fcb \in FcbType /\ fcb.filename = "" /\ fcb.free = 0
    BY <2>1, FcbMarked
  <2> QED
    BY <2>2, Names DEF FcbOk
<1> HIDE DEF fcb
<1>3. /\ Sound(u, curdir) /\ u.broken = "no" /\ u.open = s.open
      /\ Synced(s.hard, s.open) => Synced(u.hard, u.open)
  <2>1. Refatted(s.hard, g)
    BY ChainFreed DEF Sound
  <2> HIDE DEF g
  <2> QED
    BY <2>1, OnDiscTo
<1> HIDE DEF u
<1>4. /\ curdir \in Fd /\ u.open[curdir].topenfile
      /\ curdir = 0 => (slot + 1) * FCBSIZE <= u.open[0].fcb.length
  <2>1. TableInv(u.open, curdir) /\ TableInv(openfilelist, curdir)
    BY <1>3 DEF Sound, InHere, RootInv
  <2>2. curdir \in Fd /\ u.open[curdir].topenfile
    BY <2>1 DEF TableInv
  <2>3. u.open[0].fcb.length \in Nat /\ openfilelist[0].fcb.length \in Nat
    BY <2>1, Entries, Places DEF TableInv
  <2>4. (slot + 1) * FCBSIZE \in Nat
    BY Sizes, Times
  <2> QED
    BY <1>3, <2>2, <2>3, <2>4
<1>5. Sound(t, curdir) /\ (t.broken = "no" => FcbWrote(u, t, curdir, slot))
  BY <1>2, <1>3, <1>4, WriteFcbTo
<1> HIDE DEF t
<1>6. Keeps(State, t, curdir)
  BY <1>3, <1>4, <1>5 DEF Keeps, FcbWrote
<1> QED
  BY <1>1, <1>6

\* The entry that my_rm() and my_rmdir() look for.
LEMMA TakenFound ==
  ASSUME InHere, NEW name \in Given, NEW ex, Taken(name, ex)
  PROVE  LET i == Min(Matches(Here, name, ex))
         IN  /\ i \in Nat /\ FcbOk(Here[i])
             /\ (i + 1) * FCBSIZE <= openfilelist[curdir].fcb.length
             /\ curdir = 0 => i >= 2
<1> DEFINE dir == Here
           length == openfilelist[curdir].fcb.length
<1>1. Listed(dir, length) /\ (curdir = 0 => RootDir(dir)) /\ Matches(dir, name, ex) # {}
  BY HereFound DEF Taken
<1> HIDE DEF dir, length
<1> DEFINE i == Min(Matches(dir, name, ex))
<1>2. /\ i \in Nat /\ FcbOk(dir[i]) /\ (i + 1) * FCBSIZE <= length
      /\ RootDir(dir) => i >= 2
  BY <1>1, MatchFound
<1> QED
  BY <1>1, <1>2 DEF dir, length

LEMMA RmKeeps ==
  ASSUME RootInv, NEW name \in Name, my_rm(name)
  PROVE  Goes
<1> DEFINE plain == Split[name][1]
           i == Min(Matches(Here, plain, "x"))
           t == RemoveEntry(State, i, Here[i].first)
<1>1. Command /\ InHere
  <2>1. Command /\ openfilelist[curdir].fcb.directory
    BY DEF my_rm, InDirectory
  <2> QED
    BY <2>1, Commanded DEF InHere
<1>2. Taken(plain, "x") /\ Become(t) /\ curdir' = curdir
  BY DEF my_rm
<1>3. /\ i \in Nat /\ FcbOk(Here[i])
      /\ (i + 1) * FCBSIZE <= openfilelist[curdir].fcb.length
      /\ curdir = 0 => i >= 2
  <2>1. plain \in Given
    BY NameGiven
  <2> QED
    BY <1>1, <1>2, <2>1, TakenFound
<1> HIDE DEF i
<1>4. openfilelist[0].fcb.length \in Nat
  BY <1>1, Entries, Places DEF InHere, RootInv, TableInv
<1>5. Keeps(State, t, curdir)
  <2> DEFINE first == Here[i].first
  <2> HIDE DEF first
  <2>1. Keeps(State, RemoveEntry(State, i, first), curdir)
    BY <1>1, <1>3, <1>4, Commanded, RemovedTo
  <2> QED
    BY <2>1 DEF first
<1> HIDE DEF t
<1> QED
  BY <1>1, <1>2, <1>5, Commanded, Done

LEMMA RmdirKeeps ==
  ASSUME RootInv, NEW name \in Name, my_rmdir(name)
  PROVE  Goes
<1> DEFINE i == Min(Matches(Here, name, ""))
           plain == Split[name][1]
           ex == Split[name][2]
           o == my_open(State, curdir, name)
           r == Release(o.s, o.fd)
           first == o.s.open[o.fd].fcb.first
           why == "rmdir"
           why2 == "text2"
           why3 == "entry of free blocks"
           long == o.s.open[o.fd].fcb.length = 0 \/ ~Fits(o.s, o.fd)
           empty == IsEmpty(o.s, o.fd)
           u == RemoveEntry(r, i, first)
           t == IF o.fd = -1 THEN Break(o.s, why)
                ELSE IF long THEN Break(o.s, why2)
                ELSE IF ~empty THEN r
                ELSE IF HasDot(name) THEN Break(u, why3) ELSE u
<1>1. Command /\ InHere /\ name \in Given
  <2>1. Command /\ openfilelist[curdir].fcb.directory
    BY DEF my_rmdir, InDirectory
  <2> QED
    BY <2>1, Commanded, NameGiven DEF InHere
<1>2. Taken(name, "") /\ Become(t) /\ curdir' = curdir
  BY DEF my_rmdir
<1>3. /\ i \in Nat /\ FcbOk(Here[i])
      /\ (i + 1) * FCBSIZE <= openfilelist[curdir].fcb.length
      /\ curdir = 0 => i >= 2
  BY <1>1, <1>2, TakenFound
<1>4. State.open[curdir].fcb.directory
  BY <1>1, Commanded DEF InHere
<1>5. /\ o.fd = -1 => Keeps(State, o.s, curdir)
      /\ o.fd # -1 => OpenedTo(State, o.s, curdir, o.fd, Min(Matches(Dir(State, curdir), plain, ex)))
  <2>1. Sound(State, curdir) /\ State.broken = "no"
    BY <1>1, Commanded DEF InHere
  <2>2. OpenResult(State, o, curdir, plain, ex)
    BY <1>1, <1>4, <2>1, NameGiven, OpenTo DEF my_open
  <2>3. o.fd = -1 => Keeps(State, o.s, curdir)
    BY <1>1, <1>4, <2>1, NameGiven, DownTo DEF my_open
  <2> HIDE DEF o
  <2> QED
    BY <2>2, <2>3 DEF OpenResult
<1> HIDE DEF o, i
<1>6. CASE o.fd = -1
  <2>1. why # "no"
    OBVIOUS
  <2>2. t = Break(o.s, why)
    BY <1>6
  <2> HIDE DEF why, t
  <2>3. Keeps(State, t, curdir)
    BY <1>5, <1>6, <2>1, <2>2, BreaksOff DEF Keeps, Sound
  <2> QED
    BY <1>1, <1>2, <2>3, Commanded, Done
<1>7. CASE o.fd # -1
  <2>1. /\ o.fd \in Fd \ {0} /\ curdir # o.fd /\ o.s.broken = "no" /\ o.s.hard = State.hard
        /\ Sound(o.s, o.fd) /\ o.s.open[0] = State.open[0]
        /\ o.s.open[o.fd].father = curdir /\ ~o.s.open[o.fd].fcbstate
    BY <1>1, <1>5, <1>7, Commanded, Places DEF OpenedTo
  <2>2. /\ Sound(r, curdir)
        /\ r.broken = "no" => /\ Kept(o.s.open, r.open, o.fd)
                              /\ Synced(o.s.hard, o.s.open) => Synced(r.hard, r.open)
    BY <2>1, ReleaseTo
  <2>3. r.broken = "no"
    <3>1. WrittenBack(o.s, o.fd) = o.s
      BY <2>1 DEF WrittenBack
    <3>2. StateFields(WrittenBack(o.s, o.fd))
      BY <2>1, <3>1 DEF Sound
    <3>3. r.broken = WrittenBack(o.s, o.fd).broken
      BY <3>2, ReleaseFields
    <3> HIDE DEF r
    <3> QED
      BY <2>1, <3>1, <3>3
  <2> HIDE DEF r
  <2>4. Synced(State.hard, State.open) => Synced(r.hard, r.open)
    BY <2>1, <2>2, <2>3 DEF Synced
  <2>5. r.open[0].fcb.length >= openfilelist[0].fcb.length
    <3>1. r.open[0].fcb.length >= o.s.open[0].fcb.length
      BY <2>1, <2>2, <2>3, Places DEF Kept
    <3> QED
      BY <1>1, <2>1, <3>1, Commanded
  <2>6. Keeps(State, RemoveEntry(r, i, first), curdir)
    <3> HIDE DEF first
    <3> QED
      BY <1>1, <1>3, <2>2, <2>3, <2>4, <2>5, RemovedTo
  <2>7. Keeps(State, r, curdir)
    BY <2>2, <2>4 DEF Keeps
  <2>8. /\ t = IF long THEN Break(o.s, why2)
               ELSE IF ~empty THEN r ELSE IF HasDot(name) THEN Break(u, why3) ELSE u
        /\ why2 # "no" /\ why3 # "no"
    BY <1>7
  <2>9. StateFields(o.s) /\ Keeps(State, u, curdir)
    BY <2>1, <2>6 DEF Sound
  <2> HIDE DEF t, u, empty, long, why2, why3
  <2>10. StateFields(u)
    BY <2>9 DEF Keeps, Sound
  <2>11. Keeps(State, Break(o.s, why2), curdir) /\ Keeps(State, Break(u, why3), curdir)
    BY <2>8, <2>9, <2>10, BreaksOff
  <2>12. Keeps(State, t, curdir)
    BY <2>7, <2>8, <2>9, <2>11
  <2> QED
    BY <1>1, <1>2, <2>12, Commanded, Done
<1> QED
  BY <1>6, <1>7

\* my_write() has cut the file open as cur to one block.
Shortened(s, cur) ==
  [s EXCEPT !.hard = Cut(@, s.open[cur].fcb.first), !.open[cur].fcb.length = 0]

LEMMA ShortOrdered ==
  ASSUME NEW o, NEW cur \in Fd, Ordered(o, cur), NEW p,
         \A g \in Fd : p[g].father = o[g].father /\ p[g].topenfile = o[g].topenfile
  PROVE  Ordered(p, cur)
<1>1. PICK r : Depths(o, cur, r)
  BY DEF Ordered
<1>2. Depths(p, cur, r)
  BY <1>1 DEF Depths
<1> QED
  BY <1>2, Places DEF Ordered

LEMMA ShortKeeps ==
  ASSUME NEW o, NEW cur, TableInv(o, cur), cur # 0, ~o[cur].fcb.directory,
         NEW f, f = [o[cur].fcb EXCEPT !.length = 0], NEW e, e = [o[cur] EXCEPT !.fcb = f]
  PROVE  TableInv([o EXCEPT ![cur] = e], cur)
<1> DEFINE p == [o EXCEPT ![cur] = e]
<1>1. /\ o \in [Fd -> OpenType] /\ cur \in Fd \ {0} /\ o[cur] \in OpenType /\ o[cur].fcb \in FcbType
      /\ FcbOk(o[cur].fcb) /\ 0 \in Fd
  BY Entries, Places DEF TableInv
<1>2. /\ f \in FcbType /\ f.filename = o[cur].fcb.filename /\ f.directory = o[cur].fcb.directory
      /\ f.first = o[cur].fcb.first /\ f.free = o[cur].fcb.free
  <2>1. 0 \in Nat
    OBVIOUS
  <2> QED
    BY <1>1, <2>1, FcbSized
<1>3. FcbOk(f)
  BY <1>1, <1>2 DEF FcbOk
<1>4. /\ e \in OpenType /\ e.fcb = f /\ e.diroff = o[cur].diroff /\ e.father = o[cur].father
      /\ e.topenfile = o[cur].topenfile
  BY <1>1, <1>2 DEF OpenType
<1>5. p \in [Fd -> OpenType] /\ p[cur] = e /\ \A g \in Fd : g # cur => p[g] = o[g]
  BY <1>1, <1>4
<1> HIDE DEF p
<1>6. ASSUME NEW g \in Fd
      PROVE  /\ p[g].diroff = o[g].diroff /\ p[g].father = o[g].father
             /\ p[g].topenfile = o[g].topenfile /\ FcbOk(p[g].fcb)
             /\ p[g].fcb.filename = o[g].fcb.filename
  <2>1. CASE g = cur
    BY <1>2, <1>3, <1>4, <1>5, <2>1
  <2>2. CASE g # cur
    <3>1. p[g] = o[g] /\ FcbOk(o[g].fcb)
      BY <1>5, <2>2 DEF TableInv
    <3> QED
      BY <3>1
  <2> QED
    BY <2>1, <2>2
<1>7. p[0] = o[0]
  BY <1>1, <1>5
<1>8. Ordered(p, cur)
  BY <1>1, <1>6, ShortOrdered DEF TableInv
<1>9. ASSUME NEW g \in Fd \ {0}, p[g].topenfile
      PROVE  /\ p[g].fcb.filename \in Given
             /\ p[p[g].father].topenfile /\ p[g].father /= cur
             /\ p[g].father = 0 => InRoot(p, g)
             /\ \A k \in Fd \ {0} : p[k].topenfile /\ p[k].father = p[g].father => k = g
  <2>1. o[g].topenfile /\ o[g].father \in Fd
    BY <1>1, <1>6, <1>9, Entries
  <2>2. p[g].fcb.filename \in Given /\ p[p[g].father].topenfile /\ p[g].father /= cur
    BY <1>6, <2>1 DEF TableInv
  <2>3. p[g].father = 0 => InRoot(p, g)
    BY <1>6, <1>7, <2>1 DEF TableInv, InRoot
  <2>4. ASSUME NEW k \in Fd \ {0}, p[k].topenfile, p[k].father = p[g].father PROVE k = g
    <3>1. o[k].topenfile /\ o[k].father = o[g].father
      BY <1>6, <2>4
    <3> QED
      BY <2>1, <3>1 DEF TableInv
  <2> QED
    BY <2>2, <2>3, <2>4
<1>10. TableInv(p, cur)
  <2>1. p[0].topenfile /\ p[0].fcb.first = Root /\ p[0].fcb.directory /\ p[0].fcb.filename = "."
        /\ p[cur].topenfile
    BY <1>1, <1>6, <1>7 DEF TableInv
  <2> QED
    BY <1>1, <1>5, <1>6, <1>8, <1>9, <2>1 DEF TableInv
<1> QED
  BY <1>10 DEF p

LEMMA ShortenedTo ==
  ASSUME NEW s, NEW cur, Sound(s, cur), s.broken = "no", cur # 0, ~s.open[cur].fcb.directory
  PROVE  LET t == Shortened(s, cur)
         IN  /\ Keeps(s, t, cur) /\ t.broken = "no" /\ t.open[cur].topenfile
             /\ t.hard = Cut(s.hard, s.open[cur].fcb.first)
             /\ t.open = [s.open EXCEPT ![cur] =
                            [s.open[cur] EXCEPT !.fcb = [s.open[cur].fcb EXCEPT !.length = 0]]]
<1> DEFINE g == Cut(s.hard, s.open[cur].fcb.first)
           u == OnDisc(s, g)
           f == [s.open[cur].fcb EXCEPT !.length = 0]
           e == [s.open[cur] EXCEPT !.fcb = f]
           p == [s.open EXCEPT ![cur] = e]
           t == Shortened(s, cur)
<1>1. /\ TableInv(s.open, cur) /\ s.open \in [Fd -> OpenType] /\ cur \in Fd /\ s.open[cur].topenfile
      /\ s.open[cur].fcb.first \in Block
  <2>1. TableInv(s.open, cur)
    BY DEF Sound
  <2>2. s.open \in [Fd -> OpenType] /\ cur \in Fd /\ s.open[cur].topenfile
    BY <2>1 DEF TableInv
  <2> QED
    BY <2>1, <2>2, Entries
<1>2. /\ Sound(u, cur) /\ u.broken = "no" /\ u.open = s.open /\ u.hard = g
      /\ Synced(s.hard, s.open) => Synced(u.hard, u.open)
  <2>1. Refatted(s.hard, g)
    BY <1>1, CutOff DEF Sound
  <2> HIDE DEF g
  <2> QED
    BY <2>1, OnDiscTo
<1>3. t = [u EXCEPT !.open[cur].fcb.length = 0]
  BY DEF Shortened, OnDisc
<1> HIDE DEF u, t, g
<1>4. t = [u EXCEPT !.open = p]
  <2>1. [u EXCEPT !.open[cur].fcb.length = 0] = [u EXCEPT !.open = [u.open EXCEPT ![cur].fcb.length = 0]]
    OBVIOUS
  <2>2. [s.open EXCEPT ![cur].fcb.length = 0] = p
    OBVIOUS
  <2> HIDE DEF p
  <2> QED
    BY <1>2, <1>3, <2>1, <2>2
<1>5. TableInv(p, cur)
  <2> HIDE DEF e, f
  <2>1. f = [s.open[cur].fcb EXCEPT !.length = 0] /\ e = [s.open[cur] EXCEPT !.fcb = f]
    BY DEF e, f
  <2> QED
    BY <1>1, <2>1, ShortKeeps
<1>6. p[0] = s.open[0]
  <2> HIDE DEF e
  <2> QED
    BY <1>1
<1> HIDE DEF p
<1>7. t = [hard |-> u.hard, open |-> p, broken |-> u.broken]
  BY <1>2, <1>4 DEF Sound, StateFields
<1>8. t.hard = u.hard /\ t.open = p /\ t.broken = u.broken
  BY <1>7
<1>9. Sound(t, cur)
  <2>1. StateFields(t)
    BY <1>7, <1>8 DEF StateFields
  <2> QED
    BY <1>2, <1>5, <1>8, <2>1 DEF Sound
<1>10. Keeps(s, t, cur)
  BY <1>2, <1>6, <1>8, <1>9 DEF Keeps, Synced
<1>11. t.open[cur].topenfile
  BY <1>5, <1>8 DEF TableInv
<1>12. t.hard = g /\ t.open = p
  BY <1>2, <1>8
<1> QED
  <2>1. t.open = p
    BY <1>12
  <2>2. t.hard = Cut(s.hard, s.open[cur].fcb.first)
    BY <1>12 DEF g
  <2>3. Keeps(s, t, cur) /\ t.broken = "no" /\ t.open[cur].topenfile
    BY <1>2, <1>8, <1>10, <1>11
  <2>4. t.open = [s.open EXCEPT ![cur] =
                   [s.open[cur] EXCEPT !.fcb = [s.open[cur].fcb EXCEPT !.length = 0]]]
    BY <2>1 DEF p, e, f
  <2> QED
    BY <2>2, <2>3, <2>4 DEF t

LEMMA CharsWritable ==
  ASSUME NEW line \in Lines \union {<<>>}, line # <<>>
  PROVE  Writable(Chars(line))
<1>1. line \in Seq(ToSet(line))
  BY FileSystemAssumption, Zenon
<1> DEFINE U == {<<"char", c, 0>> : c \in ToSet(line)}
           u == [k \in DOMAIN line |-> <<"char", line[k], 0>>]
<1>2. /\ DOMAIN line = 1 .. Len(line) /\ Len(line) \in Nat /\ Len(line) # 0
      /\ \A k \in 1 .. Len(line) : line[k] \in ToSet(line)
  BY <1>1, LenProperties, EmptySeq, ElementOfSeq
<1>3. u \in [1 .. Len(line) -> U]
  BY <1>2
<1>4. u \in Seq(U) /\ Len(u) = Len(line)
  <2> HIDE DEF u, U
  <2> QED
    BY <1>2, <1>3, IsASeq, LenProperties
<1>5. u # <<>>
  <2> HIDE DEF u
  <2> QED
    BY <1>2, <1>4
<1>6. \A x \in U : UnitOk(x)
  <2>1. "char" # "fcb"
    OBVIOUS
  <2> QED
    BY <2>1 DEF UnitOk
<1> HIDE DEF U
<1>7. Writable(u)
  BY <1>4, <1>5, <1>6 DEF Writable
<1> QED
  BY <1>7 DEF Chars

LEMMA WriteKeeps ==
  ASSUME RootInv, NEW style, NEW line \in Lines \union {<<>>}, my_write(style, line)
  PROVE  Goes
<1> DEFINE fcb == openfilelist[curdir].fcb
           s == IF style = "cut"
                THEN [State EXCEPT !.hard = Cut(@, fcb.first), !.open[curdir].fcb.length = 0]
                ELSE State
           count == IF style = "add" THEN fcb.length ELSE 0
           t == IF line = <<>> THEN s ELSE do_write(s, curdir, count, Chars(line))
<1>1. Command /\ ~openfilelist[curdir].fcb.directory /\ curdir # 0
  BY NotInRoot DEF my_write, InFile
<1>2. Become(t) /\ curdir' = curdir
  BY DEF my_write
<1>3. /\ Sound(State, curdir) /\ State.broken = "no" /\ State.open = openfilelist
      /\ TableInv(openfilelist, curdir)
  BY <1>1, Commanded DEF RootInv
<1>4. curdir \in Fd /\ openfilelist[curdir].topenfile /\ count \in Nat
  BY <1>3, Entries DEF TableInv
<1>5. Keeps(State, s, curdir) /\ s.broken = "no" /\ s.open[curdir].topenfile
  <2>1. CASE style = "cut"
    <3>1. s = Shortened(State, curdir)
      BY <1>3, <2>1 DEF Shortened
    <3> HIDE DEF s
    <3>2. LET u == Shortened(State, curdir)
          IN  /\ Keeps(State, u, curdir) /\ u.broken = "no" /\ u.open[curdir].topenfile
              /\ u.hard = Cut(State.hard, State.open[curdir].fcb.first)
              /\ u.open = [State.open EXCEPT ![curdir] =
                             [State.open[curdir] EXCEPT !.fcb = [State.open[curdir].fcb EXCEPT !.length = 0]]]
      BY <1>1, <1>3, ShortenedTo
    <3> QED
      BY <3>1, <3>2
  <2>2. CASE style # "cut"
    <3>1. s = State
      BY <2>2
    <3> HIDE DEF s
    <3> QED
      BY <1>3, <1>4, <3>1 DEF Keeps
  <2> QED
    BY <2>1, <2>2
<1> HIDE DEF s, count
<1>6. Keeps(State, t, curdir)
  <2>1. CASE line = <<>>
    BY <1>5, <2>1
  <2>2. CASE line # <<>>
    <3> DEFINE units == Chars(line)
               u == do_write(s, curdir, count, units)
    <3>1. Writable(units)
      BY <2>2, CharsWritable
    <3> HIDE DEF units
    <3>2. KeepsRoot(curdir, count, units)
      BY <1>1 DEF KeepsRoot
    <3>3. Sound(u, curdir) /\ (u.broken = "no" => Wrote(s, u, curdir, count, units))
      BY <1>4, <1>5, <3>1, <3>2, WriteTo DEF Keeps
    <3>4. t = u
      BY <2>2 DEF units
    <3> HIDE DEF t, u
    <3>5. u.broken = "no" => u.open[0] = s.open[0] /\ u.hard.block[Root][0] = s.hard.block[Root][0]
      BY <1>1, <3>3, Places DEF Wrote
    <3> QED
      BY <1>5, <3>3, <3>4, <3>5 DEF Keeps, Synced
  <2> QED
    BY <2>1, <2>2
<1> HIDE DEF t
<1> QED
  BY <1>1, <1>2, <1>6, Commanded, Done

\* The disc is saved by exit, and by nothing else.
LEMMA ExitKeeps ==
  ASSUME RootInv, my_exitsys
  PROVE  Goes
<1> DEFINE c == CloseAll(State, curdir)
<1>1. InUse
  BY DEF my_exitsys, InUse
<1>2. ClosedTo(State, c)
  BY <1>1, StateSound, CloseAllTo
<1>3. \/ c.s.broken = "no" /\ myfilesys' = [image |-> c.s.hard, text |-> text, dotted |-> dotted] /\ Gone
      \/ c.s.broken # "no" /\ Become(c.s) /\ UNCHANGED myfilesys
  BY DEF my_exitsys
<1> HIDE DEF c
<1>4. CASE c.s.broken = "no" /\ myfilesys' = [image |-> c.s.hard, text |-> text, dotted |-> dotted] /\ Gone
  <2>1. DiscInv(c.s.hard) /\ myfilesys'.image = c.s.hard
    BY <1>2, <1>4 DEF ClosedTo, Sound
  <2>2. ~InUse'
    BY <1>4 DEF Gone, InUse
  <2> QED
    BY <2>1, <2>2 DEF Goes, RootInv, InSync
<1>5. CASE c.s.broken # "no" /\ Become(c.s) /\ UNCHANGED myfilesys
  <2>1. ~InUse'
    BY <1>5 DEF Become, InUse
  <2> QED
    BY <1>5, <2>1 DEF Goes, RootInv, InSync
<1> QED
  BY <1>3, <1>4, <1>5

LEMMA KillKeeps ==
  ASSUME RootInv, Kill
  PROVE  Goes
<1>1. ~InUse' /\ UNCHANGED myfilesys
  BY DEF Kill, Gone, InUse
<1> QED
  BY <1>1 DEF Goes, RootInv, InSync

\* The table as startsys() makes it.
StartTable(root) ==
  [fd \in Fd |-> IF fd = 0 THEN [Closed EXCEPT !.fcb = root, !.topenfile = TRUE] ELSE Closed]

OpenedWith(e, f, t) == [e EXCEPT !.fcb = f, !.topenfile = t]

LEMMA OpenSet ==
  ASSUME NEW f, NEW d, NEW r, NEW x, NEW t, NEW g, NEW y
  PROVE  OpenedWith(EntryWith(f, d, r, x, t), g, y) = EntryWith(g, d, r, x, y)
<1> DEFINE e1 == EntryWith(f, d, r, x, t)
           e2 == EntryWith(g, d, r, x, t)
<1>1. [e1 EXCEPT !.fcb = g] = e2
  BY DEF EntryWith
<1>2. [e2 EXCEPT !.topenfile = y] = EntryWith(g, d, r, x, y)
  BY DEF EntryWith
<1> HIDE DEF e1, e2
<1>3. [e1 EXCEPT !.fcb = g, !.topenfile = y] = EntryWith(g, d, r, x, y)
  BY <1>1, <1>2
<1> QED
  BY <1>3 DEF OpenedWith, e1

LEMMA StartsOk ==
  ASSUME NEW root, FcbOk(root), root.first = Root, root.directory, root.filename = "."
  PROVE  TableInv(StartTable(root), 0) /\ StartTable(root)[0].fcb = root
<1> DEFINE e == [fcb |-> root, diroff |-> 0, father |-> 0, fcbstate |-> FALSE, topenfile |-> TRUE]
           o == StartTable(root)
<1>1. [Closed EXCEPT !.fcb = root, !.topenfile = TRUE] = e
  <2> DEFINE yes == TRUE
             no  == FALSE
             cl  == Closed
  <2>1. cl = EntryWith(NoFcb, 0, 0, no, no) /\ e = EntryWith(root, 0, 0, no, yes)
    BY Zenon DEF Closed, EntryWith
  <2>2. OpenedWith(cl, root, yes) = [Closed EXCEPT !.fcb = root, !.topenfile = TRUE]
    BY Zenon DEF OpenedWith
  <2> HIDE DEF yes, no, cl, e
  <2>3. OpenedWith(EntryWith(NoFcb, 0, 0, no, no), root, yes) = EntryWith(root, 0, 0, no, yes)
    BY OpenSet
  <2> QED
    BY <2>1, <2>2, <2>3, Zenon
<1>2. o[0] = e /\ \A fd \in Fd : fd # 0 => o[fd] = Closed
  <2> HIDE DEF e
  <2> QED
    BY <1>1, Places DEF StartTable
<1>3. o \in [Fd -> OpenType]
  <2>1. e \in OpenType
    BY Places DEF OpenType, FcbOk
  <2>2. o = [fd \in Fd |-> IF fd = 0 THEN e ELSE Closed]
    <3> HIDE DEF e
    <3> QED
      BY <1>1 DEF StartTable
  <2> HIDE DEF e, o
  <2> QED
    BY <2>1, <2>2, ClosedOk
<1>4. /\ e.fcb = root /\ e.father = 0 /\ e.topenfile
  OBVIOUS
<1> HIDE DEF e, o
<1>5. \A fd \in Fd : FcbOk(o[fd].fcb) /\ (o[fd].topenfile <=> fd = 0)
  BY <1>2, <1>4, ClosedOk
<1>6. Ordered(o, 0)
  <2> DEFINE r == [fd \in Fd |-> 0]
  <2>1. r \in [Fd -> Nat] /\ \A fd \in Fd : r[fd] = 0
    OBVIOUS
  <2> HIDE DEF r
  <2>2. Depths(o, 0, r)
    BY <1>5, <2>1, Places DEF Depths
  <2> QED
    BY <1>2, <1>4, <2>2 DEF Ordered
<1>7. TableInv(o, 0)
  BY <1>2, <1>3, <1>4, <1>5, <1>6, Places DEF TableInv
<1> QED
  BY <1>2, <1>4, <1>7 DEF o

LEMMA StartKeeps ==
  ASSUME RootInv, startsys
  PROVE  Goes
<1> DEFINE h == myfilesys.image
           u == h.block[Root][0]
           root == u[2]
<1>1. DiscInv(h)
  BY DEF RootInv
<1>2. UnitOk(u) /\ IsDot(u)
  BY <1>1, Places DEF DiscInv, UnitsOk
<1>3. FcbOk(root) /\ root.first = Root /\ root.directory /\ root.filename = "."
  BY <1>2 DEF UnitOk, IsDot
<1>4. /\ myvhard' = h /\ myfilesys' = myfilesys /\ curdir' = 0
      /\ openfilelist' = StartTable(root)
  BY DEF startsys, StartTable
<1> HIDE DEF root
<1>5. TableInv(StartTable(root), 0) /\ StartTable(root)[0].fcb = root
  BY <1>3, StartsOk
<1>6. RootInv'
  BY <1>1, <1>4, <1>5 DEF RootInv
<1>7. InSync'
  <2>1. myvhard'.block[Root][0][2] = openfilelist'[0].fcb
    BY <1>4, <1>5 DEF root
  <2> QED
    BY <2>1 DEF InSync, Synced
<1> QED
  BY <1>6, <1>7 DEF Goes

-----------------------------------------------------------------------------
(* The disc as my_format() makes it.                                       *)

LEMMA Formatted == DiscInv(my_format)
<1> DEFINE fat == [b \in Block |-> CASE b = Root -> Root + 1
                                     [] b \in FirstData .. Blocks - 1 -> FREE
                                     [] OTHER -> END]
           dot(name) == Fcb(name, TRUE, Root, 2 * FCBSIZE)
           units == Units(dot(".")) \o Units(dot(".."))
           block == [b \in Block |-> [j \in Unit |->
                       IF b = Root /\ j + 1 \in DOMAIN units THEN units[j + 1] ELSE Zero]]
           h == my_format
<1>1. h = [block |-> block, fat1 |-> fat, fat2 |-> fat]
  BY DEF my_format
<1>2. fat \in FatType
  <2>1. ASSUME NEW b \in Block PROVE fat[b] \in {FREE, END} \union (Root + 1 .. Blocks - 1)
    <3>1. Root + 1 \in Root + 1 .. Blocks - 1
      BY Sizes
    <3> QED
      BY <3>1
  <2> HIDE DEF fat
  <2>2. fat = [b \in Block |-> fat[b]]
    BY DEF fat
  <2> QED
    BY <2>1, <2>2 DEF FatType
<1> DEFINE yes == TRUE
           two == 2 * FCBSIZE
           one == dot(".")
           other == dot("..")
<1>3. /\ FcbWith(one, ".", yes, Root, two) /\ FcbWith(other, "..", yes, Root, two)
      /\ two \in Nat /\ yes /\ two >= 2 * FCBSIZE
  <2>1. /\ "." \in Given \union Dots \union {""} /\ ".." \in Given \union Dots \union {""}
        /\ yes \in BOOLEAN /\ Root \in Block /\ two \in Nat
    BY Sizes, Places DEF Dots
  <2>2. one = Fcb(".", yes, Root, two) /\ other = Fcb("..", yes, Root, two)
    OBVIOUS
  <2>5. yes
    BY DEF yes
  <2>6. two >= 2 * FCBSIZE
    BY Sizes DEF two
  <2> HIDE DEF one, other, yes, two
  <2>3. FcbWith(Fcb(".", yes, Root, two), ".", yes, Root, two)
    BY <2>1, FcbMade
  <2>4. FcbWith(Fcb("..", yes, Root, two), "..", yes, Root, two)
    BY <2>1, FcbMade
  <2> QED
    BY <2>1, <2>2, <2>3, <2>4, <2>5, <2>6
<1> HIDE DEF yes, two
<1>4. FcbOk(one) /\ FcbOk(other)
  BY <1>3, Names DEF FcbWith, FcbOk
<1> DEFINE u1 == Units(one)
           u2 == Units(other)
<1>5. units = u1 \o u2
  OBVIOUS
<1> HIDE DEF one, other
<1>6. /\ Len(u1) = FCBSIZE /\ Len(u2) = FCBSIZE
      /\ u1[1] = <<"fcb", one, 1>> /\ u2[1] = <<"fcb", other, 1>>
      /\ \A k \in 1 .. FCBSIZE : UnitOk(u1[k]) /\ UnitOk(u2[k])
  <2>1. Writable(u1) /\ Len(u1) = FCBSIZE /\ u1[1] = <<"fcb", one, 1>>
    BY <1>4, FcbUnits
  <2>2. Writable(u2) /\ Len(u2) = FCBSIZE /\ u2[1] = <<"fcb", other, 1>>
    BY <1>4, FcbUnits
  <2>3. \A k \in 1 .. FCBSIZE : UnitOk(u1[k])
    BY <2>1, WritableUnits
  <2>4. \A k \in 1 .. FCBSIZE : UnitOk(u2[k])
    BY <2>2, WritableUnits
  <2> QED
    BY <2>1, <2>2, <2>3, <2>4
<1> HIDE DEF u1, u2
<1>7. /\ FCBSIZE \in Nat /\ FCBSIZE > 0 /\ BLOCKSIZE \in Nat /\ BLOCKSIZE >= 2 * FCBSIZE
      /\ 0 \in Unit /\ FCBSIZE \in Unit /\ Root \in Block
  BY Sizes, Places
<1> HIDE DEF units
<1>8. /\ DOMAIN units = 1 .. FCBSIZE + FCBSIZE
      /\ \A k \in 1 .. FCBSIZE + FCBSIZE : units[k] = IF k <= FCBSIZE THEN u1[k] ELSE u2[k - FCBSIZE]
  <2>1. PICK U1 : u1 \in Seq(U1)
    BY <1>4, FcbUnits DEF Writable, u1
  <2>2. PICK U2 : u2 \in Seq(U2)
    BY <1>4, FcbUnits DEF Writable, u2
  <2> DEFINE U == U1 \union U2
  <2>3. u1 \in Seq(U) /\ u2 \in Seq(U)
    BY <2>1, <2>2, SeqMonotonic
  <2> HIDE DEF U
  <2> DEFINE v == u1 \o u2
  <2>4. /\ v \in Seq(U) /\ Len(v) = Len(u1) + Len(u2)
        /\ \A k \in 1 .. Len(u1) + Len(u2) : v[k] = IF k <= Len(u1) THEN u1[k] ELSE u2[k - Len(u1)]
    BY <2>3, ConcatProperties, Zenon
  <2> HIDE DEF v
  <2>5. /\ units \in Seq(U) /\ Len(units) = FCBSIZE + FCBSIZE
        /\ \A k \in 1 .. FCBSIZE + FCBSIZE : units[k] = IF k <= FCBSIZE THEN u1[k] ELSE u2[k - FCBSIZE]
    BY <1>5, <1>6, <2>4 DEF v
  <2> QED
    BY <2>5, LenProperties
<1>9. ASSUME NEW k \in DOMAIN units PROVE UnitOk(units[k])
  <2>1. k \in 1 .. FCBSIZE + FCBSIZE /\ units[k] = IF k <= FCBSIZE THEN u1[k] ELSE u2[k - FCBSIZE]
    BY <1>8, <1>9
  <2> QED
    BY <1>6, <1>7, <2>1
<1>10. UnitOk(Zero)
  <2>1. "zero" # "fcb"
    OBVIOUS
  <2> QED
    BY <2>1 DEF UnitOk, Zero
<1>11. ASSUME NEW b \in Block, NEW j \in Unit PROVE UnitOk(block[b][j])
  BY <1>9, <1>10
<1>12. block[Root][0] = <<"fcb", one, 1>> /\ block[Root][FCBSIZE] = <<"fcb", other, 1>>
  <2>1. 0 + 1 \in DOMAIN units /\ FCBSIZE + 1 \in DOMAIN units
    BY <1>7, <1>8
  <2>2. units[0 + 1] = u1[1] /\ units[FCBSIZE + 1] = u2[1]
    BY <1>7, <1>8
  <2>3. block[Root][0] = units[0 + 1] /\ block[Root][FCBSIZE] = units[FCBSIZE + 1]
    BY <1>7, <2>1
  <2> HIDE DEF block
  <2> QED
    BY <1>6, <2>2, <2>3
<1> HIDE DEF block, fat, h
<1>13. h.block = block /\ h.fat1 = fat /\ h.fat2 = fat
  BY <1>1
<1>14. FatsOf(h, h)
  BY <1>1, <1>2, <1>13 DEF FatsOf
<1>15. UnitsOk(h)
  BY <1>11, <1>13 DEF UnitsOk
<1>16. IsDot(h.block[Root][0]) /\ IsDotDot(h.block[Root][FCBSIZE])
  <2>1. one.filename = "." /\ one.first = Root /\ one.directory /\ one.free = 1
        /\ other.filename = ".." /\ other.free = 1
    BY <1>3 DEF FcbWith
  <2> QED
    BY <1>12, <1>13, <2>1 DEF IsDot, IsDotDot
<1>17. DiscInv(h)
  BY <1>14, <1>15, <1>16 DEF DiscInv
<1> QED
  BY <1>17 DEF h

-----------------------------------------------------------------------------
(* The root directory and the open files.                                  *)

LEMMA StepKeeps ==
  ASSUME RootInv, Next
  PROVE  RootInv' /\ (Goes \/ (curdir = 0 /\ \E n \in Name : my_mkdir(n)))
<1>1. CASE startsys \/ Kill \/ my_exitsys
  BY <1>1, StartKeeps, KillKeeps, ExitKeeps DEF Goes
<1>2. ASSUME NEW n \in Name, cd_down(n) \/ open(n) \/ my_create(n) \/ my_rm(n) \/ my_rmdir(n) PROVE Goes
  BY <1>2, CdDownKeeps, OpenCommandKeeps, CreateKeeps, RmKeeps, RmdirKeeps
<1>3. ASSUME NEW n \in Name, my_mkdir(n) PROVE RootInv' /\ (curdir # 0 => Goes)
  BY <1>3, MkdirKeeps
<1>5. CASE cd_up \/ cd_root \/ close \/ ReadTooLong
  BY <1>5, CdUpKeeps, CdRootKeeps, CloseCommandKeeps, ReadTooLongKeeps DEF Goes
<1>6. ASSUME NEW style, NEW line \in Lines \union {<<>>}, my_write(style, line) PROVE Goes
  BY <1>6, WriteKeeps
<1>7. Goes => RootInv'
  BY DEF Goes
<1> QED
  BY <1>1, <1>2, <1>3, <1>5, <1>6, <1>7 DEF Next

LEMMA StutterKeeps ==
  ASSUME RootInv, UNCHANGED vars
  PROVE  RootInv'
BY DEF RootInv, InUse, vars

LEMMA InitOk == Init => RootInv
BY Formatted DEF Init, RootInv, InUse

\* After any commands, exits, kills and restarts, the FATs and every FCB on the
\* disc and in its file are in order, the root directory begins with its own
\* entries, and the table of open files is a way from the root to curdir: the
\* invariant from which the theorems below follow.
THEOREM DiscCorrect == Spec => []RootInv
<1>1. RootInv /\ [Next]_vars => RootInv'
  BY StepKeeps, StutterKeeps
<1> QED
  BY <1>1, InitOk, PTL DEF Spec

\* The root's own entries stay where startsys() and the commands look for
\* them, and no chain of blocks leads to them or off the disc.
THEOREM RootIsFoundAlways == Spec => []RootIsFound
<1>1. RootInv => RootIsFound
  BY RootKept DEF RootInv, RootIsFound
<1> QED
  BY <1>1, DiscCorrect, PTL

\* The open files are those that my_close() goes back to from curdir, up to
\* the root: no entry of the table is lost.
THEOREM OnTheWayUpAlways == Spec => []OnTheWayUp
<1>1. RootInv => OnTheWayUp
  <2> SUFFICES ASSUME RootInv, InUse PROVE OnTheWayUp
    BY DEF OnTheWayUp
  <2> DEFINE way == CHOOSE w : UpFrom(openfilelist, curdir, w)
  <2>1. UpFrom(openfilelist, curdir, way)
    <3>1. \E w : UpFrom(openfilelist, curdir, w)
      BY WayFound
    <3> QED
      BY <3>1, Zenon
  <2>2. WayIs(openfilelist, curdir)
    BY WayUp DEF RootInv
  <2> HIDE DEF way
  <2>3. /\ way[MAXOPENFILE] = 0
        /\ {fd \in Fd : openfilelist[fd].topenfile} = {way[n] : n \in 0 .. MAXOPENFILE}
    BY <2>1, <2>2 DEF WayIs
  <2> QED
    BY <2>3, Zenon DEF OnTheWayUp, way, UpFrom, WayNext
<1> QED
  BY <1>1, DiscCorrect, PTL

-----------------------------------------------------------------------------
(* The files and directories on the disc: each with its entry, its blocks  *)
(* and its text, as the witness w of the invariant names them.             *)

Character == UNION {ToSet(l) : l \in Lines}

\* An FCB with a name of the user's.
Live(u) == u[1] = "fcb" /\ u[2].filename \in Given

\* c is a whole chain of blocks, no block twice.
IsChain(fat, c, first) ==
  /\ c \in Seq(Block) /\ Len(c) >= 1 /\ c[1] = first
  /\ \A i \in 1 .. Len(c) : c[i] >= Root
  /\ \A i, j \in 1 .. Len(c) : c[i] = c[j] => i = j
  /\ \A i \in 1 .. Len(c) - 1 : fat[c[i]] = c[i + 1]
  /\ fat[c[Len(c)]] = END

\* Unit p of the file that begins in block g, and how many it has room for.
Cell(h, g, p) == h.block[Chain(h, g)[p \div BLOCKSIZE + 1]][p % BLOCKSIZE]
Room(h, g) == Len(Chain(h, g)) * BLOCKSIZE

EntryOf(u) == IF u[1] = "fcb" THEN u[2] ELSE NoFcb
Entry(h, d, i) == EntryOf(Cell(h, d, i * FCBSIZE))

\* The files and directories, each named by its first block: w.heads, of which
\* w.dirs are directories.  File g is entry w.at[g] of directory w.up[g]; its
\* length is w.length[g]; w.above[g] are the directories it is in.  What a
\* command has under way: w.orphans have no entry yet, the entries w.holes are
\* out of use, the directories w.raw have not got their two entries yet.
Heads(w) == w.heads \union w.orphans

WitnessType(w) ==
  /\ w.heads \subseteq Block /\ w.dirs \subseteq w.heads /\ Root \in w.dirs
  /\ w.orphans \subseteq Block /\ w.orphans \intersect w.heads = {}
  /\ w.up \in [Block -> Block] /\ w.at \in [Block -> Nat] /\ w.length \in [Block -> Nat]
  /\ w.above \in [Block -> SUBSET Block] /\ w.depth \in [Block -> Nat]

ChainsInv(h, X) ==
  /\ \A g \in X : IsChain(h.fat1, Chain(h, g), g)
  /\ \A g, k \in X : g # k => ToSet(Chain(h, g)) \intersect ToSet(Chain(h, k)) = {}
  /\ \A b \in Block : b >= Root /\ h.fat1[b] # FREE => \E g \in X : b \in ToSet(Chain(h, g))

LagInv(h, w) ==
  \A b \in Block : h.fat1[b] # h.fat2[b] =>
    h.fat1[b] = END /\ h.fat2[b] = FREE /\ b \in Heads(w) \ w.dirs

\* Where an FCB with a user's name is on the disc.
AtPlace(w, f, d, p) ==
  f.first \in w.heads \ {Root} /\ w.up[f.first] = d /\ w.at[f.first] = p \div FCBSIZE

UnitsInv(h, w) ==
  /\ \A b \in Block, j \in Unit : b >= FirstData /\ h.fat1[b] = FREE => ~Live(h.block[b][j])
  /\ \A g \in Heads(w) : \A p \in 0 .. Room(h, g) - 1 :
       Live(Cell(h, g, p)) => AtPlace(w, Cell(h, g, p)[2], g, p) \/ <<g, p \div FCBSIZE>> \in w.holes

EntryIs(f, g, isdir) ==
  /\ f.filename \in Given /\ f.first = g /\ f.free = 1 /\ f.directory = isdir
  /\ f.exname = IF isdir THEN "" ELSE "x"

PlacesInv(h, w) ==
  \A g \in w.heads \ {Root} :
    /\ w.up[g] \in w.dirs /\ w.at[g] >= 2 /\ (w.at[g] + 1) * FCBSIZE <= w.length[w.up[g]]
    /\ EntryIs(Entry(h, w.up[g], w.at[g]), g, g \in w.dirs)

SizesInv(h, w) ==
  \A d \in w.dirs : w.length[d] <= Room(h, d) /\ \E m \in Nat : m >= 2 /\ w.length[d] = m * FCBSIZE

Filled(h, d) == Entry(h, d, 0).free = 1 /\ Entry(h, d, 1).free = 1

NameOf(h, w, g) == Entry(h, w.up[g], w.at[g]).filename

\* A directory has its two entries; if my_mkdir() could not open it, then
\* because another of its name is above it, and it is never opened.
FilledInv(h, w) ==
  \A d \in w.dirs \ ({Root} \union w.raw) :
    Filled(h, d) \/ \E a \in w.above[w.up[d]] \ {Root} : NameOf(h, w, a) = NameOf(h, w, d)

AboveInv(w) ==
  /\ w.above[Root] = {}
  /\ \A g \in w.heads \ {Root} :
       w.above[g] = w.above[w.up[g]] \union {w.up[g]} /\ w.depth[g] <= MAXOPENFILE
  /\ \A g \in w.heads : w.depth[g] = Cardinality(w.above[g])
  /\ \A g \in w.heads : \A a \in w.above[g] :
       /\ a \in w.dirs /\ w.depth[a] < w.depth[g]
       /\ \E c \in w.heads \ {Root} : w.up[c] = a /\ (c = g \/ c \in w.above[g])

SameButLength(f, e) ==
  /\ f.filename = e.filename /\ f.exname = e.exname /\ f.directory = e.directory
  /\ f.first = e.first /\ f.free = e.free

IsOpen(o, g) == \E fd \in Fd : o[fd].topenfile /\ o[fd].fcb.first = g

\* An open file is one of the tree's, and a directory is opened only when it
\* has its two entries.
OpenHead(h, w, f) ==
  /\ f.first \in w.heads /\ w.length[f.first] = f.length
  /\ f.first \in w.dirs \ w.raw => Filled(h, f.first)

OpenEntry(h, w, e, father) ==
  LET g     == e.fcb.first
      entry == Entry(h, w.up[g], w.at[g])
  IN  /\ g # Root /\ w.up[g] = father.fcb.first /\ w.at[g] = e.diroff
      /\ SameButLength(e.fcb, entry)
      /\ e.fcbstate \/ e.fcb.length \in {entry.length, 0}

OpenAbove(o, cur) == {o[fd].fcb.first : fd \in {fd \in Fd : o[fd].topenfile /\ fd # cur}}

ClosedLengths(h, o, w) ==
  \A g \in w.heads \ {Root} : ~IsOpen(o, g) => Entry(h, w.up[g], w.at[g]).length = w.length[g]

OpenInv(h, o, cur, w) ==
  /\ \A fd \in Fd : IF o[fd].topenfile THEN OpenHead(h, w, o[fd].fcb) ELSE o[fd] = Closed
  /\ \A fd \in Fd \ {0} : o[fd].topenfile => OpenEntry(h, w, o[fd], o[o[fd].father])
  /\ \A fd, g \in Fd : o[fd].topenfile /\ o[g].topenfile /\ o[fd].fcb.first = o[g].fcb.first => fd = g
  /\ OpenAbove(o, cur) = w.above[o[cur].fcb.first]
  /\ ClosedLengths(h, o, w)

TextInv(h, txt, w) ==
  /\ txt \in [Block -> Seq(Character)]
  /\ \A g \in w.heads \ w.dirs :
       /\ Len(txt[g]) = w.length[g] /\ w.length[g] <= Room(h, g)
       /\ \A p \in 0 .. w.length[g] - 1 : Cell(h, g, p) = <<"char", txt[g][p + 1], 0>>

DiscFiles(h, txt, w) ==
  /\ WitnessType(w) /\ ChainsInv(h, Heads(w)) /\ LagInv(h, w) /\ UnitsInv(h, w) /\ PlacesInv(h, w)
  /\ SizesInv(h, w) /\ FilledInv(h, w) /\ AboveInv(w) /\ TextInv(h, txt, w)

FilesInv(h, o, cur, txt, w) == DiscFiles(h, txt, w) /\ OpenInv(h, o, cur, w)

AtRest(w) == w.orphans = {} /\ w.holes = {} /\ w.raw = {}

-----------------------------------------------------------------------------
(* Chains of blocks.                                                       *)

LEMMA ToSetOf ==
  ASSUME NEW S, NEW c \in Seq(S)
  PROVE  ToSet(c) = {c[i] : i \in 1 .. Len(c)}
BY LenProperties DEF ToSet

LEMMA ChainLength ==
  ASSUME NEW fat, NEW first, NEW c, IsChain(fat, c, first)
  PROVE  /\ c \in Seq(Block) /\ Len(c) \in Nat /\ Len(c) >= 1 /\ Len(c) <= Blocks
         /\ \A i \in 1 .. Len(c) : c[i] \in Block
         /\ first \in Block /\ c[1] = first /\ first >= Root
<1>1. c \in Seq(Block) /\ Len(c) >= 1 /\ c[1] = first
  BY DEF IsChain
<1>2. Len(c) \in Nat /\ c \in [1 .. Len(c) -> Block]
  BY <1>1, LenProperties
<1>3. c \in Injection(1 .. Len(c), Block)
  BY <1>2 DEF IsChain, Injection, IsInjective
<1>4. IsFiniteSet(Block) /\ Cardinality(Block) = Blocks /\ Cardinality(1 .. Len(c)) = Len(c)
  <2>1. 0 \in Int /\ Blocks - 1 \in Int /\ 1 \in Int /\ Len(c) \in Int /\ Blocks - 1 >= 0 /\ Blocks \in Nat
    BY <1>2, Sizes
  <2>2. IsFiniteSet(0 .. Blocks - 1) /\ Cardinality(0 .. Blocks - 1) = Blocks
    BY <2>1, FS_Interval
  <2>3. Cardinality(1 .. Len(c)) = Len(c)
    BY <1>2, <2>1, FS_Interval
  <2> QED
    BY <2>2, <2>3 DEF Block
<1>5. Cardinality(1 .. Len(c)) <= Cardinality(Block)
  BY <1>3, <1>4, FS_Injection
<1>6. c[1] \in Block /\ c[1] >= Root
  BY <1>1, <1>2 DEF IsChain
<1> QED
  BY <1>1, <1>2, <1>4, <1>5, <1>6

\* The loops over the FAT meet just the chain.
LEMMA ChainIs ==
  ASSUME NEW h, NEW first, NEW c, IsChain(h.fat1, c, first)
  PROVE  Chain(h, first) = c
<1>1. PICK x : /\ x[0] = <<first>> /\ \A k \in 1 .. Blocks : x[k] = ChainNext(h, x[k - 1])
               /\ Chain(h, first) = x[Blocks]
  BY ChainFound, Zenon
<1> DEFINE m == Len(c)
           Upto(k) == IF k + 1 <= m THEN k + 1 ELSE m
           Part(k) == /\ x[k] \in Seq(Block) /\ Len(x[k]) = Upto(k)
                      /\ \A i \in 1 .. Upto(k) : x[k][i] = c[i]
           S == {k \in 0 .. Blocks : Part(k)}
<1>2. /\ m \in Nat /\ m >= 1 /\ m <= Blocks /\ c \in Seq(Block) /\ c[1] = first
      /\ \A i \in 1 .. m : c[i] \in Block
  BY ChainLength
<1>3. /\ \A i \in 1 .. m - 1 : h.fat1[c[i]] = c[i + 1]
      /\ h.fat1[c[m]] = END
  BY DEF IsChain
<1> HIDE DEF m
<1>4. 0 \in S
  <2>1. first \in Block /\ Upto(0) = 1
    BY <1>2
  <2>2. <<first>> \in Seq(Block) /\ Len(<<first>>) = 1 /\ <<first>>[1] = first
    BY <2>1
  <2>3. Part(0)
    BY <1>1, <1>2, <2>1, <2>2
  <2> QED
    BY <2>3, Sizes
<1>5. ASSUME NEW k \in 1 .. Blocks, k - 1 \in S PROVE k \in S
  <2> DEFINE y == x[k - 1]
             u == Upto(k - 1)
  <2>1. /\ y \in Seq(Block) /\ Len(y) = u /\ \A i \in 1 .. u : y[i] = c[i]
    BY <1>5
  <2>2. u \in 1 .. m /\ k \in 0 .. Blocks
    BY <1>2
  <2>3. Last(y) = c[u]
    BY <2>1, <2>2 DEF Last
  <2>4. x[k] = ChainNext(h, y)
    BY <1>1
  <2> HIDE DEF y
  <2>5. CASE k + 1 <= m
    <3>1. u = k /\ u \in 1 .. m - 1 /\ Upto(k) = k + 1
      BY <1>2, <2>5
    <3>2. h.fat1[Last(y)] = c[k + 1] /\ c[k + 1] \in Block
      BY <1>2, <1>3, <2>2, <2>3, <2>5, <3>1
    <3>3. c[k + 1] # END
      BY <3>2, Sizes DEF Block
    <3>4. x[k] = Append(y, c[k + 1])
      BY <2>4, <3>2, <3>3 DEF ChainNext
    <3>5. x[k] \in Seq(Block) /\ Len(x[k]) = k + 1 /\ \A i \in 1 .. k : x[k][i] = y[i]
          /\ x[k][k + 1] = c[k + 1]
      BY <2>1, <3>1, <3>2, <3>4, AppendProperties
    <3>6. ASSUME NEW i \in 1 .. k + 1 PROVE x[k][i] = c[i]
      <4>1. i \in 1 .. k \/ i = k + 1
        OBVIOUS
      <4>2. CASE i \in 1 .. k
        <5>1. x[k][i] = y[i]
          BY <3>5, <4>2
        <5>2. y[i] = c[i]
          BY <2>1, <3>1, <4>2
        <5> QED
          BY <5>1, <5>2
      <4>3. CASE i = k + 1
        BY <3>5, <4>3
      <4> QED
        BY <4>1, <4>2, <4>3
    <3>7. Part(k)
      BY <3>1, <3>5, <3>6
    <3> QED
      BY <2>2, <3>7
  <2>6. CASE ~(k + 1 <= m)
    <3>1. u = m /\ Upto(k) = m
      BY <1>2, <2>6
    <3>2. x[k] = y
      BY <1>3, <2>3, <2>4, <3>1 DEF ChainNext
    <3>3. Part(k)
      BY <2>1, <3>1, <3>2
    <3> QED
      BY <2>2, <3>3
  <2> QED
    BY <2>5, <2>6
<1>6. Part(Blocks)
  <2>1. Blocks \in Nat /\ Blocks \in 0 .. Blocks
    BY Sizes
  <2> HIDE DEF S
  <2>2. Blocks \in S
    BY <1>4, <1>5, <2>1, Induction
  <2> QED
    BY <2>2 DEF S
<1>7. x[Blocks] = c
  <2>1. Upto(Blocks) = m
    BY <1>2, Sizes
  <2>2. x[Blocks] \in Seq(Block) /\ Len(x[Blocks]) = Len(c) /\ \A i \in 1 .. Len(x[Blocks]) : x[Blocks][i] = c[i]
    BY <1>6, <2>1 DEF m
  <2> QED
    BY <1>2, <2>2, SeqEqual
<1> QED
  BY <1>1, <1>7

OneChain(h, g) == IsChain(h.fat1, Chain(h, g), g)

LEMMA ChainFacts ==
  ASSUME NEW h, NEW g, OneChain(h, g)
  PROVE  LET c == Chain(h, g)
         IN  /\ c \in Seq(Block) /\ Len(c) \in Nat /\ Len(c) >= 1 /\ c[1] = g
             /\ g \in Block /\ g >= Root
             /\ ToSet(c) = {c[i] : i \in 1 .. Len(c)} /\ ToSet(c) \subseteq Block
             /\ \A i \in 1 .. Len(c) : c[i] \in Block /\ c[i] \in ToSet(c) /\ c[i] >= Root
             /\ g \in ToSet(c)
             /\ \A b \in ToSet(c) : b \in Block /\ b >= Root /\ h.fat1[b] # FREE
<1> DEFINE c == Chain(h, g)
<1>1. IsChain(h.fat1, c, g)
  BY DEF OneChain
<1> HIDE DEF c
<1>2. /\ c \in Seq(Block) /\ Len(c) \in Nat /\ Len(c) >= 1 /\ c[1] = g /\ g \in Block /\ g >= Root
      /\ \A i \in 1 .. Len(c) : c[i] \in Block
  BY <1>1, ChainLength
<1>3. ToSet(c) = {c[i] : i \in 1 .. Len(c)}
  BY <1>2, ToSetOf
<1>4. \A i \in 1 .. Len(c) : c[i] >= Root
  BY <1>1 DEF IsChain
<1>5. ASSUME NEW i \in 1 .. Len(c) PROVE h.fat1[c[i]] # FREE
  <2>1. CASE i = Len(c)
    BY <1>1, <2>1, Sizes DEF IsChain
  <2>2. CASE i # Len(c)
    <3>1. i \in 1 .. Len(c) - 1 /\ i + 1 \in 1 .. Len(c)
      BY <1>2, <2>2
    <3>2. h.fat1[c[i]] = c[i + 1] /\ c[i + 1] >= Root /\ c[i + 1] \in Block
      BY <1>1, <1>2, <1>4, <3>1 DEF IsChain
    <3> QED
      BY <3>2, Sizes DEF Block
  <2> QED
    BY <2>1, <2>2
<1>6. 1 \in 1 .. Len(c)
  BY <1>2
<1> QED
  BY <1>2, <1>3, <1>4, <1>5, <1>6 DEF c

\* A chain is what its own entries of the FAT say.
LEMMA SameChain ==
  ASSUME NEW h, NEW g, OneChain(h, g), NEW k, \A b \in ToSet(Chain(h, g)) : k.fat1[b] = h.fat1[b]
  PROVE  Chain(k, g) = Chain(h, g) /\ OneChain(k, g)
<1> DEFINE c == Chain(h, g)
<1>1. IsChain(h.fat1, c, g)
  BY DEF OneChain
<1>2. Len(c) \in Nat /\ Len(c) >= 1 /\ \A i \in 1 .. Len(c) : k.fat1[c[i]] = h.fat1[c[i]]
  BY ChainFacts
<1> HIDE DEF c
<1>3. IsChain(k.fat1, c, g)
  <2>1. /\ \A i \in 1 .. Len(c) - 1 : i \in 1 .. Len(c)
        /\ Len(c) \in 1 .. Len(c)
    BY <1>2
  <2> QED
    BY <1>1, <1>2, <2>1 DEF IsChain
<1>4. Chain(k, g) = c
  BY <1>3, ChainIs
<1> QED
  BY <1>3, <1>4 DEF OneChain, c

\* While the chain c of h grows: e is the chain now, p.at its first n + 1 blocks.
GrewBy(p, h, c, g, n, e) ==
  /\ IsChain(p.h.fat1, e, g)
  /\ Len(e) >= Len(c) /\ \A i \in 1 .. Len(c) : e[i] = c[i]
  /\ \A i \in 1 .. Len(e) : i > Len(c) => e[i] \in FreeBlocks(h)
  /\ Len(p.at) = n + 1 /\ n + 1 <= Len(e) /\ \A i \in 1 .. n + 1 : p.at[i] = e[i]
  /\ \A b \in Block : \/ p.h.fat1[b] = h.fat1[b] /\ p.h.fat2[b] = h.fat2[b]
                      \/ b \in ToSet(e) /\ p.h.fat1[b] = p.h.fat2[b]

Grew(p, h, c, g, n) == \E e : GrewBy(p, h, c, g, n, e)

\* One block more at the end of a chain.
LEMMA ChainAppend ==
  ASSUME NEW fat \in FatType, NEW e, NEW g, IsChain(fat, e, g), NEW b \in Block, b >= FirstData,
         fat[b] = FREE
  PROVE  LET k == [fat EXCEPT ![e[Len(e)]] = b, ![b] = END]
         IN  /\ IsChain(k, Append(e, b), g)
             /\ b \notin ToSet(e) /\ e[Len(e)] \in Block /\ e[Len(e)] # b
             /\ Append(e, b) \in Seq(Block) /\ Len(Append(e, b)) = Len(e) + 1
             /\ Append(e, b)[Len(e) + 1] = b /\ \A i \in 1 .. Len(e) : Append(e, b)[i] = e[i]
             /\ ToSet(e) \subseteq ToSet(Append(e, b)) /\ b \in ToSet(Append(e, b))
<1> DEFINE m == Len(e)
           last == e[m]
           k == [fat EXCEPT ![last] = b, ![b] = END]
           x == Append(e, b)
<1>1. /\ e \in Seq(Block) /\ m \in Nat /\ m >= 1 /\ e[1] = g
      /\ \A i \in 1 .. m : e[i] \in Block
  BY ChainLength
<1>2. /\ \A i \in 1 .. m : e[i] >= Root
      /\ \A i, j \in 1 .. m : e[i] = e[j] => i = j
      /\ \A i \in 1 .. m - 1 : fat[e[i]] = e[i + 1]
      /\ fat[last] = END
  BY DEF IsChain
<1>3. ToSet(e) = {e[i] : i \in 1 .. m}
  BY <1>1, ToSetOf
<1> HIDE DEF m
<1>4. ASSUME NEW i \in 1 .. m PROVE e[i] # b
  <2>1. CASE i = m
    BY <1>2, <2>1, Sizes
  <2>2. CASE i # m
    <3>1. i \in 1 .. m - 1 /\ i + 1 \in 1 .. m
      BY <1>1, <2>2
    <3>2. fat[e[i]] >= Root
      BY <1>2, <3>1
    <3> QED
      BY <3>2, Sizes
  <2> QED
    BY <2>1, <2>2
<1>5. last \in Block /\ last # b /\ m \in 1 .. m
  BY <1>1, <1>4
<1>6. x \in Seq(Block) /\ Len(x) = m + 1 /\ x[m + 1] = b /\ \A i \in 1 .. m : x[i] = e[i]
  BY <1>1, AppendProperties DEF m
<1>7. ToSet(x) = {x[i] : i \in 1 .. m + 1}
  BY <1>6, ToSetOf
<1>8. /\ k[b] = END /\ k[last] = b
      /\ \A d \in Block : d # b /\ d # last => k[d] = fat[d]
  <2> HIDE DEF last
  <2> QED
    BY <1>5 DEF FatType
<1> HIDE DEF k, x
<1>9. ASSUME NEW i \in 1 .. m PROVE k[x[i]] = x[i + 1]
  <2>1. CASE i = m
    BY <1>6, <1>8, <2>1
  <2>2. CASE i # m
    <3>1. i \in 1 .. m - 1 /\ i + 1 \in 1 .. m
      BY <1>1, <2>2
    <3>2. x[i] = e[i] /\ x[i + 1] = e[i + 1] /\ fat[e[i]] = e[i + 1] /\ e[i] \in Block /\ e[i] # b
      BY <1>1, <1>2, <1>4, <1>6, <3>1
    <3>3. e[i] # last
      BY <1>2, <1>5, <2>2
    <3> QED
      BY <1>8, <3>2, <3>3
  <2> QED
    BY <2>1, <2>2
<1>10. \A i \in 1 .. m + 1 : i \in 1 .. m \/ i = m + 1
  BY <1>1
<1>11. \A i \in 1 .. m + 1 : x[i] >= Root
  <2>1. b >= Root
    BY Sizes DEF Block
  <2>2. \A i \in 1 .. m : x[i] >= Root
    BY <1>2, <1>6
  <2> QED
    BY <1>6, <1>10, <2>1, <2>2
<1>12. ASSUME NEW i \in 1 .. m + 1, NEW j \in 1 .. m + 1, x[i] = x[j] PROVE i = j
  <2>1. CASE i \in 1 .. m /\ j \in 1 .. m
    BY <1>2, <1>6, <1>12, <2>1
  <2>2. CASE i \in 1 .. m /\ j = m + 1
    BY <1>4, <1>6, <1>12, <2>2
  <2>3. CASE i = m + 1 /\ j \in 1 .. m
    BY <1>4, <1>6, <1>12, <2>3
  <2> QED
    BY <1>10, <2>1, <2>2, <2>3
<1>13. IsChain(k, x, g)
  <2>1. 1 \in 1 .. m /\ (m + 1) - 1 = m
    BY <1>1
  <2>2. x[1] = g /\ k[x[m + 1]] = END /\ Len(x) >= 1
    BY <1>1, <1>6, <1>8, <2>1
  <2> QED
    BY <1>6, <1>9, <1>11, <1>12, <2>1, <2>2 DEF IsChain
<1>14. ToSet(e) \subseteq ToSet(x) /\ b \in ToSet(x)
  <2>1. m + 1 \in 1 .. m + 1 /\ \A i \in 1 .. m : i \in 1 .. m + 1
    BY <1>1
  <2> QED
    BY <1>3, <1>6, <1>7, <2>1
<1>15. b \notin ToSet(e)
  BY <1>3, <1>4
<1> QED
  BY <1>5, <1>6, <1>13, <1>14, <1>15 DEF m, k, x, last

LEMMA GrewOn ==
  ASSUME NEW h, FatsOf(h, h), NEW c, NEW g, NEW n \in Nat,
         NEW p, Growth(p, h, g), Grew(p, h, c, g, n), Len(c) \in Nat,
         NEW q, q = GrowNext(p), ~p.full, ~q.full
  PROVE  Grew(q, h, c, g, n + 1)
<1> DEFINE last == Last(p.at)
           b == findblock(p.h)
           f1 == p.h.fat1
           f2 == p.h.fat2
<1>1. PICK e : GrewBy(p, h, c, g, n, e)
  BY DEF Grew
<1>2. /\ p = [h |-> p.h, at |-> p.at, full |-> p.full] /\ p.full \in BOOLEAN
      /\ p.at \in Seq(Block)
      /\ p.h = [block |-> h.block, fat1 |-> f1, fat2 |-> f2] /\ f1 \in FatType /\ f2 \in FatType
  BY DEF Growth, FatsOf, Walk
<1>3. /\ IsChain(f1, e, g) /\ Len(e) >= Len(c) /\ \A i \in 1 .. Len(c) : e[i] = c[i]
      /\ \A i \in 1 .. Len(e) : i > Len(c) => e[i] \in FreeBlocks(h)
      /\ Len(p.at) = n + 1 /\ n + 1 <= Len(e) /\ \A i \in 1 .. n + 1 : p.at[i] = e[i]
      /\ \A d \in Block : \/ f1[d] = h.fat1[d] /\ f2[d] = h.fat2[d]
                          \/ d \in ToSet(e) /\ f1[d] = f2[d]
  BY <1>1 DEF GrewBy
<1>4. /\ e \in Seq(Block) /\ Len(e) \in Nat /\ Len(e) >= 1 /\ e[1] = g
      /\ \A i \in 1 .. Len(e) : e[i] \in Block
  BY <1>3, ChainLength
<1>5. last = e[n + 1] /\ last \in Block
  <2>1. n + 1 \in 1 .. n + 1 /\ n + 1 \in 1 .. Len(e)
    BY <1>3, <1>4
  <2> QED
    BY <1>3, <1>4, <2>1 DEF Last
<1>6. ASSUME f1[last] # END PROVE Grew(q, h, c, g, n + 1)
  <2>1. n + 1 # Len(e)
    BY <1>3, <1>5, <1>6 DEF IsChain
  <2>2. n + 1 \in 1 .. Len(e) - 1 /\ n + 2 \in 1 .. Len(e)
    BY <1>3, <1>4, <2>1
  <2>3. f1[last] = e[n + 2] /\ e[n + 2] \in Block
    <3>1. (n + 1) + 1 = n + 2
      OBVIOUS
    <3> QED
      BY <1>3, <1>4, <1>5, <2>2, <3>1 DEF IsChain
  <2>4. q = [p EXCEPT !.at = Append(@, f1[last])]
    BY <1>6, Zenon DEF GrowNext
  <2>5. q = [h |-> p.h, at |-> Append(p.at, e[n + 2]), full |-> p.full]
    BY <1>2, <2>3, <2>4
  <2>6. q.h = p.h /\ q.at = Append(p.at, e[n + 2])
    BY <2>5
  <2>7. /\ Len(q.at) = (n + 1) + 1 /\ q.at[n + 2] = e[n + 2]
        /\ \A i \in 1 .. n + 1 : q.at[i] = p.at[i]
    BY <1>2, <1>3, <2>3, <2>6, AppendProperties
  <2>8. ASSUME NEW i \in 1 .. (n + 1) + 1 PROVE q.at[i] = e[i]
    <3>1. i \in 1 .. n + 1 \/ i = n + 2
      OBVIOUS
    <3> QED
      BY <1>3, <2>7, <3>1
  <2>9. (n + 1) + 1 <= Len(e)
    BY <1>4, <2>2
  <2>10. GrewBy(q, h, c, g, n + 1, e)
    BY <1>3, <2>6, <2>7, <2>8, <2>9 DEF GrewBy
  <2> QED
    BY <2>10 DEF Grew
<1>7. ASSUME f1[last] = END PROVE Grew(q, h, c, g, n + 1)
  <2>1. FreeBlocks(p.h) # {}
    <3>1. FreeBlocks(p.h) = {} => q = [p EXCEPT !.full = TRUE]
      BY <1>7, Zenon DEF GrowNext
    <3>2. q = [p EXCEPT !.full = TRUE] => q.full
      BY <1>2
    <3> QED
      BY <3>1, <3>2
  <2>2. n + 1 = Len(e)
    <3> SUFFICES ASSUME n + 1 # Len(e) PROVE FALSE
      OBVIOUS
    <3>1. n + 1 \in 1 .. Len(e) - 1 /\ (n + 1) + 1 \in 1 .. Len(e)
      BY <1>3, <1>4
    <3>2. f1[last] = e[(n + 1) + 1] /\ e[(n + 1) + 1] \in Block
      BY <1>3, <1>4, <1>5, <3>1 DEF IsChain
    <3>3. \A d \in Block : d # END
      BY Sizes DEF Block
    <3>4. f1[last] # END
      BY <3>2, <3>3
    <3> QED
      BY <1>7, <3>4
  <2>3. b \in FirstData .. Blocks - 1 /\ b \in Block /\ f1[b] = FREE
    <3>1. b \in FreeBlocks(p.h)
      <4>1. FreeBlocks(p.h) \subseteq Nat
        BY Sizes DEF FreeBlocks
      <4> QED
        BY <2>1, <4>1, MinFound, Zenon DEF findblock
    <3> HIDE DEF b
    <3> QED
      BY <3>1, Sizes DEF FreeBlocks, Block
  <2> DEFINE g1 == [f1 EXCEPT ![last] = b, ![b] = END]
             g2 == [f2 EXCEPT ![last] = b, ![b] = END]
             x == Append(e, b)
  <2>4. q = [p EXCEPT !.at = Append(@, b),
                      !.h.fat1 = [@ EXCEPT ![last] = b, ![b] = END],
                      !.h.fat2 = [@ EXCEPT ![last] = b, ![b] = END]]
    BY <1>7, <2>1, Zenon DEF GrowNext
  <2> HIDE DEF b, last
  <2>5. q.h.fat1 = g1 /\ q.h.fat2 = g2 /\ q.at = Append(p.at, b)
    <3>1. GrowthFields(p) /\ p.h.block = h.block
      BY <1>2 DEF GrowthFields
    <3>2. q = Regrown(p, Append(p.at, b), g1, g2)
      BY <2>4 DEF Regrown
    <3> HIDE DEF g1, g2
    <3>3. Regrown(p, Append(p.at, b), g1, g2) = Regrowth(p, Append(p.at, b), g1, g2)
      BY <3>1, GrownRecord
    <3> QED
      BY <3>2, <3>3 DEF Regrowth
  <2>6. /\ IsChain(g1, x, g) /\ b \notin ToSet(e) /\ last # b
        /\ x \in Seq(Block) /\ Len(x) = Len(e) + 1 /\ x[Len(e) + 1] = b
        /\ \A i \in 1 .. Len(e) : x[i] = e[i]
        /\ ToSet(e) \subseteq ToSet(x) /\ b \in ToSet(x)
    <3>1. e[Len(e)] = last /\ b >= FirstData
      BY <1>5, <2>2, <2>3, Sizes
    <3> HIDE DEF g1, x
    <3> QED
      BY <1>2, <1>3, <2>3, <3>1, ChainAppend, ZenonT(40) DEF g1, x
  <2>7. /\ g1[b] = END /\ g1[last] = b /\ g2[b] = END /\ g2[last] = b
        /\ \A d \in Block : d # b /\ d # last => g1[d] = f1[d] /\ g2[d] = f2[d]
    BY <1>2, <1>5, <2>3, <2>6 DEF FatType
  <2> HIDE DEF g1, g2, x
  <2>8. b \in FreeBlocks(h)
    <3>1. f1[b] = h.fat1[b]
      BY <1>3, <2>3, <2>6
    <3> QED
      BY <2>3, <3>1 DEF FreeBlocks
  <2>9. ASSUME NEW i \in 1 .. Len(x), i > Len(c) PROVE x[i] \in FreeBlocks(h)
    <3>1. i \in 1 .. Len(e) \/ i = Len(e) + 1
      BY <1>4, <2>6
    <3> QED
      BY <1>3, <2>6, <2>8, <2>9, <3>1
  <2>10. /\ Len(q.at) = (n + 1) + 1 /\ q.at[n + 2] = b
         /\ \A i \in 1 .. n + 1 : q.at[i] = p.at[i]
    BY <1>2, <1>3, <2>3, <2>5, AppendProperties
  <2>11. ASSUME NEW i \in 1 .. (n + 1) + 1 PROVE q.at[i] = x[i]
    <3>1. i \in 1 .. n + 1 \/ i = n + 2
      OBVIOUS
    <3>2. CASE i \in 1 .. n + 1
      BY <1>3, <2>2, <2>6, <2>10, <3>2
    <3>3. CASE i = n + 2
      <4>1. n + 2 = Len(e) + 1
        BY <2>2
      <4> QED
        BY <2>6, <2>10, <3>3, <4>1
    <3> QED
      BY <3>1, <3>2, <3>3
  <2>12. Len(x) >= Len(c) /\ (n + 1) + 1 <= Len(x) /\ \A i \in 1 .. Len(c) : x[i] = c[i]
    <3>1. \A i \in 1 .. Len(c) : i \in 1 .. Len(e)
      BY <1>3, <1>4
    <3> QED
      BY <1>3, <1>4, <2>2, <2>6, <3>1
  <2>13. ASSUME NEW d \in Block
         PROVE  \/ g1[d] = h.fat1[d] /\ g2[d] = h.fat2[d]
                \/ d \in ToSet(x) /\ g1[d] = g2[d]
    <3>1. last \in ToSet(x)
      <4>1. Len(e) \in 1 .. Len(e) /\ last = e[Len(e)]
        BY <1>4, <1>5, <2>2
      <4>2. last \in ToSet(e)
        BY <1>4, <4>1, ToSetOf
      <4> QED
        BY <2>6, <4>2
    <3>2. CASE d = b
      BY <2>6, <2>7, <3>2
    <3>3. CASE d = last
      BY <2>7, <3>1, <3>3
    <3>4. CASE d # b /\ d # last
      BY <1>3, <2>6, <2>7, <3>4
    <3> QED
      BY <3>2, <3>3, <3>4
  <2>14. GrewBy(q, h, c, g, n + 1, x)
    BY <2>5, <2>6, <2>9, <2>10, <2>11, <2>12, <2>13 DEF GrewBy
  <2> QED
    BY <2>14 DEF Grew
<1> QED
  BY <1>6, <1>7

LEMMA ChainGrew ==
  ASSUME NEW h, FatsOf(h, h), NEW g, OneChain(h, g), NEW n \in Nat, ~GrownChain(h, g, n).full
  PROVE  Grew(GrownChain(h, g, n), h, Chain(h, g), g, n)
<1> DEFINE c == Chain(h, g)
<1>1. PICK x : /\ x[0] = [h |-> h, at |-> <<g>>, full |-> FALSE]
               /\ \A k \in 1 .. n : x[k] = GrowNext(x[k - 1])
               /\ GrownChain(h, g, n) = x[n]
  BY GrownChainFound
<1>2. /\ c \in Seq(Block) /\ Len(c) \in Nat /\ Len(c) >= 1 /\ c[1] = g /\ g \in Block
      /\ IsChain(h.fat1, c, g)
  BY ChainFacts DEF OneChain
<1> HIDE DEF c
<1> DEFINE S == {k \in 0 .. n : Growth(x[k], h, g) /\ (x[k].full \/ Grew(x[k], h, c, g, k))}
<1>3. 0 \in S
  <2> DEFINE q == [h |-> h, at |-> <<g>>, full |-> FALSE]
  <2>1. q = [h |-> q.h, at |-> q.at, full |-> q.full] /\ q.full \in BOOLEAN
        /\ q.at = <<g>> /\ q.h = h
    OBVIOUS
  <2>2. Len(q.at) = 1 /\ q.at[1] = g
    BY <2>1
  <2> HIDE DEF q
  <2>3. Growth(q, h, g)
    BY <1>2, <2>1, WalkStarts DEF Growth
  <2>4. \A i \in 1 .. Len(c) : ~(i > Len(c))
    BY <1>2
  <2>5. 0 + 1 = 1 /\ \A i \in 1 .. 0 + 1 : i = 1
    OBVIOUS
  <2>6. GrewBy(q, h, c, g, 0, c)
    BY <1>2, <2>1, <2>2, <2>4, <2>5 DEF GrewBy
  <2>7. 0 \in 0 .. n /\ x[0] = q
    BY <1>1 DEF q
  <2> QED
    BY <2>3, <2>6, <2>7 DEF Grew
<1>4. ASSUME NEW k \in 1 .. n, k - 1 \in S PROVE k \in S
  <2>1. /\ Growth(x[k - 1], h, g) /\ x[k] = GrowNext(x[k - 1]) /\ k \in 0 .. n
        /\ x[k - 1].full \/ Grew(x[k - 1], h, c, g, k - 1)
    BY <1>1, <1>4
  <2>2. Growth(x[k], h, g)
    BY <2>1, GrowsOn
  <2>3. CASE x[k - 1].full
    <3>1. x[k] = x[k - 1]
      BY <2>1, <2>3, Zenon DEF GrowNext
    <3> QED
      BY <2>1, <2>2, <2>3, <3>1
  <2>4. CASE ~x[k - 1].full /\ ~x[k].full
    <3>1. k - 1 \in Nat /\ (k - 1) + 1 = k
      OBVIOUS
    <3>2. Grew(x[k], h, c, g, (k - 1) + 1)
      BY <1>2, <2>1, <2>4, <3>1, GrewOn
    <3> QED
      BY <2>1, <2>2, <3>1, <3>2
  <2>5. CASE x[k].full
    BY <2>1, <2>2, <2>5
  <2> QED
    BY <2>3, <2>4, <2>5
<1>5. n \in 0 .. n
  OBVIOUS
<1> HIDE DEF S
<1>6. n \in S
  BY <1>3, <1>4, <1>5, Induction
<1> QED
  BY <1>1, <1>6 DEF S, c

LEMMA RoomPlace ==
  ASSUME NEW m \in Nat, NEW p \in 0 .. m * BLOCKSIZE - 1
  PROVE  /\ p \in Nat /\ p \div BLOCKSIZE + 1 \in 1 .. m /\ p % BLOCKSIZE \in Unit
         /\ p = BLOCKSIZE * ((p \div BLOCKSIZE + 1) - 1) + (p % BLOCKSIZE)
<1> DEFINE q == p \div BLOCKSIZE
           r == p % BLOCKSIZE
<1>1. BLOCKSIZE \in Nat /\ BLOCKSIZE > 0
  BY Sizes
<1>2. m * BLOCKSIZE \in Nat
  BY <1>1, Times
<1>3. p \in Nat /\ p < m * BLOCKSIZE
  BY <1>2
<1>4. q \in Nat /\ r \in 0 .. BLOCKSIZE - 1 /\ p = q * BLOCKSIZE + r
  BY <1>1, <1>3, Quotient
<1> HIDE DEF q, r
<1>5. (m <= q => m * BLOCKSIZE <= q * BLOCKSIZE) /\ q * BLOCKSIZE \in Nat
  BY <1>1, <1>4, Times
<1>6. q < m
  BY <1>2, <1>3, <1>4, <1>5
<1>7. (q + 1) - 1 = q /\ BLOCKSIZE * q = q * BLOCKSIZE
  BY <1>1, <1>4
<1> QED
  BY <1>3, <1>4, <1>6, <1>7 DEF Unit, q, r

WrittenCell(h, k, g, count, units, p) ==
  IF p \in count .. count + Len(units) - 1 THEN Cell(k, g, p) = units[p - count + 1]
  ELSE IF p < Room(h, g) THEN Cell(k, g, p) = Cell(h, g, p)
  ELSE \E b \in FreeBlocks(h), j \in Unit : Cell(k, g, p) = h.block[b][j]

\* k is what a do_write() to file g makes of disc h.
ChainWritten(h, k, g, count, units) ==
  /\ OneChain(k, g) /\ Len(Chain(k, g)) >= Len(Chain(h, g))
  /\ ToSet(Chain(h, g)) \subseteq ToSet(Chain(k, g))
  /\ ToSet(Chain(k, g)) \subseteq ToSet(Chain(h, g)) \union FreeBlocks(h)
  /\ count + Len(units) <= Room(k, g)
  /\ \A p \in 0 .. Room(k, g) - 1 : WrittenCell(h, k, g, count, units, p)
  /\ \A b \in Block : b \notin ToSet(Chain(k, g)) =>
       k.fat1[b] = h.fat1[b] /\ k.fat2[b] = h.fat2[b] /\ k.block[b] = h.block[b]
  /\ \A b \in Block : (k.fat1[b] = h.fat1[b] /\ k.fat2[b] = h.fat2[b]) \/ k.fat1[b] = k.fat2[b]

LEMMA WrittenChain ==
  ASSUME NEW h, FatsOf(h, h), NEW g, OneChain(h, g), NEW count \in Nat, NEW units,
         Len(units) \in Nat, Len(units) >= 1, ~WriteGrowth(h, g, count, units).full
  PROVE  ChainWritten(h, Written(h, g, count, units), g, count, units)
<1> DEFINE end == count + Len(units)
           m == (end - 1) \div BLOCKSIZE
           grown == WriteGrowth(h, g, count, units)
           at == grown.at
           c == Chain(h, g)
           Before(b) == BLOCKSIZE * ((CHOOSE n \in DOMAIN at : at[n] = b) - 1)
           B == [b \in Block |->
                   IF b \notin ToSet(at) THEN h.block[b]
                   ELSE [j \in Unit |-> LET p == Before(b) + j
                                        IN  IF p \in count .. end - 1
                                            THEN units[p - count + 1] ELSE h.block[b][j]]]
           k == Written(h, g, count, units)
<1>1. /\ end \in Nat /\ end - 1 \in Nat /\ m \in Nat /\ BLOCKSIZE \in Nat /\ BLOCKSIZE > 0
      /\ end <= (m + 1) * BLOCKSIZE /\ (m + 1) * BLOCKSIZE \in Nat
  <2>1. BLOCKSIZE \in Nat /\ BLOCKSIZE > 0 /\ end \in Nat /\ end - 1 \in Nat
    BY Sizes
  <2>2. m \in Nat /\ (end - 1) % BLOCKSIZE \in 0 .. BLOCKSIZE - 1
        /\ end - 1 = m * BLOCKSIZE + ((end - 1) % BLOCKSIZE)
    BY <2>1, Quotient
  <2> HIDE DEF m
  <2>3. (m + 1) * BLOCKSIZE = m * BLOCKSIZE + BLOCKSIZE /\ m * BLOCKSIZE \in Nat
    BY <2>1, <2>2, Times
  <2> QED
    BY <2>1, <2>2, <2>3
<1>2. grown = GrownChain(h, g, m)
  BY Zenon DEF WriteGrowth
<1>3. c \in Seq(Block) /\ Len(c) \in Nat /\ Len(c) >= 1 /\ g \in Block /\ c[1] = g
      /\ ToSet(c) = {c[i] : i \in 1 .. Len(c)}
  BY ChainFacts
<1> HIDE DEF grown, m, c
<1>4. Growth(grown, h, g) /\ Grew(grown, h, c, g, m)
  <2>1. ~GrownChain(h, g, m).full
    BY <1>2 DEF grown
  <2>2. Growth(GrownChain(h, g, m), h, g)
    BY <1>1, <1>3, ChainGrows
  <2>3. Grew(GrownChain(h, g, m), h, c, g, m)
    BY <1>1, <2>1, ChainGrew DEF c
  <2> QED
    BY <1>2, <2>2, <2>3
<1>5. PICK e : GrewBy(grown, h, c, g, m, e)
  BY <1>4 DEF Grew
<1>6. /\ at \in Seq(Block) /\ Len(at) \in Nat /\ DOMAIN at = 1 .. Len(at)
      /\ grown.h = [block |-> h.block, fat1 |-> grown.h.fat1, fat2 |-> grown.h.fat2]
      /\ ToSet(at) = {at[i] : i \in 1 .. Len(at)}
  BY <1>4, LenProperties, ToSetOf DEF Growth, FatsOf, Walk
<1>7. k = [grown.h EXCEPT !.block = B]
  <2>1. k = [grown.h EXCEPT !.block = WriteBlocks(grown.h.block, at, count, units)]
    BY Zenon DEF Written, grown
  <2>2. WriteBlocks(h.block, at, count, units) = B
    BY Zenon DEF WriteBlocks
  <2>3. grown.h.block = h.block
    BY <1>6
  <2> HIDE DEF B, k
  <2> QED
    BY <2>1, <2>2, <2>3
<1> HIDE DEF k
<1>8. k.block = B /\ k.fat1 = grown.h.fat1 /\ k.fat2 = grown.h.fat2
  <2> HIDE DEF B
  <2> QED
    BY <1>6, <1>7
<1>9. /\ IsChain(k.fat1, e, g)
      /\ Len(e) >= Len(c) /\ \A i \in 1 .. Len(c) : e[i] = c[i]
      /\ \A i \in 1 .. Len(e) : i > Len(c) => e[i] \in FreeBlocks(h)
      /\ Len(at) = m + 1 /\ m + 1 <= Len(e) /\ \A i \in 1 .. m + 1 : at[i] = e[i]
      /\ \A b \in Block : \/ k.fat1[b] = h.fat1[b] /\ k.fat2[b] = h.fat2[b]
                          \/ b \in ToSet(e) /\ k.fat1[b] = k.fat2[b]
  BY <1>5, <1>8 DEF GrewBy
<1>10. Chain(k, g) = e /\ OneChain(k, g)
  BY <1>9, ChainIs DEF OneChain
<1>11. /\ e \in Seq(Block) /\ Len(e) \in Nat /\ Len(e) >= 1
       /\ \A i \in 1 .. Len(e) : e[i] \in Block
       /\ ToSet(e) = {e[i] : i \in 1 .. Len(e)}
  BY <1>9, ChainLength, ToSetOf
<1>12. \A i, j \in 1 .. Len(e) : e[i] = e[j] => i = j
  BY <1>9 DEF IsChain
<1>13. ToSet(c) \subseteq ToSet(e) /\ ToSet(e) \subseteq ToSet(c) \union FreeBlocks(h)
  <2>1. \A i \in 1 .. Len(c) : i \in 1 .. Len(e)
    BY <1>3, <1>9, <1>11
  <2>2. \A i \in 1 .. Len(e) : i \in 1 .. Len(c) \/ i > Len(c)
    BY <1>3, <1>11
  <2> QED
    BY <1>3, <1>9, <1>11, <2>1, <2>2, SMTT(30)
<1>14. ToSet(at) \subseteq ToSet(e)
  <2>1. \A i \in 1 .. m + 1 : i \in 1 .. Len(e)
    BY <1>1, <1>9, <1>11
  <2> QED
    BY <1>6, <1>9, <1>11, <2>1
<1>15. ASSUME NEW b \in Block, b \notin ToSet(at) PROVE k.block[b] = h.block[b]
  BY <1>8, <1>15, Zenon
<1>16. ASSUME NEW i \in 1 .. m + 1, NEW j \in Unit
       PROVE  k.block[e[i]][j] =
                IF BLOCKSIZE * (i - 1) + j \in count .. end - 1
                THEN units[(BLOCKSIZE * (i - 1) + j) - count + 1] ELSE h.block[e[i]][j]
  <2> DEFINE b == e[i]
             N == CHOOSE n \in DOMAIN at : at[n] = b
  <2>1. i \in 1 .. Len(e) /\ i \in 1 .. Len(at) /\ at[i] = b /\ b \in Block
    BY <1>1, <1>9, <1>11
  <2>2. b \in ToSet(at)
    BY <1>6, <2>1
  <2>3. N = i
    <3>1. \E n \in DOMAIN at : at[n] = b
      BY <1>6, <2>1
    <3>2. N \in DOMAIN at /\ at[N] = b
      BY <3>1, Zenon
    <3> HIDE DEF N
    <3>3. N \in 1 .. m + 1 /\ N \in 1 .. Len(e) /\ at[N] = e[N]
      BY <1>1, <1>6, <1>9, <1>11, <3>2
    <3> QED
      BY <1>12, <2>1, <3>2, <3>3
  <2>4. Before(b) = BLOCKSIZE * (i - 1)
    BY <2>3, Zenon
  <2> HIDE DEF Before
  <2>5. B[b] = [x \in Unit |-> LET p == Before(b) + x
                               IN  IF p \in count .. end - 1
                                   THEN units[p - count + 1] ELSE h.block[b][x]]
    BY <2>1, <2>2, Zenon
  <2> HIDE DEF B
  <2>6. k.block[b][j] = LET p == Before(b) + j
                        IN  IF p \in count .. end - 1
                            THEN units[p - count + 1] ELSE h.block[b][j]
    BY <1>8, <2>5, Zenon
  <2> QED
    BY <2>4, <2>6
<1> HIDE DEF B
<1>17. ASSUME NEW b \in Block, b \notin ToSet(e)
       PROVE  k.fat1[b] = h.fat1[b] /\ k.fat2[b] = h.fat2[b] /\ k.block[b] = h.block[b]
  BY <1>9, <1>14, <1>15, <1>17
<1>18. /\ end <= Room(k, g) /\ Room(k, g) = Len(e) * BLOCKSIZE /\ Room(h, g) = Len(c) * BLOCKSIZE
       /\ Len(e) * BLOCKSIZE \in Nat /\ Len(c) * BLOCKSIZE \in Nat
  <2>1. Room(k, g) = Len(e) * BLOCKSIZE /\ Room(h, g) = Len(c) * BLOCKSIZE
    BY <1>10 DEF Room, c
  <2>2. (m + 1) * BLOCKSIZE <= Len(e) * BLOCKSIZE /\ Len(e) * BLOCKSIZE \in Nat
        /\ Len(c) * BLOCKSIZE \in Nat
    <3>1. m + 1 \in Nat
      BY <1>1
    <3> QED
      BY <1>1, <1>3, <1>9, <1>11, <3>1, Times
  <2> QED
    BY <1>1, <2>1, <2>2
<1>19. ASSUME NEW p \in 0 .. Room(k, g) - 1 PROVE WrittenCell(h, k, g, count, units, p)
  <2> DEFINE i == p \div BLOCKSIZE + 1
             j == p % BLOCKSIZE
  <2>1. /\ p \in Nat /\ i \in 1 .. Len(e) /\ j \in Unit /\ p = BLOCKSIZE * (i - 1) + j
    BY <1>11, <1>18, RoomPlace
  <2>2. Cell(k, g, p) = k.block[e[i]][j]
    BY <1>10 DEF Cell
  <2>3. p < Room(h, g) => Cell(h, g, p) = h.block[e[i]][j]
    <3> SUFFICES ASSUME p < Room(h, g) PROVE Cell(h, g, p) = h.block[e[i]][j]
      OBVIOUS
    <3>1. p \in 0 .. Len(c) * BLOCKSIZE - 1
      BY <1>18, <2>1
    <3>2. i \in 1 .. Len(c)
      BY <1>3, <3>1, RoomPlace
    <3> HIDE DEF i
    <3>3. e[i] = c[i]
      BY <1>9, <3>2
    <3> QED
      BY <3>3 DEF Cell, c, i
  <2>4. p >= Room(h, g) => e[i] \in FreeBlocks(h)
    <3> SUFFICES ASSUME p >= Room(h, g) PROVE i > Len(c)
      BY <1>9, <2>1
    <3>1. j \in 0 .. BLOCKSIZE - 1 /\ i \in Nat
      BY <1>11, <2>1 DEF Unit
    <3> HIDE DEF i, j
    <3>2. i <= Len(c) => i * BLOCKSIZE <= Len(c) * BLOCKSIZE
      BY <1>1, <1>3, <3>1, Times
    <3>3. i - 1 \in Nat /\ (i - 1) + 1 = i
      BY <2>1, <3>1
    <3>4. ((i - 1) + 1) * BLOCKSIZE = (i - 1) * BLOCKSIZE + BLOCKSIZE /\ (i - 1) * BLOCKSIZE \in Nat
      BY <1>1, <3>3, Times
    <3>5. p = (i - 1) * BLOCKSIZE + j
      BY <1>1, <2>1, <3>3
    <3> QED
      BY <1>1, <1>3, <1>18, <2>1, <3>1, <3>2, <3>3, <3>4, <3>5
  <2>5. e[i] \in Block
    BY <1>11, <2>1
  <2> HIDE DEF i, j
  <2>6. k.block[e[i]][j] = IF p \in count .. end - 1 THEN units[p - count + 1] ELSE h.block[e[i]][j]
    <3>1. CASE i \in 1 .. m + 1
      BY <1>16, <2>1, <3>1
    <3>2. CASE i \notin 1 .. m + 1
      <4>1. e[i] \notin ToSet(at)
        <5> SUFFICES ASSUME NEW n \in 1 .. Len(at), at[n] = e[i] PROVE FALSE
          BY <1>6
        <5>1. n \in 1 .. m + 1 /\ n \in 1 .. Len(e) /\ e[n] = e[i]
          BY <1>1, <1>9, <1>11
        <5> QED
          BY <1>12, <2>1, <3>2, <5>1
      <4>2. k.block[e[i]] = h.block[e[i]]
        BY <1>15, <2>5, <4>1
      <4>3. i - 1 >= m + 1 /\ i - 1 \in Nat /\ m + 1 \in Nat
        BY <1>1, <1>11, <2>1, <3>2
      <4>4. (m + 1) * BLOCKSIZE <= (i - 1) * BLOCKSIZE /\ (i - 1) * BLOCKSIZE \in Nat
        BY <1>1, <4>3, Times
      <4>5. j \in Nat /\ p = (i - 1) * BLOCKSIZE + j
        BY <1>1, <2>1, <4>3 DEF Unit
      <4>6. p >= end
        BY <1>1, <4>4, <4>5
      <4>7. p \notin count .. end - 1
        BY <1>1, <2>1, <4>6
      <4> QED
        BY <4>2, <4>7
    <3> QED
      BY <3>1, <3>2
  <2>7. p < Room(h, g) \/ p >= Room(h, g)
    BY <1>18, <2>1
  <2> QED
    BY <2>1, <2>2, <2>3, <2>4, <2>6, <2>7 DEF WrittenCell
<1>20. Len(e) >= Len(c) /\ end <= Room(k, g)
  BY <1>9, <1>18
<1> QED
  BY <1>9, <1>10, <1>13, <1>17, <1>19, <1>20 DEF ChainWritten, k, c

-----------------------------------------------------------------------------
(* All the chains of a disc.                                               *)

\* The blocks of file x are the same on the discs h and k.
Unmoved(h, k, x) ==
  Chain(k, x) = Chain(h, x) /\ \A b \in ToSet(Chain(h, x)) : k.block[b] = h.block[b]

LEMMA RoomFacts ==
  ASSUME NEW h, NEW g, OneChain(h, g)
  PROVE  /\ Room(h, g) \in Nat /\ Room(h, g) >= BLOCKSIZE
         /\ \A p \in 0 .. Room(h, g) - 1 :
              /\ p \in Nat /\ p % BLOCKSIZE \in Unit
              /\ Chain(h, g)[p \div BLOCKSIZE + 1] \in ToSet(Chain(h, g))
<1> DEFINE c == Chain(h, g)
<1>1. Len(c) \in Nat /\ Len(c) >= 1 /\ \A i \in 1 .. Len(c) : c[i] \in ToSet(c)
  BY ChainFacts
<1>2. Room(h, g) = Len(c) * BLOCKSIZE
  BY DEF Room
<1> HIDE DEF c
<1>3. BLOCKSIZE \in Nat
  BY Sizes
<1>4. Len(c) * BLOCKSIZE \in Nat /\ 1 * BLOCKSIZE <= Len(c) * BLOCKSIZE /\ 1 * BLOCKSIZE = BLOCKSIZE
  BY <1>1, <1>3, Times
<1>5. ASSUME NEW p \in 0 .. Len(c) * BLOCKSIZE - 1
      PROVE  p \in Nat /\ p % BLOCKSIZE \in Unit /\ c[p \div BLOCKSIZE + 1] \in ToSet(c)
  BY <1>1, RoomPlace
<1> QED
  BY <1>2, <1>3, <1>4, <1>5 DEF c

LEMMA UnmovedCells ==
  ASSUME NEW h, NEW k, NEW x, OneChain(h, x), Unmoved(h, k, x)
  PROVE  Room(k, x) = Room(h, x) /\ \A p \in 0 .. Room(h, x) - 1 : Cell(k, x, p) = Cell(h, x, p)
<1>1. Chain(k, x) = Chain(h, x) /\ \A b \in ToSet(Chain(h, x)) : k.block[b] = h.block[b]
  BY DEF Unmoved
<1>2. ASSUME NEW p \in 0 .. Room(h, x) - 1 PROVE Cell(k, x, p) = Cell(h, x, p)
  <2>1. Chain(h, x)[p \div BLOCKSIZE + 1] \in ToSet(Chain(h, x))
    BY RoomFacts
  <2> QED
    BY <1>1, <2>1 DEF Cell
<1> QED
  BY <1>1, <1>2 DEF Room

\* A chain that the change of a disc does not touch.
LEMMA Untouched ==
  ASSUME NEW h, NEW x, OneChain(h, x), NEW k,
         \A b \in ToSet(Chain(h, x)) : k.fat1[b] = h.fat1[b] /\ k.block[b] = h.block[b]
  PROVE  Unmoved(h, k, x) /\ OneChain(k, x)
BY SameChain DEF Unmoved

LEMMA ChainsFacts ==
  ASSUME NEW h, NEW X, ChainsInv(h, X)
  PROVE  /\ \A g \in X : OneChain(h, g) /\ g \in Block /\ g >= Root /\ g \in ToSet(Chain(h, g))
         /\ \A g \in X : \A b \in ToSet(Chain(h, g)) : b \in Block /\ b >= Root /\ h.fat1[b] # FREE
         /\ \A g, x \in X : \A b \in ToSet(Chain(h, g)) : b \in ToSet(Chain(h, x)) => g = x
         /\ \A b \in Block : b >= Root /\ h.fat1[b] # FREE => \E g \in X : b \in ToSet(Chain(h, g))
<1>1. \A g \in X : OneChain(h, g)
  BY DEF ChainsInv, OneChain
<1>2. ASSUME NEW g \in X
      PROVE  /\ OneChain(h, g) /\ g \in Block /\ g >= Root /\ g \in ToSet(Chain(h, g))
             /\ \A b \in ToSet(Chain(h, g)) : b \in Block /\ b >= Root /\ h.fat1[b] # FREE
  BY <1>1, ChainFacts
<1> QED
  BY <1>2 DEF ChainsInv

LEMMA ChainsAre ==
  ASSUME NEW h, NEW X, \A g \in X : OneChain(h, g),
         \A g, x \in X : g # x => ToSet(Chain(h, g)) \intersect ToSet(Chain(h, x)) = {},
         \A b \in Block : b >= Root /\ h.fat1[b] # FREE => \E g \in X : b \in ToSet(Chain(h, g))
  PROVE  ChainsInv(h, X)
BY DEF ChainsInv, OneChain

LEMMA WrittenChains ==
  ASSUME NEW h, NEW X, ChainsInv(h, X), NEW g \in X, NEW k, NEW count, NEW units,
         ChainWritten(h, k, g, count, units)
  PROVE  /\ ChainsInv(k, X) /\ \A x \in X : x # g => Unmoved(h, k, x)
         /\ \A b \in Block : k.fat1[b] = FREE => h.fat1[b] = FREE /\ k.block[b] = h.block[b]
<1> DEFINE C(x) == ToSet(Chain(h, x))
           D == ToSet(Chain(k, g))
<1>1. /\ OneChain(k, g) /\ C(g) \subseteq D
      /\ D \subseteq C(g) \union FreeBlocks(h)
      /\ \A b \in Block : b \notin D =>
           k.fat1[b] = h.fat1[b] /\ k.fat2[b] = h.fat2[b] /\ k.block[b] = h.block[b]
  BY DEF ChainWritten
<1>2. /\ \A x \in X : OneChain(h, x) /\ x \in Block
      /\ \A x \in X : \A b \in C(x) : b \in Block /\ b >= Root /\ h.fat1[b] # FREE
      /\ \A y, x \in X : \A b \in C(y) : b \in C(x) => y = x
      /\ \A b \in Block : b >= Root /\ h.fat1[b] # FREE => \E x \in X : b \in C(x)
  BY ChainsFacts
<1>3. \A b \in D : b \in Block /\ k.fat1[b] # FREE
  BY <1>1, ChainFacts
<1> HIDE DEF C, D
<1>4. ASSUME NEW x \in X, x # g, NEW b \in C(x) PROVE b \notin D
  <2>1. b \notin C(g) /\ h.fat1[b] # FREE
    BY <1>2, <1>4
  <2>2. b \notin FreeBlocks(h)
    BY <2>1 DEF FreeBlocks
  <2> QED
    BY <1>1, <2>1, <2>2
<1>5. ASSUME NEW x \in X, x # g PROVE Unmoved(h, k, x) /\ OneChain(k, x) /\ ToSet(Chain(k, x)) = C(x)
  <2>1. \A b \in ToSet(Chain(h, x)) : k.fat1[b] = h.fat1[b] /\ k.block[b] = h.block[b]
    BY <1>1, <1>2, <1>4, <1>5 DEF C
  <2>2. Unmoved(h, k, x) /\ OneChain(k, x)
    BY <1>2, <2>1, Untouched
  <2> QED
    BY <2>2 DEF Unmoved, C
<1>6. ChainsInv(k, X)
  <2>1. \A x \in X : OneChain(k, x)
    BY <1>1, <1>5
  <2>2. ASSUME NEW x \in X, NEW y \in X, x # y PROVE ToSet(Chain(k, x)) \intersect ToSet(Chain(k, y)) = {}
    <3>1. CASE x = g
      BY <1>4, <1>5, <2>2, <3>1 DEF D
    <3>2. CASE y = g
      BY <1>4, <1>5, <2>2, <3>2 DEF D
    <3>3. CASE x # g /\ y # g
      BY <1>2, <1>5, <2>2, <3>3
    <3> QED
      BY <3>1, <3>2, <3>3
  <2>3. ASSUME NEW b \in Block, b >= Root, k.fat1[b] # FREE PROVE \E x \in X : b \in ToSet(Chain(k, x))
    <3>1. CASE b \in D
      BY <3>1 DEF D
    <3>2. CASE b \notin D
      <4>1. h.fat1[b] # FREE
        BY <1>1, <2>3, <3>2
      <4>2. PICK x \in X : b \in C(x)
        BY <1>2, <2>3, <4>1
      <4>3. x # g
        BY <1>1, <3>2, <4>2
      <4> QED
        BY <1>5, <4>2, <4>3
    <3> QED
      BY <3>1, <3>2
  <2> QED
    BY <2>1, <2>2, <2>3, ChainsAre
<1>7. \A b \in Block : k.fat1[b] = FREE => h.fat1[b] = FREE /\ k.block[b] = h.block[b]
  BY <1>1, <1>3
<1> QED
  BY <1>5, <1>6, <1>7

LEMMA OneBlock ==
  ASSUME NEW h, NEW b \in Block, b >= Root, h.fat1[b] = END
  PROVE  Chain(h, b) = <<b>> /\ OneChain(h, b) /\ ToSet(Chain(h, b)) = {b}
<1> DEFINE c == <<b>>
<1>1. c \in Seq(Block) /\ Len(c) = 1 /\ c[1] = b
  OBVIOUS
<1> HIDE DEF c
<1>2. \A i \in 1 .. Len(c) : i = 1
  BY <1>1
<1>3. IsChain(h.fat1, c, b)
  BY <1>1, <1>2 DEF IsChain
<1>4. ToSet(c) = {c[i] : i \in 1 .. Len(c)}
  BY <1>1, ToSetOf
<1>5. ToSet(c) = {b}
  BY <1>1, <1>2, <1>4
<1>6. Chain(h, b) = c
  BY <1>3, ChainIs
<1> QED
  BY <1>3, <1>5, <1>6 DEF OneChain, c

\* k is h with block b taken.
TookBlock(h, k, X, b) ==
  /\ ChainsInv(k, X \union {b}) /\ b \notin X /\ Chain(k, b) = <<b>> /\ b \in Block
  /\ b >= FirstData
  /\ \A x \in X : Unmoved(h, k, x)
  /\ k.block = h.block /\ \A d \in Block : k.fat1[d] = FREE => h.fat1[d] = FREE

LEMMA TakenChains ==
  ASSUME NEW h, DiscInv(h), NEW X, ChainsInv(h, X), NEW b \in FreeBlocks(h), NEW second
  PROVE  TookBlock(h, NewBlock(h, b, second), X, b)
<1> DEFINE k == NewBlock(h, b, second)
           C(x) == ToSet(Chain(h, x))
<1>1. b \in Block /\ b >= Root /\ h.fat1[b] = FREE /\ b >= FirstData
  BY Sizes DEF FreeBlocks, Block
<1>2. /\ Refatted(h, k) /\ k.fat1 = [h.fat1 EXCEPT ![b] = END]
      /\ h.fat1 \in FatType
  BY <1>1, BlockTaken, DiscFields, ZenonT(40)
<1> HIDE DEF k
<1>3. k.block = h.block /\ k.fat1[b] = END /\ \A d \in Block : d # b => k.fat1[d] = h.fat1[d]
  BY <1>1, <1>2 DEF FatType, Refatted
<1>4. /\ \A x \in X : OneChain(h, x) /\ x \in C(x)
      /\ \A x \in X : \A d \in C(x) : d \in Block /\ d >= Root /\ h.fat1[d] # FREE
      /\ \A y, x \in X : \A d \in C(y) : d \in C(x) => y = x
      /\ \A d \in Block : d >= Root /\ h.fat1[d] # FREE => \E x \in X : d \in C(x)
  BY ChainsFacts
<1>5. Chain(k, b) = <<b>> /\ OneChain(k, b) /\ ToSet(Chain(k, b)) = {b}
  BY <1>1, <1>3, OneBlock
<1> HIDE DEF C
<1>6. \A x \in X : b \notin C(x)
  BY <1>1, <1>4
<1>7. ASSUME NEW x \in X PROVE Unmoved(h, k, x) /\ OneChain(k, x) /\ ToSet(Chain(k, x)) = C(x)
  <2>1. \A d \in ToSet(Chain(h, x)) : k.fat1[d] = h.fat1[d] /\ k.block[d] = h.block[d]
    BY <1>3, <1>4, <1>6 DEF C
  <2>2. Unmoved(h, k, x) /\ OneChain(k, x)
    BY <1>4, <2>1, Untouched
  <2> QED
    BY <2>2 DEF Unmoved, C
<1>8. ChainsInv(k, X \union {b})
  <2> DEFINE Y == X \union {b}
  <2>1. \A x \in Y : OneChain(k, x)
    BY <1>5, <1>7
  <2>2. \A x, y \in Y : x # y => ToSet(Chain(k, x)) \intersect ToSet(Chain(k, y)) = {}
    BY <1>4, <1>5, <1>6, <1>7
  <2>3. ASSUME NEW d \in Block, d >= Root, k.fat1[d] # FREE PROVE \E x \in Y : d \in ToSet(Chain(k, x))
    <3>1. CASE d = b
      BY <1>5, <3>1
    <3>2. CASE d # b
      <4>1. PICK x \in X : d \in C(x)
        BY <1>3, <1>4, <2>3, <3>2
      <4> QED
        BY <1>7, <4>1
    <3> QED
      BY <3>1, <3>2
  <2> HIDE DEF Y
  <2>4. ChainsInv(k, Y)
    BY <2>1, <2>2, <2>3, ChainsAre
  <2> QED
    BY <2>4 DEF Y
<1>9. \A d \in Block : k.fat1[d] = FREE => h.fat1[d] = FREE
  BY <1>1, <1>3
<1>10. b \notin X
  BY <1>4, <1>6
<1> QED
  BY <1>1, <1>3, <1>5, <1>7, <1>8, <1>9, <1>10 DEF k, TookBlock

NewFats(h, k, b, second) ==
  /\ Refatted(h, k) /\ k.fat1[b] = END /\ k.fat2[b] = (IF second THEN END ELSE h.fat2[b])
  /\ \A d \in Block : d # b => k.fat1[d] = h.fat1[d] /\ k.fat2[d] = h.fat2[d]

LEMMA TakenFats ==
  ASSUME NEW h, DiscInv(h), NEW b \in Block, NEW second
  PROVE  NewFats(h, NewBlock(h, b, second), b, second)
<1> DEFINE k == NewBlock(h, b, second)
           e == IF second THEN END ELSE h.fat2[b]
<1>1. /\ Refatted(h, k)
      /\ k.fat1 = [h.fat1 EXCEPT ![b] = END]
      /\ k.fat2 = [h.fat2 EXCEPT ![b] = e]
  BY BlockTaken
<1>2. h.fat1 \in FatType /\ h.fat2 \in FatType
  BY DiscFields
<1> HIDE DEF k, e
<1>3. /\ k.fat1[b] = END /\ k.fat2[b] = e
      /\ \A d \in Block : d # b => k.fat1[d] = h.fat1[d] /\ k.fat2[d] = h.fat2[d]
  BY <1>1, <1>2 DEF FatType
<1> QED
  BY <1>1, <1>3 DEF NewFats, k, e

\* k is h with the blocks of g given back.
GaveBlocks(h, k, X, g) ==
  /\ ChainsInv(k, X \ {g}) /\ Refatted(h, k)
  /\ \A x \in X : x # g => Unmoved(h, k, x)
  /\ \A d \in Block : IF d \in ToSet(Chain(h, g)) THEN k.fat1[d] = FREE /\ k.fat2[d] = FREE
                     ELSE k.fat1[d] = h.fat1[d] /\ k.fat2[d] = h.fat2[d]

LEMMA FreedChains ==
  ASSUME NEW h, DiscInv(h), NEW X, ChainsInv(h, X), NEW g \in X
  PROVE  GaveBlocks(h, FreeChain(h, g), X, g)
<1> DEFINE k == FreeChain(h, g)
           C(x) == ToSet(Chain(h, x))
<1>1. /\ Refatted(h, k) /\ k.fat1 = [b \in Block |-> IF b \in C(g) THEN FREE ELSE h.fat1[b]]
      /\ k.fat2 = [b \in Block |-> IF b \in C(g) THEN FREE ELSE h.fat2[b]]
      /\ h.fat1 \in FatType
  <2>1. LET y    == FreeChain(h, g)
            gone == ToSet(Chain(h, g))
        IN  /\ Refatted(h, y)
            /\ y.fat1 = [b \in Block |-> IF b \in gone THEN FREE ELSE h.fat1[b]]
            /\ y.fat2 = [b \in Block |-> IF b \in gone THEN FREE ELSE h.fat2[b]]
    BY ChainFreed
  <2> QED
    BY <2>1, DiscFields, Zenon
<1> HIDE DEF k
<1>2. /\ \A x \in X : OneChain(h, x)
      /\ \A x \in X : \A d \in C(x) : d \in Block /\ d >= Root /\ h.fat1[d] # FREE
      /\ \A y, x \in X : \A d \in C(y) : d \in C(x) => y = x
      /\ \A d \in Block : d >= Root /\ h.fat1[d] # FREE => \E x \in X : d \in C(x)
  BY ChainsFacts
<1> HIDE DEF C
<1>3. k.block = h.block /\ \A d \in Block : k.fat1[d] = IF d \in C(g) THEN FREE ELSE h.fat1[d]
  BY <1>1 DEF Refatted
<1>4. ASSUME NEW x \in X, x # g PROVE Unmoved(h, k, x) /\ OneChain(k, x) /\ ToSet(Chain(k, x)) = C(x)
  <2>1. \A d \in ToSet(Chain(h, x)) : k.fat1[d] = h.fat1[d] /\ k.block[d] = h.block[d]
    BY <1>2, <1>3, <1>4 DEF C
  <2>2. Unmoved(h, k, x) /\ OneChain(k, x)
    BY <1>2, <2>1, Untouched
  <2> QED
    BY <2>2 DEF Unmoved, C
<1>5. ChainsInv(k, X \ {g})
  <2> DEFINE Y == X \ {g}
  <2>1. \A x \in Y : OneChain(k, x)
    BY <1>4
  <2>2. \A x, y \in Y : x # y => ToSet(Chain(k, x)) \intersect ToSet(Chain(k, y)) = {}
    BY <1>2, <1>4
  <2>3. ASSUME NEW d \in Block, d >= Root, k.fat1[d] # FREE PROVE \E x \in Y : d \in ToSet(Chain(k, x))
    <3>1. d \notin C(g) /\ h.fat1[d] # FREE
      BY <1>3, <2>3
    <3>2. PICK x \in X : d \in C(x)
      BY <1>2, <2>3, <3>1
    <3> QED
      BY <1>4, <3>1, <3>2
  <2> HIDE DEF Y
  <2>4. ChainsInv(k, Y)
    BY <2>1, <2>2, <2>3, ChainsAre
  <2> QED
    BY <2>4 DEF Y
<1>6. \A d \in Block : IF d \in C(g) THEN k.fat1[d] = FREE /\ k.fat2[d] = FREE
                        ELSE k.fat1[d] = h.fat1[d] /\ k.fat2[d] = h.fat2[d]
  BY <1>1, <1>3
<1> QED
  BY <1>1, <1>4, <1>5, <1>6 DEF k, C, GaveBlocks

\* k is h with all blocks of g but the first given back.
ShortFats(h, k, g) ==
  /\ Refatted(h, k) /\ g \in Block
  /\ k.fat1[g] = END /\ k.fat2[g] = END
  /\ \A d \in ToSet(Chain(h, g)) : d # g => k.fat1[d] = FREE /\ k.fat2[d] = FREE
  /\ \A d \in Block : d \notin ToSet(Chain(h, g)) => k.fat1[d] = h.fat1[d] /\ k.fat2[d] = h.fat2[d]

LEMMA CutFats ==
  ASSUME NEW h, DiscInv(h), NEW g, OneChain(h, g)
  PROVE  ShortFats(h, Cut(h, g), g)
<1> DEFINE k == Cut(h, g)
           c == Chain(h, g)
           t == Tail(c)
           e1 == [h.fat1 EXCEPT ![g] = END]
           e2 == [h.fat2 EXCEPT ![g] = END]
<1>1. /\ c \in Seq(Block) /\ Len(c) \in Nat /\ Len(c) >= 1 /\ c[1] = g /\ g \in Block
      /\ ToSet(c) = {c[i] : i \in 1 .. Len(c)} /\ ToSet(c) \subseteq Block
  BY ChainFacts
<1>2. /\ Refatted(h, k)
      /\ k.fat1 = [b \in Block |-> IF b \in ToSet(t) THEN FREE ELSE e1[b]]
      /\ k.fat2 = [b \in Block |-> IF b \in ToSet(t) THEN FREE ELSE e2[b]]
      /\ h.fat1 \in FatType /\ h.fat2 \in FatType
  BY <1>1, CutOff, DiscFields
<1>3. \A i, j \in 1 .. Len(c) : c[i] = c[j] => i = j
  BY DEF OneChain, IsChain
<1> HIDE DEF k, c
<1>4. t \in Seq(Block) /\ Len(t) = Len(c) - 1 /\ \A i \in 1 .. Len(c) - 1 : t[i] = c[i + 1]
  <2>1. c # <<>>
    BY <1>1
  <2> QED
    BY <1>1, <2>1, HeadTailProperties
<1> HIDE DEF t
<1>5. ToSet(t) = {t[i] : i \in 1 .. Len(t)}
  BY <1>4, ToSetOf
<1>6. ASSUME NEW d \in Block PROVE d \in ToSet(t) <=> d \in ToSet(c) /\ d # g
  <2>1. ASSUME d \in ToSet(t) PROVE d \in ToSet(c) /\ d # g
    <3>1. PICK i \in 1 .. Len(c) - 1 : d = c[i + 1]
      BY <1>4, <1>5, <2>1
    <3>2. i + 1 \in 1 .. Len(c) /\ i + 1 # 1 /\ 1 \in 1 .. Len(c)
      BY <1>1
    <3> QED
      BY <1>1, <1>3, <3>1, <3>2
  <2>2. ASSUME d \in ToSet(c), d # g PROVE d \in ToSet(t)
    <3>1. PICK i \in 1 .. Len(c) : d = c[i]
      BY <1>1, <2>2
    <3>2. i # 1
      BY <1>1, <2>2, <3>1
    <3>3. i - 1 \in 1 .. Len(c) - 1 /\ (i - 1) + 1 = i
      BY <1>1, <3>2
    <3> QED
      BY <1>4, <1>5, <3>1, <3>3
  <2> QED
    BY <2>1, <2>2
<1>7. /\ e1[g] = END /\ e2[g] = END
      /\ \A d \in Block : d # g => e1[d] = h.fat1[d] /\ e2[d] = h.fat2[d]
  BY <1>1, <1>2 DEF FatType
<1> HIDE DEF e1, e2
<1>8. \A d \in Block : /\ k.fat1[d] = IF d \in ToSet(t) THEN FREE ELSE e1[d]
                       /\ k.fat2[d] = IF d \in ToSet(t) THEN FREE ELSE e2[d]
  BY <1>2
<1>9. g \in ToSet(c)
  <2>1. 1 \in 1 .. Len(c)
    BY <1>1
  <2> QED
    BY <1>1, <2>1
<1>10. k.fat1[g] = END /\ k.fat2[g] = END
  BY <1>1, <1>6, <1>7, <1>8
<1>11. \A d \in ToSet(c) : d # g => k.fat1[d] = FREE /\ k.fat2[d] = FREE
  BY <1>1, <1>6, <1>8
<1>12. \A d \in Block : d \notin ToSet(c) => k.fat1[d] = h.fat1[d] /\ k.fat2[d] = h.fat2[d]
  BY <1>6, <1>7, <1>8, <1>9
<1> QED
  BY <1>1, <1>2, <1>10, <1>11, <1>12 DEF k, c, ShortFats

CutShort(h, k, X, g) ==
  /\ ChainsInv(k, X) /\ Chain(k, g) = <<g>> /\ ShortFats(h, k, g)
  /\ \A x \in X : x # g => Unmoved(h, k, x)

LEMMA CutChains ==
  ASSUME NEW h, DiscInv(h), NEW X, ChainsInv(h, X), NEW g \in X
  PROVE  CutShort(h, Cut(h, g), X, g)
<1> DEFINE k == Cut(h, g)
           C(x) == ToSet(Chain(h, x))
<1>1. /\ \A x \in X : OneChain(h, x) /\ x \in C(x) /\ x >= Root
      /\ \A x \in X : \A d \in C(x) : d \in Block /\ d >= Root /\ h.fat1[d] # FREE
      /\ \A y, x \in X : \A d \in C(y) : d \in C(x) => y = x
      /\ \A d \in Block : d >= Root /\ h.fat1[d] # FREE => \E x \in X : d \in C(x)
  BY ChainsFacts
<1>9. ShortFats(h, k, g)
  BY <1>1, CutFats
<1>2. /\ Refatted(h, k) /\ g \in Block /\ k.fat1[g] = END
      /\ \A d \in C(g) : d # g => k.fat1[d] = FREE
      /\ \A d \in Block : d \notin C(g) => k.fat1[d] = h.fat1[d]
  BY <1>9 DEF ShortFats
<1> HIDE DEF k, C
<1>3. k.block = h.block
  BY <1>2 DEF Refatted
<1>4. ASSUME NEW x \in X, x # g PROVE Unmoved(h, k, x) /\ OneChain(k, x) /\ ToSet(Chain(k, x)) = C(x)
  <2>1. \A d \in ToSet(Chain(h, x)) : k.fat1[d] = h.fat1[d] /\ k.block[d] = h.block[d]
    BY <1>1, <1>2, <1>3, <1>4 DEF C
  <2>2. Unmoved(h, k, x) /\ OneChain(k, x)
    BY <1>1, <2>1, Untouched
  <2> QED
    BY <2>2 DEF Unmoved, C
<1>5. Chain(k, g) = <<g>> /\ OneChain(k, g) /\ ToSet(Chain(k, g)) = {g}
  BY <1>1, <1>2, OneBlock
<1>6. ChainsInv(k, X)
  <2>1. \A x \in X : OneChain(k, x)
    BY <1>4, <1>5
  <2>2. \A x, y \in X : x # y => ToSet(Chain(k, x)) \intersect ToSet(Chain(k, y)) = {}
    BY <1>1, <1>4, <1>5
  <2>3. ASSUME NEW d \in Block, d >= Root, k.fat1[d] # FREE PROVE \E x \in X : d \in ToSet(Chain(k, x))
    <3>1. CASE d \in C(g)
      BY <1>2, <1>5, <2>3, <3>1
    <3>2. CASE d \notin C(g)
      <4>1. PICK x \in X : d \in C(x)
        BY <1>1, <1>2, <2>3, <3>2
      <4> QED
        BY <1>4, <3>2, <4>1
    <3> QED
      BY <3>1, <3>2
  <2> QED
    BY <2>1, <2>2, <2>3, ChainsAre
<1> QED
  BY <1>4, <1>5, <1>6, <1>9 DEF k, CutShort

-----------------------------------------------------------------------------
(* An FCB is written into a directory.                                     *)

LEMMA SlotPlaces ==
  ASSUME NEW i \in Nat, NEW p \in Nat
  PROVE  /\ i * FCBSIZE \in Nat /\ (i + 1) * FCBSIZE = i * FCBSIZE + FCBSIZE
         /\ p \div FCBSIZE \in Nat
         /\ p \div FCBSIZE = i <=> p \in i * FCBSIZE .. i * FCBSIZE + FCBSIZE - 1
<1> DEFINE q == p \div FCBSIZE
           r == p % FCBSIZE
<1>1. FCBSIZE \in Nat /\ FCBSIZE > 0
  BY Sizes
<1>2. q \in Nat /\ r \in 0 .. FCBSIZE - 1 /\ p = q * FCBSIZE + r
  BY <1>1, Quotient
<1> HIDE DEF q, r
<1>3. /\ i * FCBSIZE \in Nat /\ (i + 1) * FCBSIZE = i * FCBSIZE + FCBSIZE
      /\ q * FCBSIZE \in Nat /\ (q + 1) * FCBSIZE = q * FCBSIZE + FCBSIZE
  BY <1>1, <1>2, Times
<1>4. q + 1 <= i => (q + 1) * FCBSIZE <= i * FCBSIZE
  <2>1. q + 1 \in Nat
    BY <1>2
  <2> QED
    BY <1>1, <2>1, Times
<1>5. i + 1 <= q => (i + 1) * FCBSIZE <= q * FCBSIZE
  <2>1. i + 1 \in Nat
    OBVIOUS
  <2> QED
    BY <1>1, <1>2, <2>1, Times
<1>6. q = i \/ q + 1 <= i \/ i + 1 <= q
  BY <1>2
<1>7. q = i <=> p \in i * FCBSIZE .. i * FCBSIZE + FCBSIZE - 1
  BY <1>1, <1>2, <1>3, <1>4, <1>5, <1>6
<1> QED
  BY <1>2, <1>3, <1>7 DEF q

PutCell(h, k, d, slot, fcb, p) ==
  IF p \div FCBSIZE = slot THEN Cell(k, d, p)[1] = "fcb" /\ Cell(k, d, p)[2] = fcb
  ELSE IF p < Room(h, d) THEN Cell(k, d, p) = Cell(h, d, p)
  ELSE \E b \in FreeBlocks(h), j \in Unit : Cell(k, d, p) = h.block[b][j]

FatsFollow(h, k) ==
  \A b \in Block : (k.fat1[b] = h.fat1[b] /\ k.fat2[b] = h.fat2[b]) \/ k.fat1[b] = k.fat2[b]

FreeFollow(h, k) ==
  \A b \in Block : k.fat1[b] = FREE => h.fat1[b] = FREE /\ k.block[b] = h.block[b]

\* k is what WriteFcb() into place slot of directory d makes of disc h, on
\* which the files X are.
Put(h, k, X, d, slot, fcb) ==
  /\ ChainsInv(h, X) /\ ChainsInv(k, X) /\ d \in X /\ \A x \in X : x # d => Unmoved(h, k, x)
  /\ Room(k, d) >= Room(h, d) /\ (slot + 1) * FCBSIZE <= Room(k, d)
  /\ \A p \in 0 .. Room(k, d) - 1 : PutCell(h, k, d, slot, fcb, p)
  /\ FatsFollow(h, k) /\ FreeFollow(h, k)

\* The state after a do_write() that finds room.
LEMMA WriteLeaves ==
  ASSUME NEW s, NEW cur, Sound(s, cur), s.broken = "no", NEW fd \in Fd, NEW count \in Nat, NEW units,
         Writable(units), do_write(s, fd, count, units).broken = "no",
         OneChain(s.hard, s.open[fd].fcb.first)
  PROVE  LET t == do_write(s, fd, count, units)
         IN  /\ ChainWritten(s.hard, t.hard, s.open[fd].fcb.first, count, units)
             /\ t.open = Enter(s.open, fd, NewLength(s.open[fd].fcb.length, count + Len(units)))
<1> DEFINE t == do_write(s, fd, count, units)
           g == s.open[fd].fcb.first
           length == NewLength(s.open[fd].fcb.length, count + Len(units))
           full == WriteGrowth(s.hard, g, count, units).full
           k == Written(s.hard, g, count, units)
<1>1. t = IF full THEN Break(s, "disc full") ELSE WrittenState(s, fd, k, length)
  BY WriteSteps
<1>2. StateFields(s) /\ DiscInv(s.hard) /\ s.open \in [Fd -> OpenType]
  BY DEF Sound, TableInv
<1>3. ~full
  <2> HIDE DEF full, k, length
  <2>1. Break(s, "disc full").broken = "disc full"
    BY <1>2, Broke
  <2> QED
    BY <1>1, <2>1
<1>4. t = [hard |-> k, open |-> Enter(s.open, fd, length), broken |-> s.broken]
  <2> HIDE DEF full, k, length
  <2>1. t = WrittenState(s, fd, k, length)
    BY <1>1, <1>3
  <2> QED
    BY <1>2, <2>1, WrittenFields
<1>5. Len(units) \in Nat /\ Len(units) >= 1
  BY WritableUnits
<1>6. ChainWritten(s.hard, k, g, count, units)
  <2>1. FatsOf(s.hard, s.hard)
    BY <1>2 DEF DiscInv
  <2> HIDE DEF k
  <2> QED
    BY <1>3, <1>5, <2>1, WrittenChain DEF k
<1> HIDE DEF k, length, t
<1>7. t.hard = k /\ t.open = Enter(s.open, fd, length)
  BY <1>4
<1> QED
  BY <1>6, <1>7 DEF t, length

LEMMA PutTo ==
  ASSUME NEW s, NEW cur, Sound(s, cur), s.broken = "no", NEW fd \in Fd, NEW slot \in Nat,
         NEW fcb, FcbOk(fcb), NEW X, ChainsInv(s.hard, X), s.open[fd].fcb.first \in X,
         WriteFcb(s, fd, slot, fcb).broken = "no"
  PROVE  LET t == WriteFcb(s, fd, slot, fcb)
         IN  /\ Put(s.hard, t.hard, X, s.open[fd].fcb.first, slot, fcb)
             /\ t.open = Enter(s.open, fd, NewLength(s.open[fd].fcb.length, (slot + 1) * FCBSIZE))
<1> DEFINE t == WriteFcb(s, fd, slot, fcb)
           h == s.hard
           k == t.hard
           d == s.open[fd].fcb.first
           count == slot * FCBSIZE
           units == Units(fcb)
<1>1. t = do_write(s, fd, count, units)
  BY DEF WriteFcb
<1>2. Writable(units) /\ Len(units) = FCBSIZE
  BY FcbUnits
<1>3. FCBSIZE \in Nat /\ FCBSIZE > 0 /\ count \in Nat /\ (slot + 1) * FCBSIZE = count + FCBSIZE
  BY Sizes, Times
<1>4. \A i \in 1 .. FCBSIZE : units[i][1] = "fcb" /\ units[i][2] = fcb
  BY DEF Units
<1>5. OneChain(h, d)
  BY ChainsFacts
<1> HIDE DEF t, units, count
<1>6. /\ ChainWritten(h, k, d, count, units)
      /\ t.open = Enter(s.open, fd, NewLength(s.open[fd].fcb.length, count + FCBSIZE))
  <2>1. do_write(s, fd, count, units).broken = "no" /\ OneChain(s.hard, s.open[fd].fcb.first)
    BY <1>1, <1>5 DEF t
  <2>2. t.hard = do_write(s, fd, count, units).hard /\ t.open = do_write(s, fd, count, units).open
    BY <1>1
  <2>3. LET u == do_write(s, fd, count, units)
        IN  /\ ChainWritten(s.hard, u.hard, s.open[fd].fcb.first, count, units)
            /\ u.open = Enter(s.open, fd, NewLength(s.open[fd].fcb.length, count + Len(units)))
    <3> HIDE DEF h, k, d
    <3>1. Writable(units) /\ count \in Nat
      BY <1>2, <1>3
    <3> QED
      BY <2>1, <3>1, WriteLeaves
  <2> QED
    BY <1>2, <2>2, <2>3
<1> HIDE DEF h, k, d
<1>7. /\ OneChain(k, d) /\ Len(Chain(k, d)) >= Len(Chain(h, d)) /\ count + FCBSIZE <= Room(k, d)
      /\ \A p \in 0 .. Room(k, d) - 1 : WrittenCell(h, k, d, count, units, p)
      /\ FatsFollow(h, k)
  BY <1>2, <1>6 DEF ChainWritten, FatsFollow
<1>8. /\ ChainsInv(k, X) /\ \A x \in X : x # d => Unmoved(h, k, x)
      /\ FreeFollow(h, k) /\ ChainsInv(h, X) /\ d \in X
  <2>1. ChainsInv(h, X) /\ d \in X
    BY DEF h, d
  <2> QED
    BY <1>6, <2>1, WrittenChains DEF FreeFollow
<1>9. Room(k, d) >= Room(h, d)
  <2>1. Len(Chain(k, d)) \in Nat /\ Len(Chain(h, d)) \in Nat /\ BLOCKSIZE \in Nat
    BY <1>5, <1>7, ChainFacts, Sizes
  <2>2. Len(Chain(h, d)) * BLOCKSIZE <= Len(Chain(k, d)) * BLOCKSIZE
        /\ Len(Chain(h, d)) * BLOCKSIZE \in Nat /\ Len(Chain(k, d)) * BLOCKSIZE \in Nat
    BY <1>7, <2>1, Times
  <2> QED
    BY <2>2 DEF Room
<1>10. ASSUME NEW p \in 0 .. Room(k, d) - 1 PROVE PutCell(h, k, d, slot, fcb, p)
  <2>1. p \in Nat
    BY <1>7, RoomFacts
  <2>2. p \div FCBSIZE = slot <=> p \in count .. count + Len(units) - 1
    BY <1>2, <2>1, SlotPlaces DEF count
  <2>3. WrittenCell(h, k, d, count, units, p)
    BY <1>7
  <2>4. CASE p \div FCBSIZE = slot
    <3>1. p - count + 1 \in 1 .. FCBSIZE
      BY <1>2, <1>3, <2>1, <2>2, <2>4
    <3>2. Cell(k, d, p) = units[p - count + 1]
      BY <2>2, <2>3, <2>4 DEF WrittenCell
    <3> QED
      BY <1>4, <2>4, <3>1, <3>2 DEF PutCell
  <2>5. CASE p \div FCBSIZE # slot
    BY <2>2, <2>3, <2>5 DEF WrittenCell, PutCell
  <2> QED
    BY <2>4, <2>5
<1>11. Put(h, k, X, d, slot, fcb)
  BY <1>3, <1>7, <1>8, <1>9, <1>10 DEF Put
<1> QED
  BY <1>3, <1>6, <1>11 DEF h, k, d, t

LEMMA PutEntries ==
  ASSUME NEW h, NEW k, NEW X, NEW d, NEW slot \in Nat, NEW fcb, Put(h, k, X, d, slot, fcb)
  PROVE  /\ Entry(k, d, slot) = fcb
         /\ \A x \in X : Room(k, x) >= Room(h, x) /\ Room(h, x) \in Nat /\ Room(k, x) \in Nat
         /\ \A x \in X, i \in Nat : <<x, i>> # <<d, slot>> /\ (i + 1) * FCBSIZE <= Room(h, x)
              => Entry(k, x, i) = Entry(h, x, i)
<1>1. /\ ChainsInv(h, X) /\ ChainsInv(k, X) /\ d \in X /\ \A x \in X : x # d => Unmoved(h, k, x)
      /\ Room(k, d) >= Room(h, d) /\ (slot + 1) * FCBSIZE <= Room(k, d)
      /\ \A p \in 0 .. Room(k, d) - 1 : PutCell(h, k, d, slot, fcb, p)
  BY DEF Put
<1>2. \A x \in X : OneChain(h, x) /\ OneChain(k, x)
  BY <1>1, ChainsFacts
<1>3. \A x \in X : Room(h, x) \in Nat /\ Room(k, x) \in Nat
  BY <1>2, RoomFacts
<1>4. \A x \in X : x # d => Room(k, x) = Room(h, x)
                            /\ \A p \in 0 .. Room(h, x) - 1 : Cell(k, x, p) = Cell(h, x, p)
  BY <1>1, <1>2, UnmovedCells
<1>5. ASSUME NEW i \in Nat
      PROVE  /\ i * FCBSIZE \in Nat /\ (i * FCBSIZE) \div FCBSIZE = i
             /\ (i + 1) * FCBSIZE = i * FCBSIZE + FCBSIZE /\ FCBSIZE \in Nat /\ FCBSIZE > 0
  <2>1. FCBSIZE \in Nat /\ FCBSIZE > 0 /\ i * FCBSIZE \in Nat
    BY Sizes, Times
  <2>2. i * FCBSIZE \in i * FCBSIZE .. i * FCBSIZE + FCBSIZE - 1
    BY <2>1
  <2> QED
    BY <2>1, <2>2, SlotPlaces
<1>6. Entry(k, d, slot) = fcb
  <2>1. slot * FCBSIZE \in 0 .. Room(k, d) - 1 /\ (slot * FCBSIZE) \div FCBSIZE = slot
    BY <1>1, <1>3, <1>5
  <2>2. PutCell(h, k, d, slot, fcb, slot * FCBSIZE)
    BY <1>1, <2>1
  <2> QED
    BY <2>1, <2>2 DEF PutCell, Entry, EntryOf
<1>7. ASSUME NEW x \in X, NEW i \in Nat, <<x, i>> # <<d, slot>>, (i + 1) * FCBSIZE <= Room(h, x)
      PROVE  Entry(k, x, i) = Entry(h, x, i)
  <2>1. /\ i * FCBSIZE \in 0 .. Room(h, x) - 1 /\ i * FCBSIZE < Room(h, x)
        /\ (i * FCBSIZE) \div FCBSIZE = i
    <3>1. /\ i * FCBSIZE \in Nat /\ (i * FCBSIZE) \div FCBSIZE = i
          /\ (i + 1) * FCBSIZE = i * FCBSIZE + FCBSIZE /\ FCBSIZE \in Nat /\ FCBSIZE > 0
      BY <1>5
    <3>2. Room(h, x) \in Nat
      BY <1>3
    <3> QED
      BY <1>7, <3>1, <3>2
  <2>2. Cell(k, x, i * FCBSIZE) = Cell(h, x, i * FCBSIZE)
    <3>1. CASE x # d
      BY <1>4, <2>1, <3>1
    <3>2. CASE x = d
      <4>1. i # slot
        BY <1>7, <3>2
      <4>2. i * FCBSIZE \in 0 .. Room(k, d) - 1
        BY <1>1, <1>3, <2>1, <3>2
      <4>3. PutCell(h, k, d, slot, fcb, i * FCBSIZE)
        BY <1>1, <4>2
      <4> QED
        BY <2>1, <3>2, <4>1, <4>3 DEF PutCell
    <3> QED
      BY <3>1, <3>2
  <2> QED
    BY <2>2 DEF Entry
<1>8. \A x \in X : Room(k, x) >= Room(h, x)
  BY <1>1, <1>3, <1>4
<1> QED
  BY <1>3, <1>6, <1>7, <1>8

LEMMA PutUnits ==
  ASSUME NEW h, NEW k, NEW w, NEW d, NEW slot \in Nat, NEW fcb,
         Put(h, k, Heads(w), d, slot, fcb), UnitsInv(h, w), NEW v, Heads(v) = Heads(w),
         fcb.filename \in Given =>
           fcb.first \in v.heads \ {Root} /\ v.up[fcb.first] = d /\ v.at[fcb.first] = slot,
         \A g \in w.heads \ {Root} : <<w.up[g], w.at[g]>> # <<d, slot>> =>
           g \in v.heads /\ v.up[g] = w.up[g] /\ v.at[g] = w.at[g],
         \A x \in w.holes : x = <<d, slot>> \/ x \in v.holes
  PROVE  UnitsInv(k, v)
<1>1. /\ ChainsInv(h, Heads(w)) /\ ChainsInv(k, Heads(w)) /\ d \in Heads(w)
      /\ \A x \in Heads(w) : x # d => Unmoved(h, k, x)
      /\ \A p \in 0 .. Room(k, d) - 1 : PutCell(h, k, d, slot, fcb, p)
      /\ FreeFollow(h, k)
  BY DEF Put
<1>2. \A x \in Heads(w) : OneChain(h, x) /\ OneChain(k, x)
  BY <1>1, ChainsFacts
<1>3. \A x \in Heads(w) : x # d => Room(k, x) = Room(h, x)
                            /\ \A p \in 0 .. Room(h, x) - 1 : Cell(k, x, p) = Cell(h, x, p)
  BY <1>1, <1>2, UnmovedCells
<1>4. ASSUME NEW b \in Block, NEW j \in Unit, b >= FirstData, k.fat1[b] = FREE
      PROVE  ~Live(k.block[b][j])
  BY <1>1, <1>4 DEF FreeFollow, UnitsInv
<1>5. ASSUME NEW x \in Heads(w), NEW p \in 0 .. Room(h, x) - 1, p \div FCBSIZE # slot \/ x # d,
             Live(Cell(h, x, p))
      PROVE  AtPlace(v, Cell(h, x, p)[2], x, p) \/ <<x, p \div FCBSIZE>> \in v.holes
  <2> DEFINE f == Cell(h, x, p)[2]
  <2>1. AtPlace(w, f, x, p) \/ <<x, p \div FCBSIZE>> \in w.holes
    BY <1>5 DEF UnitsInv
  <2> HIDE DEF f
  <2>2. <<x, p \div FCBSIZE>> # <<d, slot>>
    BY <1>5
  <2>3. CASE AtPlace(w, f, x, p)
    <3>1. f.first \in w.heads \ {Root} /\ w.up[f.first] = x /\ w.at[f.first] = p \div FCBSIZE
      BY <2>3 DEF AtPlace
    <3>2. AtPlace(v, f, x, p)
      BY <2>2, <3>1 DEF AtPlace
    <3> QED
      BY <3>2 DEF f
  <2>4. CASE <<x, p \div FCBSIZE>> \in w.holes
    BY <2>2, <2>4
  <2> QED
    BY <2>1, <2>3, <2>4
<1>6. ASSUME NEW x \in Heads(v), NEW p \in 0 .. Room(k, x) - 1, Live(Cell(k, x, p))
      PROVE  AtPlace(v, Cell(k, x, p)[2], x, p) \/ <<x, p \div FCBSIZE>> \in v.holes
  <2>1. CASE x # d
    <3>1. p \in 0 .. Room(h, x) - 1 /\ Cell(k, x, p) = Cell(h, x, p)
      BY <1>3, <2>1
    <3> QED
      BY <1>5, <1>6, <2>1, <3>1
  <2>2. CASE x = d
    <3>1. PutCell(h, k, d, slot, fcb, p) /\ p \in Nat
      BY <1>1, <1>2, <2>2, RoomFacts
    <3>2. CASE p \div FCBSIZE = slot
      <4>1. Cell(k, x, p)[2] = fcb
        BY <2>2, <3>1, <3>2 DEF PutCell
      <4>2. fcb.filename \in Given
        BY <1>6, <4>1 DEF Live
      <4> QED
        BY <2>2, <3>2, <4>1, <4>2 DEF AtPlace
    <3>3. CASE p \div FCBSIZE # slot /\ p < Room(h, d)
      <4>1. p \in 0 .. Room(h, d) - 1 /\ Cell(k, d, p) = Cell(h, d, p)
        <5>1. Room(h, d) \in Nat
          BY <1>1, <1>2, RoomFacts
        <5> QED
          BY <3>1, <3>3, <5>1 DEF PutCell
      <4> QED
        BY <1>1, <1>5, <1>6, <2>2, <3>3, <4>1
    <3>4. CASE p \div FCBSIZE # slot /\ ~(p < Room(h, d))
      <4>1. PICK b \in FreeBlocks(h), j \in Unit : Cell(k, d, p) = h.block[b][j]
        BY <3>1, <3>4 DEF PutCell
      <4>2. b \in Block /\ b >= FirstData /\ h.fat1[b] = FREE
        BY Sizes DEF FreeBlocks, Block
      <4>3. ~Live(h.block[b][j])
        BY <4>2 DEF UnitsInv
      <4> QED
        BY <1>6, <2>2, <4>1, <4>3
    <3> QED
      BY <3>2, <3>3, <3>4
  <2> QED
    BY <2>1, <2>2
<1> QED
  BY <1>4, <1>6 DEF UnitsInv

-----------------------------------------------------------------------------
(* What an FCB in a directory does to the files.                           *)

\* The witness v is w after the write: a new file or directory has entry
\* <<d, slot>>, or the entry is what it was but for the length.
Grows(w, v, d, slot) ==
  /\ Heads(v) = Heads(w) /\ w.heads \subseteq v.heads /\ w.dirs \subseteq v.dirs /\ w.raw \subseteq v.raw
  /\ d \in w.dirs
  /\ \A g \in w.heads :
       /\ v.up[g] = w.up[g] /\ v.at[g] = w.at[g] /\ v.above[g] = w.above[g]
       /\ g \in v.dirs => g \in w.dirs
       /\ v.length[g] = IF g = d THEN NewLength(w.length[d], (slot + 1) * FCBSIZE) ELSE w.length[g]
  /\ \A x \in w.holes : x = <<d, slot>> \/ x \in v.holes

OldEntry(h, w, d, slot, fcb) ==
  /\ \A g \in w.heads \ {Root} : w.up[g] = d /\ w.at[g] = slot =>
       SameButLength(fcb, Entry(h, d, slot)) /\ fcb.length = w.length[g]
  /\ slot < 2 => fcb.free = 1

NewHead(h, w, v, d, slot, fcb, txt) ==
  /\ \A g \in v.heads \ w.heads :
       /\ v.up[g] = d /\ v.at[g] = slot /\ slot >= 2 /\ EntryIs(fcb, g, g \in v.dirs)
       /\ fcb.length = v.length[g]
       /\ IF g \in v.dirs THEN g \in v.raw /\ v.length[g] = 2 * FCBSIZE /\ h.fat1[g] = h.fat2[g]
          ELSE v.length[g] = 0 /\ txt[g] = <<>>
  /\ fcb.filename \in Given =>
       fcb.first \in v.heads \ {Root} /\ v.up[fcb.first] = d /\ v.at[fcb.first] = slot

Entering(h, k, w, v, d, slot, fcb, txt) ==
  /\ slot \in Nat /\ WitnessType(v) /\ AboveInv(v) /\ Put(h, k, Heads(w), d, slot, fcb)
  /\ Grows(w, v, d, slot) /\ OldEntry(h, w, d, slot, fcb) /\ NewHead(h, w, v, d, slot, fcb, txt)

LEMMA HeadFacts ==
  ASSUME NEW h, NEW w, WitnessType(w), ChainsInv(h, Heads(w)), PlacesInv(h, w), SizesInv(h, w), AboveInv(w)
  PROVE  /\ \A g \in Heads(w) : OneChain(h, g) /\ g \in Block /\ Room(h, g) \in Nat /\ Room(h, g) >= BLOCKSIZE
         /\ w.dirs \subseteq w.heads /\ w.heads \subseteq Heads(w) /\ w.heads \subseteq Block /\ Root \in w.dirs
         /\ \A g \in w.heads \ {Root} :
              /\ w.up[g] \in w.dirs /\ w.up[g] # g /\ w.at[g] \in Nat /\ w.at[g] >= 2
              /\ (w.at[g] + 1) * FCBSIZE <= Room(h, w.up[g])
         /\ \A d \in w.dirs : w.length[d] \in Nat /\ w.length[d] >= 2 * FCBSIZE
         /\ \A d \in w.dirs, i \in {0, 1} : (i + 1) * FCBSIZE <= Room(h, d)
<1>1. \A g \in Heads(w) : OneChain(h, g)
  BY ChainsFacts
<1>2. /\ w.dirs \subseteq w.heads /\ w.heads \subseteq Heads(w) /\ Root \in w.dirs /\ w.heads \subseteq Block
      /\ w.at \in [Block -> Nat] /\ w.length \in [Block -> Nat] /\ w.depth \in [Block -> Nat]
      /\ w.up \in [Block -> Block]
  BY DEF WitnessType, Heads
<1>3. \A g \in Heads(w) : g \in Block /\ Room(h, g) \in Nat /\ Room(h, g) >= BLOCKSIZE
  BY <1>1, RoomFacts, ChainFacts
<1>4. FCBSIZE \in Nat /\ FCBSIZE > 0 /\ BLOCKSIZE \in Nat /\ BLOCKSIZE >= 2 * FCBSIZE
  BY Sizes
<1>5. ASSUME NEW d \in w.dirs
      PROVE  w.length[d] \in Nat /\ w.length[d] >= 2 * FCBSIZE /\ w.length[d] <= Room(h, d)
  <2>1. PICK m \in Nat : m >= 2 /\ w.length[d] = m * FCBSIZE
    BY DEF SizesInv
  <2>2. 2 * FCBSIZE <= m * FCBSIZE /\ m * FCBSIZE \in Nat
    BY <1>4, <2>1, Times
  <2> QED
    BY <1>4, <2>1, <2>2 DEF SizesInv
<1>6. ASSUME NEW g \in w.heads \ {Root}
      PROVE  /\ w.up[g] \in w.dirs /\ w.up[g] # g /\ w.at[g] \in Nat /\ w.at[g] >= 2
             /\ (w.at[g] + 1) * FCBSIZE <= Room(h, w.up[g])
  <2>1. w.up[g] \in w.dirs /\ w.at[g] \in Nat /\ w.at[g] >= 2
        /\ (w.at[g] + 1) * FCBSIZE <= w.length[w.up[g]]
    BY <1>2 DEF PlacesInv
  <2>2. (w.at[g] + 1) * FCBSIZE \in Nat
    <3>1. w.at[g] + 1 \in Nat
      BY <2>1
    <3> QED
      BY <1>4, <3>1, Times
  <2>3. w.length[w.up[g]] \in Nat /\ w.length[w.up[g]] <= Room(h, w.up[g]) /\ Room(h, w.up[g]) \in Nat
    BY <1>2, <1>3, <1>5, <2>1
  <2>4. w.depth[w.up[g]] < w.depth[g] /\ w.depth[g] \in Nat
    <3>1. w.up[g] \in w.above[g]
      BY DEF AboveInv
    <3> QED
      BY <1>2, <3>1 DEF AboveInv
  <2> QED
    BY <2>1, <2>2, <2>3, <2>4
<1>7. ASSUME NEW d \in w.dirs, NEW i \in {0, 1} PROVE (i + 1) * FCBSIZE <= Room(h, d)
  <2>1. Room(h, d) >= BLOCKSIZE /\ Room(h, d) \in Nat
    BY <1>2, <1>3
  <2>2. (0 + 1) * FCBSIZE = FCBSIZE /\ (1 + 1) * FCBSIZE = 2 * FCBSIZE
    BY <1>4, Times
  <2> QED
    BY <1>4, <2>1, <2>2
<1> QED
  BY <1>1, <1>2, <1>3, <1>5, <1>6, <1>7

LEMMA EntriesAfter ==
  ASSUME NEW h, NEW k, NEW w, NEW v, NEW d, NEW slot, NEW fcb, NEW txt, DiscFiles(h, txt, w),
         Entering(h, k, w, v, d, slot, fcb, txt)
  PROVE  /\ Entry(k, d, slot) = fcb
         /\ \A g \in w.heads \ {Root} : ~(w.up[g] = d /\ w.at[g] = slot) =>
              Entry(k, w.up[g], w.at[g]) = Entry(h, w.up[g], w.at[g])
         /\ \A g \in w.heads \ {Root} : SameButLength(Entry(k, w.up[g], w.at[g]), Entry(h, w.up[g], w.at[g]))
         /\ \A x \in w.dirs : Filled(h, x) => Filled(k, x)
         /\ \A x \in Heads(w) : Room(k, x) >= Room(h, x) /\ Room(h, x) \in Nat /\ Room(k, x) \in Nat
<1>1. slot \in Nat /\ Put(h, k, Heads(w), d, slot, fcb) /\ OldEntry(h, w, d, slot, fcb)
  BY DEF Entering
<1>2. /\ Entry(k, d, slot) = fcb
      /\ \A x \in Heads(w) : Room(k, x) >= Room(h, x) /\ Room(h, x) \in Nat /\ Room(k, x) \in Nat
      /\ \A x \in Heads(w), i \in Nat : <<x, i>> # <<d, slot>> /\ (i + 1) * FCBSIZE <= Room(h, x)
              => Entry(k, x, i) = Entry(h, x, i)
  <2> DEFINE X == Heads(w)
  <2>1. Put(h, k, X, d, slot, fcb)
    BY <1>1
  <2> HIDE DEF X
  <2>2. /\ Entry(k, d, slot) = fcb
        /\ \A x \in X : Room(k, x) >= Room(h, x) /\ Room(h, x) \in Nat /\ Room(k, x) \in Nat
        /\ \A x \in X, i \in Nat : <<x, i>> # <<d, slot>> /\ (i + 1) * FCBSIZE <= Room(h, x)
              => Entry(k, x, i) = Entry(h, x, i)
    BY <1>1, <2>1, PutEntries, SMTT(30)
  <2> QED
    BY <2>2 DEF X
<1>3. /\ w.dirs \subseteq w.heads /\ w.heads \subseteq Heads(w)
      /\ \A g \in w.heads \ {Root} :
              /\ w.up[g] \in w.dirs /\ w.at[g] \in Nat
              /\ (w.at[g] + 1) * FCBSIZE <= Room(h, w.up[g])
      /\ \A x \in w.dirs, i \in {0, 1} : (i + 1) * FCBSIZE <= Room(h, x)
  BY HeadFacts DEF DiscFiles
<1>4. ASSUME NEW g \in w.heads \ {Root}, ~(w.up[g] = d /\ w.at[g] = slot)
      PROVE  Entry(k, w.up[g], w.at[g]) = Entry(h, w.up[g], w.at[g])
  BY <1>2, <1>3, <1>4
<1>5. ASSUME NEW g \in w.heads \ {Root}
      PROVE  SameButLength(Entry(k, w.up[g], w.at[g]), Entry(h, w.up[g], w.at[g]))
  <2>1. CASE w.up[g] = d /\ w.at[g] = slot
    BY <1>1, <1>2, <2>1 DEF OldEntry
  <2>2. CASE ~(w.up[g] = d /\ w.at[g] = slot)
    BY <1>4, <2>2 DEF SameButLength
  <2> QED
    BY <2>1, <2>2
<1>6. ASSUME NEW x \in w.dirs, NEW i \in {0, 1}, Entry(h, x, i).free = 1 PROVE Entry(k, x, i).free = 1
  <2>1. CASE x = d /\ i = slot
    <3>1. fcb.free = 1
      BY <1>1, <2>1 DEF OldEntry
    <3> QED
      BY <1>2, <2>1, <3>1
  <2>2. CASE ~(x = d /\ i = slot)
    <3>1. i \in Nat /\ x \in Heads(w) /\ <<x, i>> # <<d, slot>> /\ (i + 1) * FCBSIZE <= Room(h, x)
      BY <1>3, <2>2
    <3>2. Entry(k, x, i) = Entry(h, x, i)
      BY <1>2, <3>1
    <3> QED
      BY <1>6, <3>2
  <2> QED
    BY <2>1, <2>2
<1>7. \A x \in w.dirs : Filled(h, x) => Filled(k, x)
  BY <1>6 DEF Filled
<1> QED
  BY <1>2, <1>4, <1>5, <1>7

LEMMA LagAfter ==
  ASSUME NEW h, NEW k, NEW w, NEW v, NEW d, NEW slot, NEW fcb, NEW txt, DiscFiles(h, txt, w),
         Entering(h, k, w, v, d, slot, fcb, txt)
  PROVE  LagInv(k, v)
<1>1. FatsFollow(h, k) /\ Heads(v) = Heads(w) /\ \A g \in w.heads : g \in v.dirs => g \in w.dirs
  BY DEF Entering, Put, Grows
<1>2. v.dirs \subseteq v.heads /\ \A g \in v.heads \ w.heads : g \in v.dirs => h.fat1[g] = h.fat2[g]
  BY DEF Entering, NewHead, WitnessType
<1>3. LagInv(h, w)
  BY DEF DiscFiles
<1> QED
  BY <1>1, <1>2, <1>3 DEF LagInv, FatsFollow

LEMMA PlacesAfter ==
  ASSUME NEW h, NEW k, NEW w, NEW v, NEW d, NEW slot, NEW fcb, NEW txt, DiscFiles(h, txt, w),
         Entering(h, k, w, v, d, slot, fcb, txt)
  PROVE  PlacesInv(k, v)
<1>1. /\ slot \in Nat /\ NewHead(h, w, v, d, slot, fcb, txt) /\ Grows(w, v, d, slot)
  BY DEF Entering
<1>2. /\ d \in w.dirs /\ w.dirs \subseteq v.dirs
      /\ \A g \in w.heads :
           /\ v.up[g] = w.up[g] /\ v.at[g] = w.at[g]
           /\ g \in v.dirs <=> g \in w.dirs
           /\ v.length[g] = IF g = d THEN NewLength(w.length[d], (slot + 1) * FCBSIZE) ELSE w.length[g]
  BY <1>1 DEF Grows
<1>3. /\ w.dirs \subseteq w.heads
      /\ \A g \in w.heads \ {Root} :
           w.up[g] \in w.dirs /\ w.at[g] \in Nat /\ w.at[g] >= 2
      /\ \A x \in w.dirs : w.length[x] \in Nat
  BY HeadFacts DEF DiscFiles
<1>4. FCBSIZE \in Nat /\ \A i \in Nat : (i + 1) * FCBSIZE \in Nat
  BY Sizes, Times
<1>5. \A x \in w.dirs : v.length[x] \in Nat /\ v.length[x] >= w.length[x]
  <2>1. NewLength(w.length[d], (slot + 1) * FCBSIZE) = IF w.length[d] > (slot + 1) * FCBSIZE THEN w.length[d] ELSE (slot + 1) * FCBSIZE
    BY <1>1, <1>2, <1>3, <1>4, Max2 DEF NewLength
  <2> QED
    BY <1>1, <1>2, <1>3, <1>4, <2>1
<1>6. v.length[d] >= (slot + 1) * FCBSIZE
  <2>1. NewLength(w.length[d], (slot + 1) * FCBSIZE) = IF w.length[d] > (slot + 1) * FCBSIZE THEN w.length[d] ELSE (slot + 1) * FCBSIZE
    BY <1>1, <1>2, <1>3, <1>4, Max2 DEF NewLength
  <2> QED
    BY <1>1, <1>2, <1>3, <1>4, <2>1
<1>7. /\ Entry(k, d, slot) = fcb
      /\ \A g \in w.heads \ {Root} : SameButLength(Entry(k, w.up[g], w.at[g]), Entry(h, w.up[g], w.at[g]))
  BY EntriesAfter
<1>8. PlacesInv(h, w)
  BY DEF DiscFiles
<1>9. ASSUME NEW g \in w.heads \ {Root}
      PROVE  /\ v.up[g] \in v.dirs /\ v.at[g] >= 2 /\ (v.at[g] + 1) * FCBSIZE <= v.length[v.up[g]]
             /\ EntryIs(Entry(k, v.up[g], v.at[g]), g, g \in v.dirs)
  <2>1. /\ (w.at[g] + 1) * FCBSIZE <= w.length[w.up[g]] /\ EntryIs(Entry(h, w.up[g], w.at[g]), g, g \in w.dirs)
    BY <1>8 DEF PlacesInv
  <2>2. /\ (w.at[g] + 1) * FCBSIZE <= v.length[w.up[g]]
    <3>1. (w.at[g] + 1) * FCBSIZE \in Nat /\ w.length[w.up[g]] \in Nat /\ v.length[w.up[g]] \in Nat
          /\ v.length[w.up[g]] >= w.length[w.up[g]]
      BY <1>3, <1>4, <1>5
    <3> QED
      BY <2>1, <3>1
  <2>3. EntryIs(Entry(k, w.up[g], w.at[g]), g, g \in v.dirs)
    <3>1. SameButLength(Entry(k, w.up[g], w.at[g]), Entry(h, w.up[g], w.at[g]))
      BY <1>7
    <3> DEFINE e == Entry(k, w.up[g], w.at[g])
               f == Entry(h, w.up[g], w.at[g])
    <3>2. (g \in v.dirs) = (g \in w.dirs)
      BY <1>2
    <3>3. EntryIs(f, g, g \in v.dirs)
      BY <2>1, <3>2
    <3> HIDE DEF e, f
    <3>4. EntryIs(e, g, g \in v.dirs)
      BY <3>1, <3>3, Zenon DEF EntryIs, SameButLength, e, f
    <3> QED
      BY <3>4 DEF e
  <2> QED
    BY <1>2, <1>3, <2>2, <2>3
<1>10. ASSUME NEW g \in v.heads \ w.heads
       PROVE  /\ v.up[g] \in v.dirs /\ v.at[g] >= 2 /\ (v.at[g] + 1) * FCBSIZE <= v.length[v.up[g]]
              /\ EntryIs(Entry(k, v.up[g], v.at[g]), g, g \in v.dirs)
  <2>1. v.up[g] = d /\ v.at[g] = slot /\ slot >= 2 /\ EntryIs(fcb, g, g \in v.dirs)
    BY <1>1 DEF NewHead
  <2> QED
    BY <1>2, <1>6, <1>7, <2>1
<1> QED
  BY <1>9, <1>10 DEF PlacesInv

LEMMA SizesAfter ==
  ASSUME NEW h, NEW k, NEW w, NEW v, NEW d, NEW slot, NEW fcb, NEW txt, DiscFiles(h, txt, w),
         Entering(h, k, w, v, d, slot, fcb, txt)
  PROVE  SizesInv(k, v)
<1>1. /\ slot \in Nat /\ NewHead(h, w, v, d, slot, fcb, txt) /\ Grows(w, v, d, slot)
      /\ Put(h, k, Heads(w), d, slot, fcb) /\ WitnessType(v)
  BY DEF Entering
<1>2. /\ d \in w.dirs /\ Heads(v) = Heads(w) /\ v.dirs \subseteq v.heads /\ v.heads \subseteq Heads(w)
      /\ \A g \in w.heads :
           /\ g \in v.dirs => g \in w.dirs
           /\ v.length[g] = IF g = d THEN NewLength(w.length[d], (slot + 1) * FCBSIZE) ELSE w.length[g]
  BY <1>1 DEF Grows, WitnessType, Heads
<1>3. /\ w.dirs \subseteq w.heads /\ w.heads \subseteq Heads(w)
      /\ \A g \in Heads(w) : Room(h, g) >= BLOCKSIZE /\ Room(h, g) \in Nat
      /\ \A x \in w.dirs : w.length[x] \in Nat /\ w.length[x] >= 2 * FCBSIZE
  BY HeadFacts DEF DiscFiles
<1>4. /\ \A g \in Heads(w) : Room(k, g) >= Room(h, g) /\ Room(k, g) \in Nat
      /\ (slot + 1) * FCBSIZE <= Room(k, d)
  BY <1>1, EntriesAfter DEF Put
<1>5. \A x \in w.dirs : w.length[x] <= Room(h, x) /\ \E m \in Nat : m >= 2 /\ w.length[x] = m * FCBSIZE
  BY DEF DiscFiles, SizesInv
<1>6. FCBSIZE \in Nat /\ FCBSIZE > 0 /\ BLOCKSIZE \in Nat /\ BLOCKSIZE >= 2 * FCBSIZE /\ (slot + 1) * FCBSIZE \in Nat
  BY <1>1, Sizes, Times
<1>7. /\ v.length[d] <= Room(k, d) /\ \E m \in Nat : m >= 2 /\ v.length[d] = m * FCBSIZE
  <2>1. NewLength(w.length[d], (slot + 1) * FCBSIZE) = IF w.length[d] > (slot + 1) * FCBSIZE THEN w.length[d] ELSE (slot + 1) * FCBSIZE
    BY <1>2, <1>3, <1>6, Max2 DEF NewLength
  <2>2. w.length[d] <= Room(k, d) /\ w.length[d] \in Nat
    <3>1. Room(k, d) \in Nat /\ Room(h, d) \in Nat /\ Room(k, d) >= Room(h, d) /\ w.length[d] \in Nat
          /\ w.length[d] <= Room(h, d)
      BY <1>2, <1>3, <1>4, <1>5
    <3> QED
      BY <3>1
  <2>3. v.length[d] = NewLength(w.length[d], (slot + 1) * FCBSIZE)
    BY <1>2, <1>3
  <2>4. CASE w.length[d] > (slot + 1) * FCBSIZE
    BY <1>2, <1>5, <2>1, <2>2, <2>3, <2>4
  <2>5. CASE ~(w.length[d] > (slot + 1) * FCBSIZE)
    <3>1. v.length[d] = (slot + 1) * FCBSIZE
      BY <2>1, <2>3, <2>5
    <3>2. slot + 1 >= 2
      <4>1. w.length[d] >= 2 * FCBSIZE
        BY <1>2, <1>3
      <4>2. slot = 0 => (slot + 1) * FCBSIZE = FCBSIZE
        BY <1>6, Times
      <4> QED
        BY <1>1, <1>6, <2>2, <2>5, <4>1, <4>2
    <3> QED
      BY <1>1, <1>4, <3>1, <3>2
  <2> QED
    BY <2>4, <2>5
<1>8. ASSUME NEW x \in w.dirs, x # d
      PROVE  v.length[x] <= Room(k, x) /\ \E m \in Nat : m >= 2 /\ v.length[x] = m * FCBSIZE
  <2>1. v.length[x] = w.length[x] /\ Room(k, x) >= Room(h, x) /\ Room(k, x) \in Nat /\ Room(h, x) \in Nat
        /\ w.length[x] \in Nat /\ w.length[x] <= Room(h, x)
    BY <1>2, <1>3, <1>4, <1>5, <1>8
  <2> QED
    BY <1>5, <2>1
<1>9. ASSUME NEW x \in v.dirs, x \notin w.heads
      PROVE  v.length[x] <= Room(k, x) /\ \E m \in Nat : m >= 2 /\ v.length[x] = m * FCBSIZE
  <2>1. v.length[x] = 2 * FCBSIZE /\ x \in Heads(w)
    BY <1>1, <1>2, <1>9 DEF NewHead
  <2>2. Room(k, x) >= Room(h, x) /\ Room(k, x) \in Nat /\ Room(h, x) \in Nat /\ Room(h, x) >= BLOCKSIZE
    BY <1>3, <1>4, <2>1
  <2> QED
    BY <1>6, <2>1, <2>2
<1> QED
  BY <1>2, <1>7, <1>8, <1>9 DEF SizesInv

LEMMA FilledAfter ==
  ASSUME NEW h, NEW k, NEW w, NEW v, NEW d, NEW slot, NEW fcb, NEW txt, DiscFiles(h, txt, w),
         Entering(h, k, w, v, d, slot, fcb, txt)
  PROVE  FilledInv(k, v)
<1>1. NewHead(h, w, v, d, slot, fcb, txt) /\ Grows(w, v, d, slot) /\ WitnessType(v) /\ WitnessType(w)
  BY DEF Entering, DiscFiles
<1>2. /\ v.dirs \subseteq v.heads /\ w.dirs \subseteq w.heads /\ w.raw \subseteq v.raw
      /\ \A g \in w.heads : /\ v.up[g] = w.up[g] /\ v.at[g] = w.at[g] /\ v.above[g] = w.above[g]
                            /\ g \in v.dirs => g \in w.dirs
      /\ \A g \in v.heads \ w.heads : g \in v.dirs => g \in v.raw
  BY <1>1 DEF Grows, WitnessType, NewHead
<1>3. /\ \A g \in w.heads \ {Root} : SameButLength(Entry(k, w.up[g], w.at[g]), Entry(h, w.up[g], w.at[g]))
      /\ \A x \in w.dirs : Filled(h, x) => Filled(k, x)
  BY EntriesAfter
<1>4. ASSUME NEW x \in w.heads \ {Root} PROVE NameOf(k, v, x) = NameOf(h, w, x)
  BY <1>2, <1>3 DEF NameOf, SameButLength
<1>5. ASSUME NEW x \in v.dirs \ ({Root} \union v.raw)
      PROVE  Filled(k, x) \/ \E a \in v.above[v.up[x]] \ {Root} : NameOf(k, v, a) = NameOf(k, v, x)
  <2>1. x \in w.dirs \ ({Root} \union w.raw) /\ x \in w.heads \ {Root}
    BY <1>2
  <2>2. CASE Filled(h, x)
    BY <1>3, <2>1, <2>2
  <2>3. CASE ~Filled(h, x)
    <3>1. PICK a \in w.above[w.up[x]] \ {Root} : NameOf(h, w, a) = NameOf(h, w, x)
      BY <2>1, <2>3 DEF DiscFiles, FilledInv
    <3>2. w.up[x] \in w.heads
      BY <1>2, <2>1 DEF DiscFiles, PlacesInv
    <3>3. a \in w.heads \ {Root}
      BY <1>2, <3>2 DEF DiscFiles, AboveInv
    <3>4. NameOf(k, v, a) = NameOf(k, v, x)
      BY <1>4, <2>1, <3>1, <3>3
    <3> QED
      BY <1>2, <2>1, <3>2, <3>4
  <2> QED
    BY <2>2, <2>3
<1> QED
  BY <1>5 DEF FilledInv

LEMMA TextAfter ==
  ASSUME NEW h, NEW k, NEW w, NEW v, NEW d, NEW slot, NEW fcb, NEW txt, DiscFiles(h, txt, w),
         Entering(h, k, w, v, d, slot, fcb, txt)
  PROVE  TextInv(k, txt, v)
<1>1. NewHead(h, w, v, d, slot, fcb, txt) /\ Grows(w, v, d, slot) /\ WitnessType(v)
      /\ Put(h, k, Heads(w), d, slot, fcb)
  BY DEF Entering
<1>2. TextInv(h, txt, w)
  BY DEF DiscFiles
<1>3. /\ w.heads \subseteq Heads(w) /\ v.heads \subseteq Heads(w)
      /\ \A g \in Heads(w) : OneChain(h, g)
  BY <1>1, HeadFacts DEF DiscFiles, Heads, Grows
<1>4. ASSUME NEW g \in w.heads \ v.dirs
      PROVE  /\ Len(txt[g]) = v.length[g] /\ v.length[g] <= Room(k, g)
             /\ \A p \in 0 .. v.length[g] - 1 : Cell(k, g, p) = <<"char", txt[g][p + 1], 0>>
  <2>1. g # d /\ g \in w.heads \ w.dirs /\ v.length[g] = w.length[g]
    BY <1>1 DEF Grows
  <2>2. Unmoved(h, k, g) /\ OneChain(h, g)
    BY <1>1, <1>3, <2>1 DEF Put
  <2>3. Room(k, g) = Room(h, g) /\ Room(h, g) \in Nat /\ \A p \in 0 .. Room(h, g) - 1 : Cell(k, g, p) = Cell(h, g, p)
    BY <2>2, UnmovedCells, RoomFacts
  <2>4. /\ Len(txt[g]) = w.length[g] /\ w.length[g] <= Room(h, g)
        /\ \A p \in 0 .. w.length[g] - 1 : Cell(h, g, p) = <<"char", txt[g][p + 1], 0>>
    BY <1>2, <2>1 DEF TextInv
  <2>5. w.length[g] \in Nat
    BY DEF DiscFiles, WitnessType
  <2>6. \A p \in 0 .. w.length[g] - 1 : p \in 0 .. Room(h, g) - 1
    BY <2>3, <2>4, <2>5
  <2> QED
    BY <2>1, <2>3, <2>4, <2>6
<1>5. ASSUME NEW g \in v.heads \ w.heads, g \notin v.dirs
      PROVE  /\ Len(txt[g]) = v.length[g] /\ v.length[g] <= Room(k, g)
             /\ \A p \in 0 .. v.length[g] - 1 : Cell(k, g, p) = <<"char", txt[g][p + 1], 0>>
  <2>1. v.length[g] = 0 /\ txt[g] = <<>>
    BY <1>1, <1>5 DEF NewHead
  <2>2. Room(k, g) \in Nat
    BY <1>3, EntriesAfter
  <2> QED
    BY <2>1, <2>2
<1> QED
  BY <1>2, <1>4, <1>5 DEF TextInv

LEMMA FilesAfter ==
  ASSUME NEW h, NEW k, NEW w, NEW v, NEW d, NEW slot, NEW fcb, NEW txt, DiscFiles(h, txt, w),
         Entering(h, k, w, v, d, slot, fcb, txt)
  PROVE  DiscFiles(k, txt, v)
<1>1. /\ slot \in Nat /\ NewHead(h, w, v, d, slot, fcb, txt) /\ Grows(w, v, d, slot)
      /\ Put(h, k, Heads(w), d, slot, fcb) /\ WitnessType(v) /\ AboveInv(v)
  BY DEF Entering
<1>2. Heads(v) = Heads(w) /\ ChainsInv(k, Heads(v))
  BY <1>1 DEF Put, Grows
<1>3. UnitsInv(k, v)
  <2>1. \A g \in w.heads \ {Root} : g \in v.heads /\ v.up[g] = w.up[g] /\ v.at[g] = w.at[g]
    BY <1>1 DEF Grows
  <2>2. \A x \in w.holes : x = <<d, slot>> \/ x \in v.holes
    BY <1>1 DEF Grows
  <2>3. fcb.filename \in Given =>
           fcb.first \in v.heads \ {Root} /\ v.up[fcb.first] = d /\ v.at[fcb.first] = slot
    BY <1>1 DEF NewHead
  <2>4. UnitsInv(h, w)
    BY DEF DiscFiles
  <2> QED
    BY <1>1, <1>2, <2>1, <2>2, <2>3, <2>4, PutUnits
<1>4. LagInv(k, v) /\ PlacesInv(k, v) /\ SizesInv(k, v) /\ FilledInv(k, v) /\ TextInv(k, txt, v)
  BY LagAfter, PlacesAfter, SizesAfter, FilledAfter, TextAfter
<1> QED
  BY <1>1, <1>2, <1>3, <1>4 DEF DiscFiles

-----------------------------------------------------------------------------
(* What an FCB in a directory does to the table.                           *)

LEMMA EnteredFields ==
  ASSUME NEW o \in [Fd -> OpenType], NEW fd \in Fd, NEW length
  PROVE  LET p == Enter(o, fd, length)
         IN  /\ \A x \in Fd : /\ SameButLength(p[x].fcb, o[x].fcb) /\ p[x].fcb.first = o[x].fcb.first
                              /\ p[x].diroff = o[x].diroff /\ p[x].father = o[x].father
                              /\ p[x].topenfile = o[x].topenfile
             /\ \A x \in Fd : x # fd => p[x] = o[x]
             /\ p[fd].fcb.length = length /\ p[fd].fcbstate
<1> DEFINE p == Enter(o, fd, length)
           e == Entered(o[fd], length)
           f == [o[fd].fcb EXCEPT !.length = length]
<1>1. o[fd].fcb \in FcbType
  BY Entries
<1>2. /\ f.filename = o[fd].fcb.filename /\ f.exname = o[fd].fcb.exname /\ f.directory = o[fd].fcb.directory
      /\ f.first = o[fd].fcb.first /\ f.free = o[fd].fcb.free /\ f.length = length
  BY <1>1 DEF FcbType
<1>3. e.fcb = f /\ e.diroff = o[fd].diroff /\ e.father = o[fd].father /\ e.topenfile = o[fd].topenfile /\ e.fcbstate
  BY DEF Entered
<1>4. p[fd] = e /\ \A x \in Fd : x # fd => p[x] = o[x]
  BY DEF Enter
<1> HIDE DEF p, e, f
<1>5. SameButLength(p[fd].fcb, o[fd].fcb)
  BY <1>2, <1>3, <1>4 DEF SameButLength
<1>6. \A x \in Fd : SameButLength(o[x].fcb, o[x].fcb)
  BY DEF SameButLength
<1>7. \A x \in Fd : SameButLength(p[x].fcb, o[x].fcb) /\ p[x].fcb.first = o[x].fcb.first
  BY <1>4, <1>5, <1>6 DEF SameButLength
<1>8. \A x \in Fd : /\ p[x].diroff = o[x].diroff /\ p[x].father = o[x].father
                    /\ p[x].topenfile = o[x].topenfile
  BY <1>3, <1>4
<1> QED
  BY <1>2, <1>3, <1>4, <1>7, <1>8 DEF p

LEMMA SameTrans ==
  ASSUME NEW a, NEW b, NEW c, SameButLength(a, b)
  PROVE  /\ SameButLength(b, a)
         /\ SameButLength(b, c) => SameButLength(a, c)
BY DEF SameButLength

\* The open files and the witness in order.
LEMMA OpenAfter ==
  ASSUME NEW h, NEW k, NEW w, NEW v, NEW d, NEW slot, NEW fcb, NEW txt, DiscFiles(h, txt, w),
         Entering(h, k, w, v, d, slot, fcb, txt),
         NEW o, NEW cur, TableInv(o, cur), OpenInv(h, o, cur, w), NEW fd \in Fd, o[fd].topenfile,
         o[fd].fcb.first = d
  PROVE  OpenInv(k, Enter(o, fd, NewLength(o[fd].fcb.length, (slot + 1) * FCBSIZE)), cur, v)
<1> DEFINE len == NewLength(o[fd].fcb.length, (slot + 1) * FCBSIZE)
           p == Enter(o, fd, len)
<1>1. /\ \A x \in Fd : /\ SameButLength(p[x].fcb, o[x].fcb) /\ p[x].fcb.first = o[x].fcb.first
                       /\ p[x].diroff = o[x].diroff /\ p[x].father = o[x].father
                       /\ p[x].topenfile = o[x].topenfile
      /\ \A x \in Fd : x # fd => p[x] = o[x]
      /\ p[fd].fcb.length = len /\ p[fd].fcbstate
  <2>1. o \in [Fd -> OpenType]
    BY DEF TableInv
  <2> HIDE DEF len
  <2> QED
    BY <2>1, EnteredFields
<1> HIDE DEF p
<1>2. /\ \A x \in Fd : IF o[x].topenfile THEN OpenHead(h, w, o[x].fcb) ELSE o[x] = Closed
      /\ \A x \in Fd \ {0} : o[x].topenfile => OpenEntry(h, w, o[x], o[o[x].father])
      /\ \A x, g \in Fd : o[x].topenfile /\ o[g].topenfile /\ o[x].fcb.first = o[g].fcb.first => x = g
      /\ OpenAbove(o, cur) = w.above[o[cur].fcb.first]
      /\ ClosedLengths(h, o, w)
  BY DEF OpenInv
<1>3. /\ d \in w.dirs /\ w.heads \subseteq v.heads /\ w.raw \subseteq v.raw
      /\ \A g \in w.heads :
           /\ v.up[g] = w.up[g] /\ v.at[g] = w.at[g] /\ v.above[g] = w.above[g]
           /\ g \in v.dirs => g \in w.dirs
           /\ v.length[g] = IF g = d THEN NewLength(w.length[d], (slot + 1) * FCBSIZE) ELSE w.length[g]
  BY DEF Entering, Grows
<1>4. /\ Entry(k, d, slot) = fcb
      /\ \A g \in w.heads \ {Root} : ~(w.up[g] = d /\ w.at[g] = slot) =>
              Entry(k, w.up[g], w.at[g]) = Entry(h, w.up[g], w.at[g])
      /\ \A g \in w.heads \ {Root} : SameButLength(Entry(k, w.up[g], w.at[g]), Entry(h, w.up[g], w.at[g]))
      /\ \A x \in w.dirs : Filled(h, x) => Filled(k, x)
  BY EntriesAfter
<1>5. \A g \in w.heads \ {Root} : w.up[g] = d /\ w.at[g] = slot => fcb.length = w.length[g]
  BY DEF Entering, OldEntry
<1>6. cur \in Fd /\ \A x \in Fd \ {0} : o[x].topenfile => o[x].father \in Fd /\ o[o[x].father].topenfile
  BY Entries DEF TableInv
<1>7. w.length[d] = o[fd].fcb.length /\ len = v.length[d]
  <2>1. OpenHead(h, w, o[fd].fcb)
    BY <1>2
  <2>2. w.length[d] = o[fd].fcb.length /\ d \in w.heads
    BY <2>1 DEF OpenHead
  <2> QED
    BY <1>3, <2>2
<1> HIDE DEF len
<1>8. ASSUME NEW x \in Fd
      PROVE  IF p[x].topenfile THEN OpenHead(k, v, p[x].fcb) ELSE p[x] = Closed
  <2>1. CASE ~o[x].topenfile
    <3>1. x # fd /\ p[x] = o[x] /\ o[x] = Closed
      BY <1>1, <1>2, <2>1
    <3> QED
      BY <2>1, <3>1
  <2>2. CASE o[x].topenfile
    <3> DEFINE g == o[x].fcb.first
    <3>1. g \in w.heads /\ w.length[g] = o[x].fcb.length /\ (g \in w.dirs \ w.raw => Filled(h, g))
      BY <1>2, <2>2 DEF OpenHead
    <3>2. g \in v.heads /\ p[x].fcb.first = g /\ (g \in v.dirs \ v.raw => Filled(k, g))
      BY <1>1, <1>3, <1>4, <3>1
    <3>3. v.length[g] = p[x].fcb.length
      <4>1. CASE x = fd
        BY <1>1, <1>7, <4>1
      <4>2. CASE x # fd
        <5>1. g # d /\ p[x] = o[x]
          BY <1>1, <1>2, <2>2, <4>2
        <5> QED
          BY <1>3, <3>1, <5>1
      <4> QED
        BY <4>1, <4>2
    <3> HIDE DEF g
    <3>4. OpenHead(k, v, p[x].fcb)
      BY <3>2, <3>3 DEF OpenHead
    <3> QED
      BY <1>1, <2>2, <3>4
  <2> QED
    BY <2>1, <2>2
<1>9. ASSUME NEW x \in Fd \ {0}, p[x].topenfile PROVE OpenEntry(k, v, p[x], p[p[x].father])
  <2> DEFINE g == o[x].fcb.first
             a == Entry(h, w.up[g], w.at[g])
             b == Entry(k, w.up[g], w.at[g])
  <2>1. o[x].topenfile /\ o[x].father \in Fd
    BY <1>1, <1>6, <1>9
  <2>2. /\ g # Root /\ w.up[g] = o[o[x].father].fcb.first /\ w.at[g] = o[x].diroff
        /\ SameButLength(o[x].fcb, a)
        /\ o[x].fcbstate \/ o[x].fcb.length \in {a.length, 0}
    BY <1>2, <2>1 DEF OpenEntry
  <2>3. g \in w.heads /\ w.length[g] = o[x].fcb.length
    BY <1>2, <2>1 DEF OpenHead
  <2>4. /\ v.up[g] = w.up[g] /\ v.at[g] = w.at[g] /\ p[x].fcb.first = g
        /\ v.up[g] = p[p[x].father].fcb.first /\ v.at[g] = p[x].diroff
    BY <1>1, <1>3, <2>1, <2>2, <2>3
  <2>5. SameButLength(p[x].fcb, b)
    <3>1. SameButLength(b, a) /\ SameButLength(p[x].fcb, o[x].fcb)
      BY <1>1, <1>4, <2>2, <2>3, SMTT(30)
    <3> HIDE DEF a, b
    <3> QED
      BY <2>2, <3>1 DEF SameButLength
  <2>6. p[x].fcbstate \/ p[x].fcb.length \in {b.length, 0}
    <3>1. CASE x = fd
      BY <1>1, <3>1
    <3>2. CASE x # fd /\ w.up[g] = d /\ w.at[g] = slot
      <4>1. b = fcb /\ fcb.length = w.length[g]
        BY <1>4, <1>5, <2>2, <2>3, <3>2
      <4> QED
        BY <1>1, <2>3, <3>2, <4>1
    <3>3. CASE x # fd /\ ~(w.up[g] = d /\ w.at[g] = slot)
      <4>1. b = a
        BY <1>4, <2>2, <2>3, <3>3
      <4> HIDE DEF a, b
      <4> QED
        BY <1>1, <2>2, <3>3, <4>1
    <3> QED
      BY <3>1, <3>2, <3>3
  <2>7. b = Entry(k, v.up[g], v.at[g])
    BY <2>4
  <2> HIDE DEF a, b, g
  <2> QED
    BY <2>2, <2>4, <2>5, <2>6, <2>7 DEF OpenEntry
<1>10. \A x, g \in Fd : p[x].topenfile /\ p[g].topenfile /\ p[x].fcb.first = p[g].fcb.first => x = g
  BY <1>1, <1>2
<1>11. OpenAbove(p, cur) = v.above[p[cur].fcb.first]
  <2>1. OpenAbove(p, cur) = OpenAbove(o, cur)
    BY <1>1 DEF OpenAbove
  <2>2. o[cur].fcb.first \in w.heads
    <3>1. o[cur].topenfile
      BY DEF TableInv
    <3> QED
      BY <1>2, <1>6, <3>1 DEF OpenHead
  <2> QED
    BY <1>1, <1>2, <1>3, <1>6, <2>1, <2>2
<1>12. ASSUME NEW g \in v.heads \ {Root}, ~IsOpen(p, g)
       PROVE  Entry(k, v.up[g], v.at[g]).length = v.length[g]
  <2>1. ~IsOpen(o, g) /\ g # d
    BY <1>1, <1>12 DEF IsOpen
  <2>2. CASE g \in w.heads /\ w.up[g] = d /\ w.at[g] = slot
    BY <1>3, <1>4, <1>5, <2>1, <2>2
  <2>3. CASE g \in w.heads /\ ~(w.up[g] = d /\ w.at[g] = slot)
    <3>1. Entry(h, w.up[g], w.at[g]).length = w.length[g]
      BY <1>2, <2>1, <2>3 DEF ClosedLengths
    <3>2. Entry(k, w.up[g], w.at[g]) = Entry(h, w.up[g], w.at[g])
      BY <1>4, <2>3
    <3> QED
      BY <1>3, <2>1, <2>3, <3>1, <3>2
  <2>4. CASE g \notin w.heads
    <3>1. v.up[g] = d /\ v.at[g] = slot /\ fcb.length = v.length[g]
      BY <2>4 DEF Entering, NewHead
    <3> QED
      BY <1>4, <3>1
  <2> QED
    BY <2>2, <2>3, <2>4
<1>13. OpenInv(k, p, cur, v)
  BY <1>8, <1>9, <1>10, <1>11, <1>12 DEF OpenInv, ClosedLengths
<1> QED
  BY <1>13 DEF p, len

Filed(s, cur, txt, w) ==
  Sound(s, cur) /\ s.broken = "no" /\ FilesInv(s.hard, s.open, cur, txt, w)

LEMMA FiledEntering ==
  ASSUME NEW s, NEW cur, NEW txt, NEW w, Filed(s, cur, txt, w), NEW fd \in Fd, s.open[fd].topenfile,
         NEW slot \in Nat, NEW fcb, FcbOk(fcb), NEW t, t = WriteFcb(s, fd, slot, fcb),
         t.broken = "no", Sound(t, cur),
         NEW v, WitnessType(v), AboveInv(v), NEW d, d = s.open[fd].fcb.first, Grows(w, v, d, slot),
         OldEntry(s.hard, w, d, slot, fcb), NewHead(s.hard, w, v, d, slot, fcb, txt)
  PROVE  /\ Entering(s.hard, t.hard, w, v, d, slot, fcb, txt)
         /\ t.open = Enter(s.open, fd, NewLength(s.open[fd].fcb.length, (slot + 1) * FCBSIZE))
<1>1. /\ Sound(s, cur) /\ s.broken = "no" /\ DiscFiles(s.hard, txt, w) /\ OpenInv(s.hard, s.open, cur, w)
      /\ TableInv(s.open, cur)
  BY DEF Filed, FilesInv, Sound
<1>2. d \in Heads(w) /\ ChainsInv(s.hard, Heads(w))
  BY <1>1 DEF Grows, WitnessType, Heads, DiscFiles
<1>3. /\ Put(s.hard, t.hard, Heads(w), d, slot, fcb)
      /\ t.open = Enter(s.open, fd, NewLength(s.open[fd].fcb.length, (slot + 1) * FCBSIZE))
  <2> DEFINE X == Heads(w)
  <2>1. ChainsInv(s.hard, X) /\ s.open[fd].fcb.first \in X /\ WriteFcb(s, fd, slot, fcb).broken = "no"
    BY <1>2
  <2> HIDE DEF X
  <2>2. LET u == WriteFcb(s, fd, slot, fcb)
        IN  /\ Put(s.hard, u.hard, X, s.open[fd].fcb.first, slot, fcb)
            /\ u.open = Enter(s.open, fd, NewLength(s.open[fd].fcb.length, (slot + 1) * FCBSIZE))
    BY <1>1, <2>1, PutTo
  <2> QED
    BY <2>2 DEF X
<1>4. Entering(s.hard, t.hard, w, v, d, slot, fcb, txt)
  BY <1>3 DEF Entering
<1> QED
  BY <1>3, <1>4

LEMMA FiledPut ==
  ASSUME NEW s, NEW cur, NEW txt, NEW w, Filed(s, cur, txt, w), NEW fd \in Fd, s.open[fd].topenfile,
         NEW slot \in Nat, NEW fcb, FcbOk(fcb), NEW t, t = WriteFcb(s, fd, slot, fcb),
         t.broken = "no", Sound(t, cur),
         NEW v, WitnessType(v), AboveInv(v), NEW d, d = s.open[fd].fcb.first, Grows(w, v, d, slot),
         OldEntry(s.hard, w, d, slot, fcb), NewHead(s.hard, w, v, d, slot, fcb, txt)
  PROVE  Filed(t, cur, txt, v)
<1>1. /\ DiscFiles(s.hard, txt, w) /\ OpenInv(s.hard, s.open, cur, w) /\ TableInv(s.open, cur)
  BY DEF Filed, FilesInv, Sound
<1>2. /\ Entering(s.hard, t.hard, w, v, d, slot, fcb, txt)
      /\ t.open = Enter(s.open, fd, NewLength(s.open[fd].fcb.length, (slot + 1) * FCBSIZE))
  BY FiledEntering
<1>3. DiscFiles(t.hard, txt, v)
  BY <1>1, <1>2, FilesAfter
<1>4. OpenInv(t.hard, t.open, cur, v)
  BY <1>1, <1>2, OpenAfter
<1> QED
  BY <1>3, <1>4 DEF Filed, FilesInv

\* The same tree, with something under way.
Now(w, orphans, holes, raw) ==
  [heads |-> w.heads, dirs |-> w.dirs, up |-> w.up, at |-> w.at, length |-> w.length,
   above |-> w.above, depth |-> w.depth, orphans |-> orphans, holes |-> holes, raw |-> raw]

LEMMA NowFields ==
  ASSUME NEW w, NEW orphans, NEW holes, NEW raw
  PROVE  LET v == Now(w, orphans, holes, raw)
         IN  /\ v.heads = w.heads /\ v.dirs = w.dirs /\ v.up = w.up /\ v.at = w.at /\ v.length = w.length
             /\ v.above = w.above /\ v.depth = w.depth
             /\ v.orphans = orphans /\ v.holes = holes /\ v.raw = raw
BY DEF Now

SameTree(w, v) ==
  /\ v.heads = w.heads /\ v.dirs = w.dirs /\ v.up = w.up /\ v.at = w.at /\ v.length = w.length
  /\ v.above = w.above /\ v.depth = w.depth

LEMMA NowTyped ==
  ASSUME NEW w, WitnessType(w), NEW orphans \in SUBSET Block, orphans \intersect w.heads = {},
         NEW holes, NEW raw
  PROVE  LET v == Now(w, orphans, holes, raw)
         IN  /\ WitnessType(v) /\ SameTree(w, v) /\ (AboveInv(w) => AboveInv(v))
             /\ v.orphans = orphans /\ v.holes = holes /\ v.raw = raw
<1> DEFINE v == Now(w, orphans, holes, raw)
<1>1. SameTree(w, v) /\ v.orphans = orphans /\ v.holes = holes /\ v.raw = raw
  BY NowFields DEF SameTree
<1> HIDE DEF v
<1>2. WitnessType(v)
  BY <1>1 DEF SameTree, WitnessType
<1>3. AboveInv(w) => AboveInv(v)
  BY <1>1 DEF SameTree, AboveInv
<1> QED
  BY <1>1, <1>2, <1>3 DEF v

\* An entry that stays within the directory's length and adds nothing to it.
LEMMA PutSame ==
  ASSUME NEW s, NEW cur, NEW txt, NEW w, Filed(s, cur, txt, w), NEW fd \in Fd, s.open[fd].topenfile,
         NEW slot \in Nat, NEW fcb, FcbOk(fcb), NEW t, t = WriteFcb(s, fd, slot, fcb),
         t.broken = "no", Sound(t, cur), NEW d, d = s.open[fd].fcb.first, d \in w.dirs,
         (slot + 1) * FCBSIZE <= s.open[fd].fcb.length,
         OldEntry(s.hard, w, d, slot, fcb),
         fcb.filename \in Given =>
           fcb.first \in w.heads \ {Root} /\ w.up[fcb.first] = d /\ w.at[fcb.first] = slot,
         NEW v, SameTree(w, v), WitnessType(v), v.orphans = w.orphans, v.raw = w.raw,
         \A x \in w.holes : x = <<d, slot>> \/ x \in v.holes
  PROVE  Filed(t, cur, txt, v)
<1>1. DiscFiles(s.hard, txt, w) /\ OpenInv(s.hard, s.open, cur, w)
  BY DEF Filed, FilesInv
<1>2. AboveInv(v)
  <2>1. AboveInv(w)
    BY <1>1 DEF DiscFiles
  <2> QED
    BY <2>1 DEF SameTree, AboveInv
<1>3. NewLength(w.length[d], (slot + 1) * FCBSIZE) = w.length[d]
  <2>1. w.length[d] = s.open[fd].fcb.length
    BY <1>1 DEF OpenInv, OpenHead
  <2>2. w.length[d] \in Nat
    BY <1>1, HeadFacts DEF DiscFiles
  <2>3. (slot + 1) * FCBSIZE \in Nat
    <3>1. slot + 1 \in Nat /\ FCBSIZE \in Nat
      BY Sizes
    <3> QED
      BY <3>1, Times
  <2>4. NewLength(w.length[d], (slot + 1) * FCBSIZE)
        = IF w.length[d] > (slot + 1) * FCBSIZE THEN w.length[d] ELSE (slot + 1) * FCBSIZE
    BY <2>2, <2>3, Max2 DEF NewLength
  <2> QED
    BY <2>1, <2>2, <2>3, <2>4
<1>4. Grows(w, v, d, slot)
  BY <1>3 DEF Grows, SameTree, Heads
<1>5. NewHead(s.hard, w, v, d, slot, fcb, txt)
  BY DEF NewHead, SameTree
<1> QED
  BY <1>2, <1>4, <1>5, FiledPut
=============================================================================
