----------------------------- MODULE FileSystem -----------------------------
(***************************************************************************)
(* bak/fat16.c: a file system on a simulated disc, with a table of open    *)
(* files and a command loop.  One user gives commands; a command is one    *)
(* step.  The disc is a memory image that only my_format() and             *)
(* my_exitsys() write to a file, and that startsys() reads.                *)
(*                                                                         *)
(* A block holds BLOCKSIZE units and an FCB fills FCBSIZE of them, so that *)
(* FCBs lie across blocks.  A unit is <<"fcb", the FCB, which part>>,      *)
(* <<"char", a character, 0>> or zero.                                     *)
(*                                                                         *)
(* Where the program reads a variable it has not set, leaves its tables or *)
(* its buffers, takes "no free block" for a block number or gives back the *)
(* blocks of a file that keeps its entry, `broken` says so and nothing     *)
(* more is modelled.                                                       *)
(*                                                                         *)
(* my_open() cuts every name at its '.', also the name of a directory that *)
(* my_mkdir() and my_rmdir() have just written or found whole.             *)
(***************************************************************************)
EXTENDS Integers, Sequences, SequencesExt, FiniteSetsExt

CONSTANTS
  BLOCKSIZE, FCBSIZE,
  Blocks,             \* SIZE / BLOCKSIZE
  MAXOPENFILE,
  MAXTEXT,            \* the size of every buffer that do_read() fills
  Name,               \* what the user gives as a name, with a '.' or without
  Split,              \* what strtok() makes of it: <<name, extension>>
  Lines,              \* the lines the user types: sequences of characters
  MaxLength           \* bound: the longest file, in units

END  == 65535
FREE == 0
Root == 5             \* the first block of the root directory
FirstData == 7

ASSUME FileSystemAssumption ==
  /\ FCBSIZE \in Nat \ {0} /\ BLOCKSIZE \in Nat /\ BLOCKSIZE >= 2 * FCBSIZE
  /\ Blocks \in Nat /\ Blocks > FirstData /\ Blocks < END
  /\ MAXOPENFILE \in Nat \ {0}
  /\ MAXTEXT \in Nat
  /\ \A n \in Name : Split[n][2] \in {"", "x"}
  /\ {"", ".", ".."} \intersect (Name \union {Split[n][1] : n \in Name}) = {}
  /\ \A l \in Lines : l \in Seq(ToSet(l)) /\ l /= <<>> /\ Len(l) < MAXTEXT

VARIABLES
  myvhard,         \* the disc image: [block, fat1, fat2]
  openfilelist,    \* by number: [fcb, diroff, father, fcbstate, topenfile]
  curdir,
  running,
  broken,
  myfilesys,       \* the file: a disc image, with its ghost
  text,            \* ghost: what the user wrote into the file that begins
                   \* in a block, as long as nothing is dotted
  dotted           \* ghost: a directory was made or removed under a name
                   \* with a '.'

vars == <<myvhard, openfilelist, curdir, running, broken, myfilesys, text, dotted>>

Block == 0 .. Blocks - 1
Unit  == 0 .. BLOCKSIZE - 1
Fd    == 0 .. MAXOPENFILE - 1
Zero  == <<"zero", "", 0>>

HasDot(name) == Split[name] /= <<name, "">>

\* exname is "x" for every file and empty for a directory; files with other
\* extensions are files with other names.
Fcb(name, isdir, first, length) ==
  [filename |-> name, exname |-> IF isdir THEN "" ELSE "x", directory |-> isdir,
   first |-> first, length |-> length, free |-> 1]

NoFcb == [Fcb("", TRUE, 0, 0) EXCEPT !.free = 0]

Units(fcb) == [k \in 1 .. FCBSIZE |-> <<"fcb", fcb, k>>]

Closed == [fcb |-> NoFcb, diroff |-> 0, father |-> 0, fcbstate |-> FALSE, topenfile |-> FALSE]

-----------------------------------------------------------------------------
(* Blocks and the FAT.  h is a disc image.                                 *)

FreeBlocks(h) == {b \in FirstData .. Blocks - 1 : h.fat1[b] = FREE}

findblock(h) == Min(FreeBlocks(h))

\* The blocks from first on, as the loops over the FAT meet them.
Chain(h, first) ==
  LET c[n \in 0 .. Blocks] ==
        IF n = 0 THEN <<first>>
        ELSE LET p    == c[n - 1]
                 next == h.fat1[Last(p)]
             IN  IF next = END THEN p ELSE Append(p, next)
  IN  c[Blocks]

\* (Wrong: only the first FAT is written.)
FreeChainOnce(h, first) ==
  LET gone == ToSet(Chain(h, first))
  IN  [h EXCEPT !.fat1 = [b \in Block |-> IF b \in gone THEN FREE ELSE @[b]]]

FreeChain(h, first) ==
  LET gone == ToSet(Chain(h, first))
  IN  [h EXCEPT !.fat1 = [b \in Block |-> IF b \in gone THEN FREE ELSE @[b]],
                !.fat2 = [b \in Block |-> IF b \in gone THEN FREE ELSE @[b]]]

\* The first n + 1 blocks from first on; the chain grows where it is too short.
GrownChain(h, first, n) ==
  LET c[k \in 0 .. n] ==
        IF k = 0 THEN [h |-> h, at |-> <<first>>, full |-> FALSE]
        ELSE LET p    == c[k - 1]
                 last == Last(p.at)
                 b    == findblock(p.h)
             IN  IF p.full THEN p
                 ELSE IF p.h.fat1[last] /= END THEN [p EXCEPT !.at = Append(@, p.h.fat1[last])]
                 ELSE IF FreeBlocks(p.h) = {} THEN [p EXCEPT !.full = TRUE]
                 ELSE [p EXCEPT !.at = Append(@, b),
                                !.h.fat1 = [@ EXCEPT ![last] = b, ![b] = END],
                                !.h.fat2 = [@ EXCEPT ![last] = b, ![b] = END]]
  IN  c[n]

-----------------------------------------------------------------------------
(* Files.  s is what a command works on: [hard, open, broken].             *)

Break(s, why) == [s EXCEPT !.broken = why]

\* do_read() with count 0.
do_read(h, first, len) ==
  LET at == Chain(h, first)
  IN  [k \in 1 .. Min({len, Len(at) * BLOCKSIZE}) |->
         h.block[at[(k - 1) \div BLOCKSIZE + 1]][(k - 1) % BLOCKSIZE]]

\* (Wrong: writing over the file makes it shorter or longer.)
LengthOfCount(length, count) == count

NewLength(length, count) == Max({length, count})

\* The blocks at, one after the other, take units from place count on.
WriteBlocks(block, at, count, units) ==
  LET end == count + Len(units)
      Before(b) == BLOCKSIZE * ((CHOOSE n \in DOMAIN at : at[n] = b) - 1)
  IN  [b \in Block |->
         IF b \notin ToSet(at) THEN block[b]
         ELSE [j \in Unit |-> LET p == Before(b) + j
                              IN  IF p \in count .. end - 1
                                  THEN units[p - count + 1] ELSE block[b][j]]]

do_write(s, fd, count, units) ==
  LET end   == count + Len(units)
      grown == GrownChain(s.hard, s.open[fd].fcb.first, (end - 1) \div BLOCKSIZE)
  IN  IF grown.full THEN Break(s, "disc full")
      ELSE [s EXCEPT !.hard = [grown.h EXCEPT !.block = WriteBlocks(@, grown.at, count, units)],
                     !.open[fd].fcb.length = NewLength(@, end),
                     !.open[fd].fcbstate = TRUE]

\* The FCBs of an open directory, counted from 0.
Listing(h, first, length) ==
  LET t == do_read(h, first, length)
  IN  [i \in 0 .. Len(t) \div FCBSIZE - 1 |->
         LET u == t[i * FCBSIZE + 1] IN IF u[1] = "fcb" THEN u[2] ELSE NoFcb]

Dir(s, fd) == Listing(s.hard, s.open[fd].fcb.first, s.open[fd].fcb.length)

\* do_read() does not ask how long the buffer is; it ends what it read with 0.
Fits(s, fd) == s.open[fd].fcb.length < MAXTEXT

Matches(dir, name, ex) == {i \in DOMAIN dir : dir[i].filename = name /\ dir[i].exname = ex}

FreeSlot(dir) ==
  Min({i \in DOMAIN dir : dir[i].free = 0} \union {Cardinality(DOMAIN dir)})

WriteFcb(s, fd, slot, fcb) == do_write(s, fd, slot * FCBSIZE, Units(fcb))

\* (Wrong: the entry keeps the length that it was made with.)
WriteDotStale(s, fd, dot) == WriteFcb(s, fd, 0, dot)

\* The directory's own entry gets its length.
WriteDot(s, fd, dot) == WriteFcb(s, fd, 0, [dot EXCEPT !.length = s.open[fd].fcb.length])

\* (Wrong: the place of the entry is not kept.)
OpenedWithoutPlace(dir, i, d) ==
  [fcb |-> dir[i], diroff |-> 0, father |-> d, fcbstate |-> FALSE, topenfile |-> TRUE]

\* Entry i of the directory open as d, opened.
Opened(dir, i, d) ==
  [fcb |-> dir[i], diroff |-> i, father |-> d, fcbstate |-> FALSE, topenfile |-> TRUE]

\* my_open() in directory d of a name that is split; fd is -1 if it fails.
OpenAs(s, d, name, ex) ==
  LET dir  == Dir(s, d)
      i    == Min(Matches(dir, name, ex))
      Free == {fd \in Fd : ~s.open[fd].topenfile}
      isOpen == \E fd \in Fd \ {d} : s.open[fd].fcb.filename = name /\ s.open[fd].fcb.exname = ex
  IN  IF isOpen THEN [s |-> s, fd |-> -1]
      ELSE IF ~Fits(s, d) THEN [s |-> Break(s, "text"), fd |-> -1]
      ELSE IF Matches(dir, name, ex) = {} THEN [s |-> s, fd |-> -1]
      ELSE IF Free = {} THEN [s |-> Break(s, "open table"), fd |-> -1]
      ELSE [s |-> [s EXCEPT !.open[Min(Free)] = Opened(dir, i, d)], fd |-> Min(Free)]

my_open(s, d, given) == OpenAs(s, d, Split[given][1], Split[given][2])

\* (Wrong: a file that was not changed keeps its entry of the table.)
ReleaseChanged(s, fd) ==
  LET e == s.open[fd]
  IN  IF e.fcbstate
      THEN [WriteFcb(s, e.father, e.diroff, e.fcb) EXCEPT !.open[fd] = Closed] ELSE s

\* my_close() without its result.
Release(s, fd) ==
  LET e == s.open[fd]
      t == IF e.fcbstate THEN WriteFcb(s, e.father, e.diroff, e.fcb) ELSE s
  IN  [t EXCEPT !.open[fd] = Closed]

\* my_close() returns father, which it sets only when the FCB was changed.
my_close(s, fd) ==
  IF s.open[fd].fcbstate
  THEN [s |-> Release(s, fd), fd |-> s.open[fd].father]
  ELSE [s |-> Break(Release(s, fd), "father"), fd |-> fd]

\* while(curdir) curdir = my_close(curdir);
CloseAll(s, fd) ==
  LET c[n \in 0 .. MAXOPENFILE] ==
        IF n = 0 THEN [s |-> s, fd |-> fd]
        ELSE LET p == c[n - 1]
             IN  IF p.fd = 0 \/ p.s.broken /= "no" THEN p ELSE my_close(p.s, p.fd)
  IN  c[MAXOPENFILE]

-----------------------------------------------------------------------------
(* The disc's file.                                                        *)

my_format ==
  LET fat == [b \in Block |-> CASE b = Root -> Root + 1
                                [] b \in FirstData .. Blocks - 1 -> FREE
                                [] OTHER -> END]
      dot(name) == Fcb(name, TRUE, Root, 2 * FCBSIZE)
      units == Units(dot(".")) \o Units(dot(".."))
  IN  [block |-> [b \in Block |-> [j \in Unit |->
                    IF b = Root /\ j + 1 \in DOMAIN units THEN units[j + 1] ELSE Zero]],
       fat1 |-> fat, fat2 |-> fat]

NoText == [b \in Block |-> <<>>]

\* The program has not run since the disc was formatted.
Init ==
  /\ myfilesys = [image |-> my_format, text |-> NoText, dotted |-> FALSE]
  /\ myvhard = my_format
  /\ openfilelist = [fd \in Fd |-> Closed]
  /\ curdir = 0
  /\ running = FALSE
  /\ broken = "no"
  /\ text = NoText
  /\ dotted = FALSE

startsys ==
  /\ ~running
  /\ running' = TRUE
  /\ myvhard' = myfilesys.image
  /\ text' = myfilesys.text
  /\ dotted' = myfilesys.dotted
  /\ LET root == myfilesys.image.block[Root][0][2]
     IN  openfilelist' = [fd \in Fd |->
           IF fd = 0 THEN [Closed EXCEPT !.fcb = root, !.topenfile = TRUE] ELSE Closed]
  /\ curdir' = 0
  /\ UNCHANGED <<broken, myfilesys>>

\* What is in memory is gone with the program.
Gone ==
  /\ running' = FALSE
  /\ myvhard' = my_format
  /\ openfilelist' = [fd \in Fd |-> Closed]
  /\ curdir' = 0
  /\ text' = NoText
  /\ dotted' = FALSE

\* The program is killed.
Kill ==
  /\ running /\ broken = "no"
  /\ Gone
  /\ UNCHANGED <<broken, myfilesys>>

-----------------------------------------------------------------------------
(* The commands.                                                           *)

State == [hard |-> myvhard, open |-> openfilelist, broken |-> broken]

Become(s) ==
  /\ myvhard' = s.hard
  /\ openfilelist' = s.open
  /\ broken' = s.broken

Command == running /\ broken = "no" /\ UNCHANGED <<running, myfilesys>>
InDirectory == Command /\ openfilelist[curdir].fcb.directory
InFile      == Command /\ ~openfilelist[curdir].fcb.directory

Here == Dir(State, curdir)

\* Any command that reads the current directory, or the file, into its buffer.
ReadTooLong ==
  /\ Command
  /\ ~Fits(State, curdir)
  /\ Become(Break(State, "text"))
  /\ UNCHANGED <<curdir, text, dotted>>

cd_down(name) ==
  /\ InDirectory
  /\ LET o == my_open(State, curdir, name)
     IN  Become(o.s) /\ curdir' = IF o.fd = -1 THEN curdir ELSE o.fd
  /\ UNCHANGED <<text, dotted>>

cd_up ==
  /\ InDirectory /\ curdir /= 0
  /\ LET c == my_close(State, curdir) IN Become(c.s) /\ curdir' = c.fd
  /\ UNCHANGED <<text, dotted>>

cd_root ==
  /\ InDirectory
  /\ LET c == CloseAll(State, curdir) IN Become(c.s) /\ curdir' = c.fd
  /\ UNCHANGED <<text, dotted>>

\* The command "open" assigns -1 to curdir when the file cannot be opened.
open(name) ==
  /\ InDirectory
  /\ HasDot(name)
  /\ LET o == my_open(State, curdir, name)
     IN  IF o.fd = -1
         THEN Become(Break(o.s, "curdir")) /\ UNCHANGED curdir
         ELSE Become(o.s) /\ curdir' = o.fd
  /\ UNCHANGED <<text, dotted>>

close ==
  /\ InFile
  /\ LET c == my_close(State, curdir) IN Become(c.s) /\ curdir' = c.fd
  /\ UNCHANGED <<text, dotted>>

NewBlock(h, b, second) ==
  [h EXCEPT !.fat1[b] = END, !.fat2[b] = IF second THEN END ELSE @]

\* The block and the entry of a new file or directory.
NewEntry(s, fcb) ==
  WriteFcb([s EXCEPT !.hard = NewBlock(@, fcb.first, fcb.directory)], curdir, FreeSlot(Here), fcb)

Taken(name, ex) == Matches(Here, name, ex) /= {}

\* The entry is put together in the buffer, at the place that it is to have.
NoRoom ==
  IF FreeBlocks(myvhard) = {} THEN "disc full"
  ELSE IF (FreeSlot(Here) + 1) * FCBSIZE > MAXTEXT THEN "text" ELSE "no"

my_create(name) ==
  /\ InDirectory /\ Fits(State, curdir)
  /\ Split[name][2] /= ""
  /\ ~Taken(Split[name][1], "x")
  /\ IF NoRoom /= "no"
     THEN Become(Break(State, NoRoom)) /\ UNCHANGED text
     ELSE LET b == findblock(myvhard)
              s == NewEntry(State, Fcb(Split[name][1], FALSE, b, 0))
          IN  /\ Become(IF s.broken = "no" THEN WriteDot(s, curdir, Here[0]) ELSE s)
              /\ text' = [text EXCEPT ![b] = <<>>]
  /\ UNCHANGED <<curdir, dotted>>

\* What the new directory's name opens, the directory itself or a file, gets
\* the two entries; if nothing can be opened the command ends there.
FillDirectory(s, name, b) ==
  LET o      == my_open(s, curdir, name)
      dot(n) == Fcb(n, TRUE, b, 2 * FCBSIZE)
      filled == Release(WriteFcb(WriteFcb(o.s, o.fd, 0, dot(".")), o.fd, 1, dot("..")), o.fd)
  IN  IF s.broken /= "no" THEN s
      ELSE IF o.fd = -1 THEN o.s
      ELSE WriteDot(filled, curdir, Here[0])

my_mkdir(name) ==
  /\ InDirectory /\ Fits(State, curdir)
  /\ ~Taken(name, "")
  /\ IF NoRoom /= "no"
     THEN Become(Break(State, NoRoom))
     ELSE LET b == findblock(myvhard)
              s == NewEntry(State, Fcb(name, TRUE, b, 2 * FCBSIZE))
          IN  Become(FillDirectory(s, name, b))
  /\ dotted' = (dotted \/ HasDot(name))
  /\ UNCHANGED <<curdir, text>>

\* The blocks of an entry are given back and the entry is marked free.
RemoveEntry(s, slot, first) ==
  WriteFcb([s EXCEPT !.hard = FreeChain(@, first)], curdir, slot,
           [Here[slot] EXCEPT !.filename = "", !.free = 0])

my_rm(name) ==
  /\ InDirectory /\ Fits(State, curdir)
  /\ Split[name][2] /= ""
  /\ Taken(Split[name][1], "x")
  /\ LET i == Min(Matches(Here, Split[name][1], "x"))
     IN  /\ Become(RemoveEntry(State, i, Here[i].first))
         /\ text' = [text EXCEPT ![Here[i].first] = <<>>]
  /\ UNCHANGED <<curdir, dotted>>

\* A line of text in the place of an FCB is a name like any other.
IsEmpty(s, fd) ==
  LET dir   == Dir(s, fd)
      units == do_read(s.hard, s.open[fd].fcb.first, s.open[fd].fcb.length)
  IN  \A i \in DOMAIN dir :
        dir[i].filename \in {".", "..", ""} /\ units[i * FCBSIZE + 1][1] /= "char"

\* The entry has the whole name; the blocks that are given back are those of
\* what my_open() opened.
my_rmdir(name) ==
  /\ InDirectory /\ Fits(State, curdir)
  /\ Taken(name, "")
  /\ LET i == Min(Matches(Here, name, ""))
         o == my_open(State, curdir, name)
         fcb     == o.s.open[o.fd].fcb
         removed == RemoveEntry(Release(o.s, o.fd), i, fcb.first)
     IN  Become(IF o.fd = -1 THEN Break(o.s, "rmdir")
                ELSE IF fcb.length = 0 \/ ~Fits(o.s, o.fd) THEN Break(o.s, "text2")
                ELSE IF ~IsEmpty(o.s, o.fd) THEN Release(o.s, o.fd)
                ELSE IF HasDot(name) THEN Break(removed, "entry of free blocks")
                ELSE removed)
  /\ dotted' = (dotted \/ HasDot(name))
  /\ UNCHANGED <<curdir, text>>

Chars(line) == [k \in DOMAIN line |-> <<"char", line[k], 0>>]

\* (Wrong: the blocks that are cut off are not given back.)
CutKeepingBlocks(h, first) == [h EXCEPT !.fat1[first] = END, !.fat2[first] = END]

\* All blocks but the first are given back.
Cut(h, first) ==
  LET rest == Tail(Chain(h, first))
      kept == [h EXCEPT !.fat1[first] = END, !.fat2[first] = END]
  IN  [kept EXCEPT !.fat1 = [b \in Block |-> IF b \in ToSet(rest) THEN FREE ELSE @[b]],
                   !.fat2 = [b \in Block |-> IF b \in ToSet(rest) THEN FREE ELSE @[b]]]

\* my_write() with one of its three styles and one line, or none.
my_write(style, line) ==
  /\ InFile
  /\ LET fcb   == openfilelist[curdir].fcb
         old   == text[fcb.first]
         s     == IF style = "cut"
                  THEN [State EXCEPT !.hard = Cut(@, fcb.first), !.open[curdir].fcb.length = 0]
                  ELSE State
         count == IF style = "add" THEN fcb.length ELSE 0
         end   == count + Len(line)
         new   == line \o IF style = "cover" THEN SubSeq(old, end + 1, Len(old)) ELSE <<>>
     IN  /\ end <= MaxLength
         /\ Become(IF line = <<>> THEN s ELSE do_write(s, curdir, count, Chars(line)))
         /\ text' = IF dotted THEN text
                    ELSE [text EXCEPT ![fcb.first] = SubSeq(old, 1, count) \o new]
  /\ UNCHANGED <<curdir, dotted>>

my_exitsys ==
  /\ running /\ broken = "no"
  /\ openfilelist[curdir].fcb.directory
  /\ LET c == CloseAll(State, curdir)
     IN  IF c.s.broken = "no"
         THEN /\ myfilesys' = [image |-> c.s.hard, text |-> text, dotted |-> dotted]
              /\ Gone
              /\ UNCHANGED broken
         ELSE /\ Become(c.s)
              /\ UNCHANGED <<curdir, running, myfilesys, text, dotted>>

Next ==
  \/ startsys \/ Kill \/ my_exitsys
  \/ \E n \in Name : \/ cd_down(n) \/ open(n) \/ my_create(n) \/ my_rm(n)
                    \/ my_mkdir(n) \/ my_rmdir(n)
  \/ cd_up \/ cd_root \/ close \/ ReadTooLong
  \/ \E style \in {"cut", "cover", "add"}, line \in Lines \union {<<>>} : my_write(style, line)

Spec == Init /\ [][Next]_vars

-----------------------------------------------------------------------------
InUse == running /\ broken = "no"

\* No directory has been made or removed under a name with a '.', where the entry
\* and what my_open() opens are two things: mkdir and rmdir then may lose a block
\* or write over a file, and the properties below that begin with Regular fail.
Regular == InUse /\ ~dotted

\* The FCB as it is now: the open file table has it while the file is open.
Current(fcb) ==
  LET open_as == {fd \in Fd : openfilelist[fd].topenfile /\ openfilelist[fd].fcb.first = fcb.first}
  IN  IF open_as = {} THEN fcb ELSE openfilelist[Min(open_as)].fcb

Children(h, fcb) ==
  LET dir == Listing(h, fcb.first, Current(fcb).length)
  IN  {dir[i] : i \in {i \in DOMAIN dir : dir[i].free = 1 /\ dir[i].filename \notin {".", ".."}}}

\* Everything that can be reached from the root.
TreeOf(h, root) ==
  LET t[n \in 0 .. MAXOPENFILE] ==
        IF n = 0 THEN {root}
        ELSE LET p == t[n - 1]
             IN  p \union UNION {Children(h, f) : f \in {f \in p : f.directory}}
  IN  t[MAXOPENFILE]

Tree == TreeOf(myvhard, openfilelist[0].fcb)

BlocksOf(fcb) == ToSet(Chain(myvhard, fcb.first))

\* After any other commands every block that is not free belongs to one file or
\* directory that can be reached, and to one only: nothing is shared, nothing
\* leaks, and no chain runs into free blocks.
OneOwner ==
  Regular =>
    /\ \A f, g \in Tree : f.first /= g.first => BlocksOf(f) \intersect BlocksOf(g) = {}
    /\ UNION {BlocksOf(f) : f \in Tree} =
         {b \in Block : b >= Root /\ myvhard.fat1[b] /= FREE}

\* Each file holds what the user wrote into it, whatever was cut off, covered
\* and added, closed and opened again, and whatever happened to the others,
\* unless a directory was made or removed under a name with a '.'.
ReadBack ==
  Regular =>
    \A f \in Tree :
      ~f.directory =>
        do_read(myvhard, f.first, Current(f).length) = Chars(text[f.first])

\* The current directory is open and so are all on the way up from it.  An
\* open file's copy of its FCB is that of its directory as long as fcbstate
\* says so (but for the length that a cut with no line leaves), and its place
\* in the directory stays its own.
CopiesAgree ==
  Regular =>
    /\ openfilelist[curdir].topenfile
    /\ \A fd \in Fd \ {0} :
         openfilelist[fd].topenfile =>
           LET e     == openfilelist[fd]
               entry == Dir(State, e.father)[e.diroff]
           IN  /\ openfilelist[e.father].topenfile
               /\ entry.filename = e.fcb.filename /\ entry.first = e.fcb.first
               /\ ~e.fcbstate => e.fcb \in {entry, [entry EXCEPT !.length = 0]}

\* fcbstate tells whether an open file's FCB was changed.  (It does not: a cut
\* sets the length to 0 and leaves fcbstate alone until a line is written.)
FcbStateTells ==
  Regular =>
    \A fd \in Fd \ {0} :
      LET e == openfilelist[fd]
      IN  (e.topenfile /\ ~e.fcbstate) => Dir(State, e.father)[e.diroff] = e.fcb

\* startsys() takes the root directory's length from the root's own entry: it
\* is up to date after every command, so that a restart sees every entry.  (Not
\* after mkdir a.b: my_open() looks for a file, and my_mkdir() ends there.)
RootIsUpToDate ==
  Regular => myvhard.block[Root][0][2].length = openfilelist[0].fcb.length

\* startsys() takes what stands first in the root's block for the root's FCB,
\* and my_mkdir() and my_create() what stands first in a directory for its own:
\* whatever is written, moved or removed, the root's own two entries stay where
\* my_format() put them, and no chain of blocks leads to them or off the disc.
RootStays(h) ==
  LET dot    == h.block[Root][0]
      dotdot == h.block[Root][FCBSIZE]
  IN  /\ dot[1] = "fcb" /\ dotdot[1] = "fcb"
      /\ dot[2].filename = "." /\ dot[2].directory /\ dot[2].first = Root /\ dot[2].free = 1
      /\ dotdot[2].filename = ".." /\ dotdot[2].free = 1
      /\ \A b \in Block : h.fat1[b] \in {FREE, END} \union (Block \ 0 .. Root)

RootIsFound == RootStays(myfilesys.image) /\ (InUse => RootStays(myvhard))

\* A file that is opened, also by my_mkdir() and my_rmdir() for a while, is
\* closed again: whatever the commands, the open files are curdir and those
\* that my_close() goes back to from it one after the other, up to the root.
\* The table loses no entry, and exit writes every changed FCB back.
OnTheWayUp ==
  InUse =>
    LET way[n \in 0 .. MAXOPENFILE] ==
          IF n = 0 THEN curdir ELSE openfilelist[way[n - 1]].father
    IN  /\ way[MAXOPENFILE] = 0
        /\ {fd \in Fd : openfilelist[fd].topenfile} = {way[n] : n \in 0 .. MAXOPENFILE}

\* The second FAT is a copy of the first, but for files that have had one
\* block ever since my_create(), which writes the first FAT twice.
SecondFatLags ==
  Regular =>
    \A b \in Block :
      myvhard.fat1[b] /= myvhard.fat2[b] =>
        /\ myvhard.fat1[b] = END /\ myvhard.fat2[b] = FREE
        /\ \E f \in Tree : ~f.directory /\ f.first = b
=============================================================================
