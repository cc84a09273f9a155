----------------------------- MODULE FilesProofs -----------------------------
(***************************************************************************)
(* Theorems about the files of FileSystem, for any size of the disc, of    *)
(* its blocks and of the table of open files, and any names and lines.     *)
(*                                                                         *)
(* FilesGood says that there is a list of all files and directories, the   *)
(* witness w, and where in the directories, on the disc and in the table   *)
(* of open files each of them is: no two share a block, every block in use *)
(* is some file's, each has one entry, and a file holds its text, until a  *)
(* directory is made or removed under a name with a '.'.  From it follow   *)
(* OneOwner, ReadBack, CopiesAgree, RootIsUpToDate, SecondFatLags.         *)
(***************************************************************************)
EXTENDS FileSystemProofs

-----------------------------------------------------------------------------
(* Reading and closing.                                                    *)

LEMMA ReadIs ==
  ASSUME NEW h, NEW g, OneChain(h, g), NEW length \in Nat, length <= Room(h, g)
  PROVE  /\ do_read(h, g, length) = [k \in 1 .. length |-> Cell(h, g, k - 1)]
         /\ Len(do_read(h, g, length)) = length
<1> DEFINE at == Chain(h, g)
           L == Min({length, Len(at) * BLOCKSIZE})
<1>1. Room(h, g) \in Nat /\ Room(h, g) = Len(at) * BLOCKSIZE
  BY RoomFacts DEF Room
<1>2. L = length
  <2>1. L = Min({length, Room(h, g)})
    BY <1>1
  <2>2. Min({length, Room(h, g)}) \in {length, Room(h, g)}
        /\ Min({length, Room(h, g)}) <= length
    BY <1>1, Min2
  <2> HIDE DEF L
  <2> QED
    BY <1>1, <2>1, <2>2
<1>3. do_read(h, g, length) = [k \in 1 .. L |-> h.block[at[(k - 1) \div BLOCKSIZE + 1]][(k - 1) % BLOCKSIZE]]
  BY Zenon DEF do_read
<1> HIDE DEF L
<1>4. do_read(h, g, length) = [k \in 1 .. length |-> Cell(h, g, k - 1)]
  BY <1>2, <1>3 DEF Cell
<1> QED
  BY <1>4

LEMMA DirIs ==
  ASSUME NEW h, NEW d, OneChain(h, d), NEW length \in Nat, length <= Room(h, d),
         NEW m \in Nat, length = m * FCBSIZE
  PROVE  Listing(h, d, length) = [i \in 0 .. m - 1 |-> Entry(h, d, i)]
<1> DEFINE t == do_read(h, d, length)
           u(i) == t[i * FCBSIZE + 1]
           f(i) == IF u(i)[1] = "fcb" THEN u(i)[2] ELSE NoFcb
<1>1. t = [k \in 1 .. length |-> Cell(h, d, k - 1)] /\ Len(t) = length
  BY ReadIs
<1>2. Listing(h, d, length) = [i \in 0 .. Len(t) \div FCBSIZE - 1 |-> f(i)]
  BY Zenon DEF Listing
<1>3. FCBSIZE \in Nat /\ FCBSIZE > 0
  BY Sizes
<1>4. length \div FCBSIZE = m
  BY <1>3, SlotPlaces
<1>5. ASSUME NEW i \in 0 .. m - 1 PROVE f(i) = Entry(h, d, i)
  <2>1. i \in Nat /\ i + 1 \in Nat /\ i + 1 <= m
    OBVIOUS
  <2>2. i * FCBSIZE \in Nat /\ (i + 1) * FCBSIZE = i * FCBSIZE + FCBSIZE /\ (i + 1) * FCBSIZE <= m * FCBSIZE
    BY <1>3, <2>1, Times
  <2>3. i * FCBSIZE + 1 \in 1 .. length /\ (i * FCBSIZE + 1) - 1 = i * FCBSIZE
    BY <1>3, <2>2
  <2> HIDE DEF t
  <2>4. u(i) = Cell(h, d, i * FCBSIZE)
    BY <1>1, <2>3
  <2> QED
    BY <2>4 DEF Entry, EntryOf
<1> HIDE DEF t, f, u
<1> QED
  BY <1>1, <1>2, <1>4, <1>5

LEMMA OpenIsDir ==
  ASSUME NEW h, NEW o, NEW cur, NEW txt, NEW w, TableInv(o, cur), FilesInv(h, o, cur, txt, w),
         NEW fd \in Fd, o[fd].topenfile
  PROVE  LET g == o[fd].fcb.first
         IN  /\ g \in w.heads /\ w.length[g] = o[fd].fcb.length
             /\ o[fd].fcb.directory <=> g \in w.dirs
             /\ g \in w.dirs \ w.raw => Filled(h, g)
<1> DEFINE g == o[fd].fcb.first
<1>1. DiscFiles(h, txt, w) /\ OpenInv(h, o, cur, w)
  BY DEF FilesInv
<1>2. g \in w.heads /\ w.length[g] = o[fd].fcb.length /\ (g \in w.dirs \ w.raw => Filled(h, g))
  BY <1>1 DEF OpenInv, OpenHead
<1>3. CASE fd = 0
  BY <1>1, <1>2, <1>3 DEF TableInv, DiscFiles, WitnessType
<1>4. CASE fd # 0
  <2>1. OpenEntry(h, w, o[fd], o[o[fd].father])
    BY <1>1, <1>4 DEF OpenInv
  <2>2. g # Root /\ SameButLength(o[fd].fcb, Entry(h, w.up[g], w.at[g]))
    BY <2>1 DEF OpenEntry
  <2>3. EntryIs(Entry(h, w.up[g], w.at[g]), g, g \in w.dirs)
    BY <1>1, <1>2, <2>2 DEF DiscFiles, PlacesInv
  <2> HIDE DEF g
  <2>4. o[fd].fcb.directory = (g \in w.dirs)
    BY <2>2, <2>3 DEF SameButLength, EntryIs
  <2> QED
    BY <1>2, <2>4 DEF g
<1> QED
  BY <1>3, <1>4

\* The FCBs that a command finds in an open directory.
LEMMA DirEntries ==
  ASSUME NEW s, NEW cur, NEW txt, NEW w, Filed(s, cur, txt, w), NEW fd \in Fd, s.open[fd].topenfile,
         s.open[fd].fcb.directory
  PROVE  \E m \in Nat :
           /\ m >= 2 /\ s.open[fd].fcb.length = m * FCBSIZE
           /\ Dir(s, fd) = [i \in 0 .. m - 1 |-> Entry(s.hard, s.open[fd].fcb.first, i)]
<1> DEFINE d == s.open[fd].fcb.first
           length == s.open[fd].fcb.length
<1>1. TableInv(s.open, cur) /\ FilesInv(s.hard, s.open, cur, txt, w) /\ DiscFiles(s.hard, txt, w)
  BY DEF Filed, Sound, FilesInv
<1>2. d \in w.dirs /\ w.length[d] = length
  BY <1>1, OpenIsDir
<1>3. OneChain(s.hard, d) /\ length \in Nat
  BY <1>1, <1>2, HeadFacts DEF DiscFiles
<1>4. length <= Room(s.hard, d) /\ \E m \in Nat : m >= 2 /\ length = m * FCBSIZE
  BY <1>1, <1>2 DEF DiscFiles, SizesInv
<1>5. PICK m \in Nat : m >= 2 /\ length = m * FCBSIZE
  BY <1>4
<1>6. Dir(s, fd) = Listing(s.hard, d, length)
  BY DEF Dir
<1> HIDE DEF d, length
<1>7. Listing(s.hard, d, length) = [i \in 0 .. m - 1 |-> Entry(s.hard, d, i)]
  BY <1>3, <1>4, <1>5, DirIs
<1> QED
  BY <1>5, <1>6, <1>7 DEF d, length

LEMMA PutEntry ==
  ASSUME NEW h, NEW k, NEW X, NEW d, NEW slot \in Nat, NEW fcb, Put(h, k, X, d, slot, fcb)
  PROVE  Entry(k, d, slot) = fcb
<1>1. /\ Entry(k, d, slot) = fcb
      /\ \A x \in X : Room(k, x) >= Room(h, x) /\ Room(h, x) \in Nat /\ Room(k, x) \in Nat
      /\ \A x \in X, i \in Nat : <<x, i>> # <<d, slot>> /\ (i + 1) * FCBSIZE <= Room(h, x)
              => Entry(k, x, i) = Entry(h, x, i)
  BY PutEntries
<1> QED
  BY <1>1

LEMMA OpenClosed ==
  ASSUME NEW h, NEW o, NEW cur, NEW w, TableInv(o, cur), cur # 0, OpenInv(h, o, cur, w),
         WitnessType(w), AboveInv(w), PlacesInv(h, w),
         NEW g, g = o[cur].fcb.first, Entry(h, w.up[g], w.at[g]).length = w.length[g]
  PROVE  OpenInv(h, [o EXCEPT ![cur] = Closed], o[cur].father, w)
<1> DEFINE p == [o EXCEPT ![cur] = Closed]
           f == o[cur].father
           A == OpenAbove(p, f)
<1>1. /\ \A x \in Fd : IF o[x].topenfile THEN OpenHead(h, w, o[x].fcb) ELSE o[x] = Closed
      /\ \A x \in Fd \ {0} : o[x].topenfile => OpenEntry(h, w, o[x], o[o[x].father])
      /\ \A x, y \in Fd : o[x].topenfile /\ o[y].topenfile /\ o[x].fcb.first = o[y].fcb.first => x = y
      /\ OpenAbove(o, cur) = w.above[g]
      /\ ClosedLengths(h, o, w)
  BY DEF OpenInv
<1>2. /\ o \in [Fd -> OpenType] /\ cur \in Fd /\ o[cur].topenfile /\ f \in Fd /\ f # cur /\ o[f].topenfile
      /\ \A x \in Fd \ {0} : o[x].topenfile => o[x].father # cur
  <2>1. f \in Fd /\ f # cur
    BY CloseKeeps
  <2> QED
    BY <2>1 DEF TableInv
<1>3. p[cur] = Closed /\ \A x \in Fd : x # cur => p[x] = o[x]
  BY <1>2
<1>4. ~Closed.topenfile
  BY ClosedOk
<1> HIDE DEF p, f
<1>5. \A x \in Fd : IF p[x].topenfile THEN OpenHead(h, w, p[x].fcb) ELSE p[x] = Closed
  BY <1>1, <1>3, <1>4
<1>6. \A x \in Fd \ {0} : p[x].topenfile => OpenEntry(h, w, p[x], p[p[x].father])
  <2>1. ASSUME NEW x \in Fd \ {0}, p[x].topenfile PROVE OpenEntry(h, w, p[x], p[p[x].father])
    <3>1. p[x] = o[x] /\ o[x].topenfile /\ o[x].father # cur /\ o[x].father \in Fd
      BY <1>2, <1>3, <1>4, <2>1, Entries
    <3> QED
      BY <1>1, <1>3, <3>1
  <2> QED
    BY <2>1
<1>7. \A x, y \in Fd : p[x].topenfile /\ p[y].topenfile /\ p[x].fcb.first = p[y].fcb.first => x = y
  BY <1>1, <1>3, <1>4
<1>8. g \in w.heads \ {Root} /\ w.up[g] = o[f].fcb.first
  <2>1. OpenHead(h, w, o[cur].fcb) /\ OpenEntry(h, w, o[cur], o[f])
    BY <1>1, <1>2 DEF f
  <2> QED
    BY <2>1 DEF OpenHead, OpenEntry
<1>9. OpenAbove(p, f) = w.above[p[f].fcb.first]
  <2> DEFINE u == w.up[g]
  <2>1. p[f] = o[f] /\ p[f].fcb.first = u
    BY <1>2, <1>3, <1>8
  <2>2. OpenAbove(o, cur) = OpenAbove(p, f) \union {u}
    <3>1. {x \in Fd : o[x].topenfile /\ x # cur} = {x \in Fd : p[x].topenfile /\ x # f} \union {f}
      BY <1>2, <1>3, <1>4
    <3>2. \A x \in {x \in Fd : o[x].topenfile /\ x # cur} : p[x] = o[x]
      BY <1>3
    <3> DEFINE S == {x \in Fd : o[x].topenfile /\ x # cur}
               T == {x \in Fd : p[x].topenfile /\ x # f}
    <3>3. OpenAbove(o, cur) = {o[x].fcb.first : x \in S} /\ OpenAbove(p, f) = {p[x].fcb.first : x \in T}
      BY DEF OpenAbove
    <3>4. S = T \union {f} /\ \A x \in S : p[x] = o[x]
      BY <3>1, <3>2
    <3> HIDE DEF S, T
    <3>5. {o[x].fcb.first : x \in S} = {p[x].fcb.first : x \in T} \union {u}
      BY <2>1, <3>4
    <3> QED
      BY <3>3, <3>5
  <2>3. u \notin OpenAbove(p, f)
    <3>1. ASSUME NEW x \in Fd, p[x].topenfile, x # f, p[x].fcb.first = u PROVE FALSE
      <4>1. p[f].topenfile
        BY <1>2, <2>1
      <4> QED
        BY <1>2, <1>7, <2>1, <3>1, <4>1
    <3> QED
      BY <3>1 DEF OpenAbove
  <2>4. w.above[g] = w.above[u] \union {u}
    BY <1>8 DEF AboveInv
  <2>5. u \notin w.above[u]
    <3>1. u \in w.heads /\ w.depth[u] \in Nat
      BY <1>8 DEF PlacesInv, WitnessType
    <3>2. u \in w.above[u] => w.depth[u] < w.depth[u]
      BY <3>1 DEF AboveInv
    <3> QED
      BY <3>1, <3>2
  <2> HIDE DEF u
  <2>6. OpenAbove(p, f) = w.above[u]
    <3> DEFINE a == OpenAbove(p, f)
               b == w.above[u]
    <3>1. a \union {u} = b \union {u} /\ u \notin a /\ u \notin b
      BY <1>1, <2>2, <2>3, <2>4, <2>5
    <3> HIDE DEF a, b
    <3>2. a = b
      BY <3>1
    <3> QED
      BY <3>2 DEF a, b
  <2> QED
    BY <2>1, <2>6
<1>10. ClosedLengths(h, p, w)
  <2>1. ASSUME NEW x \in w.heads \ {Root}, ~IsOpen(p, x), x # g PROVE Entry(h, w.up[x], w.at[x]).length = w.length[x]
    <3>1. ~IsOpen(o, x)
      BY <1>3, <2>1 DEF IsOpen
    <3> QED
      BY <1>1, <3>1 DEF ClosedLengths
  <2> QED
    BY <2>1 DEF ClosedLengths
<1>11. OpenInv(h, p, f, w)
  BY <1>5, <1>6, <1>7, <1>9, <1>10 DEF OpenInv
<1> QED
  BY <1>11 DEF p, f

\* my_close() of a file whose FCB was changed, or is that of its directory.
\* The other open files are as they were, but for fcbstate.
OthersStay(s, r, fd) ==
  \A x \in Fd : x # fd => /\ SameButLength(r.open[x].fcb, s.open[x].fcb)
                          /\ r.open[x].fcb.length = s.open[x].fcb.length
                          /\ r.open[x].topenfile = s.open[x].topenfile

LEMMA FiledRelease ==
  ASSUME NEW s, NEW fd, fd # 0, NEW txt, NEW w, Filed(s, fd, txt, w), w.holes = {},
         s.open[fd].fcbstate \/ s.open[fd].fcb.directory,
         Release(s, fd).broken = "no"
  PROVE  /\ Filed(Release(s, fd), s.open[fd].father, txt, w)
         /\ OthersStay(s, Release(s, fd), fd)
<1> DEFINE t == WrittenBack(s, fd)
           r == Release(s, fd)
           up == s.open[fd].father
           off == s.open[fd].diroff
           f == s.open[fd].fcb
           g == f.first
<1>1. /\ StateFields(s) /\ DiscInv(s.hard) /\ TableInv(s.open, fd) /\ s.broken = "no" /\ Sound(s, fd)
      /\ s.open \in [Fd -> OpenType] /\ fd \in Fd /\ s.open[fd].topenfile
      /\ DiscFiles(s.hard, txt, w) /\ OpenInv(s.hard, s.open, fd, w)
  BY DEF Filed, Sound, TableInv, FilesInv
<1>2. up \in Fd /\ up # fd /\ off \in Nat /\ FcbOk(f) /\ s.open[up].topenfile
      /\ (up = 0 => InRoot(s.open, fd))
  BY <1>1, CloseKeeps, Entries, SMTT(30) DEF TableInv
<1>3. /\ g # Root /\ w.up[g] = s.open[up].fcb.first /\ w.at[g] = off
      /\ SameButLength(f, Entry(s.hard, w.up[g], w.at[g]))
      /\ s.open[fd].fcbstate \/ f.length \in {Entry(s.hard, w.up[g], w.at[g]).length, 0}
  <2>1. OpenEntry(s.hard, w, s.open[fd], s.open[up])
    BY <1>1, SMTT(30) DEF OpenInv
  <2> QED
    BY <2>1 DEF OpenEntry
<1>4. g \in w.heads \ {Root} /\ w.length[g] = f.length
  BY <1>1, <1>3 DEF OpenInv, OpenHead
<1>5. /\ w.up[g] \in w.dirs /\ w.at[g] >= 2 /\ (w.at[g] + 1) * FCBSIZE <= w.length[w.up[g]]
      /\ EntryIs(Entry(s.hard, w.up[g], w.at[g]), g, g \in w.dirs)
  BY <1>1, <1>4, SMTT(30) DEF DiscFiles, PlacesInv
<1> DEFINE d == w.up[g]
<1>6. w.length[d] = s.open[up].fcb.length
  BY <1>1, <1>2, <1>3, ZenonT(40) DEF OpenInv, OpenHead
<1>7. t.broken = "no" /\ StateFields(t) /\ StateFields(r) /\ r.hard = t.hard
      /\ r.open = [t.open EXCEPT ![fd] = Closed]
  <2>1. StateFields(t)
    <3>1. CASE s.open[fd].fcbstate
      <4>1. t = WriteFcb(s, up, off, f)
        BY <3>1 DEF WrittenBack
      <4> HIDE DEF t, up, off, f
      <4> QED
        BY <1>1, <4>1, WriteFcbBroken
    <3>2. CASE ~s.open[fd].fcbstate
      BY <1>1, <3>2 DEF WrittenBack
    <3> QED
      BY <3>1, <3>2
  <2> HIDE DEF t
  <2> QED
    BY <2>1, ReleaseFields DEF t
<1> HIDE DEF t, up, off
<1>8. /\ Filed(t, fd, txt, w) /\ Entry(t.hard, d, w.at[g]).length = w.length[g]
      /\ \A x \in Fd : x # fd => /\ SameButLength(t.open[x].fcb, s.open[x].fcb)
                                 /\ t.open[x].fcb.length = s.open[x].fcb.length
                                 /\ t.open[x].topenfile = s.open[x].topenfile
      /\ t.open[fd].father = up /\ t.open[fd].fcb.first = g
  <2>1. CASE s.open[fd].fcbstate
    <3>1. t = WriteFcb(s, up, off, f)
      BY <2>1 DEF t, WrittenBack, up, off
    <3>2. up = 0 => off >= 2
      BY <1>2 DEF InRoot, off
    <3> HIDE DEF f, d
    <3>3. Sound(t, fd)
      <4>1. Sound(WriteFcb(s, up, off, f), fd)
        BY <1>1, <1>2, <3>2, WriteFcbTo
      <4> QED
        BY <3>1, <4>1
    <3>4. OldEntry(s.hard, w, d, off, f)
      <4>1. ASSUME NEW x \in w.heads \ {Root}, w.up[x] = d, w.at[x] = off
            PROVE  x = g
        <5>1. EntryIs(Entry(s.hard, d, off), x, x \in w.dirs) /\ EntryIs(Entry(s.hard, d, off), g, g \in w.dirs)
          BY <1>1, <1>3, <1>5, <4>1 DEF DiscFiles, PlacesInv, d
        <5> QED
          BY <5>1 DEF EntryIs
      <4>2. off >= 2 /\ off \in Nat
        BY <1>2, <1>3, <1>5
      <4> QED
        BY <1>3, <1>4, <4>1, <4>2 DEF OldEntry, d
    <3>5. d = s.open[up].fcb.first /\ (off + 1) * FCBSIZE <= s.open[up].fcb.length /\ d \in w.dirs
      BY <1>3, <1>5, <1>6 DEF d
    <3>6. SameTree(w, w) /\ WitnessType(w)
      BY <1>1 DEF SameTree, DiscFiles
    <3>7. f.first \in w.heads \ {Root} /\ w.up[f.first] = d /\ w.at[f.first] = off
      BY <1>3, <1>4 DEF d
    <3>8. Filed(t, fd, txt, w)
      BY <1>2, <1>7, <3>1, <3>3, <3>4, <3>5, <3>6, <3>7, PutSame
    <3>9. /\ Put(s.hard, t.hard, Heads(w), d, off, f)
          /\ t.open = Enter(s.open, up, NewLength(s.open[up].fcb.length, (off + 1) * FCBSIZE))
      <4> DEFINE X == Heads(w)
      <4>1. ChainsInv(s.hard, X) /\ s.open[up].fcb.first \in X /\ WriteFcb(s, up, off, f).broken = "no"
        BY <1>1, <1>7, <3>1, <3>5 DEF DiscFiles, WitnessType, Heads
      <4> HIDE DEF X
      <4>2. LET u == WriteFcb(s, up, off, f)
            IN  /\ Put(s.hard, u.hard, X, s.open[up].fcb.first, off, f)
                /\ u.open = Enter(s.open, up, NewLength(s.open[up].fcb.length, (off + 1) * FCBSIZE))
        BY <1>1, <1>2, <4>1, PutTo
      <4> QED
        BY <3>1, <3>5, <4>2 DEF X
    <3>10. Entry(t.hard, d, off) = f
      <4> DEFINE X == Heads(w)
      <4>1. Put(s.hard, t.hard, X, d, off, f)
        BY <3>9
      <4> HIDE DEF X
      <4> QED
        BY <1>2, <4>1, PutEntry
    <3>11. NewLength(s.open[up].fcb.length, (off + 1) * FCBSIZE) = s.open[up].fcb.length
      <4>1. s.open[up].fcb.length \in Nat
        BY <1>1, <1>2, Entries
      <4>2. (off + 1) * FCBSIZE \in Nat
        <5>1. off + 1 \in Nat /\ FCBSIZE \in Nat
          BY <1>2, Sizes
        <5> QED
          BY <5>1, Times
      <4>3. NewLength(s.open[up].fcb.length, (off + 1) * FCBSIZE)
              = IF s.open[up].fcb.length > (off + 1) * FCBSIZE THEN s.open[up].fcb.length ELSE (off + 1) * FCBSIZE
        BY <4>1, <4>2, Max2 DEF NewLength
      <4> QED
        BY <3>5, <4>1, <4>2, <4>3
    <3>12. t.open = Enter(s.open, up, s.open[up].fcb.length)
      BY <3>9, <3>11
    <3>13. /\ \A x \in Fd : /\ SameButLength(t.open[x].fcb, s.open[x].fcb) /\ t.open[x].fcb.first = s.open[x].fcb.first
                            /\ t.open[x].father = s.open[x].father
                            /\ t.open[x].topenfile = s.open[x].topenfile
           /\ \A x \in Fd : x # up => t.open[x] = s.open[x]
           /\ t.open[up].fcb.length = s.open[up].fcb.length
      BY <1>1, <1>2, <3>12, EnteredFields
    <3> QED
      BY <1>1, <1>3, <1>4, <3>8, <3>10, <3>13 DEF f, up
  <2>2. CASE ~s.open[fd].fcbstate
    <3>1. t = s
      BY <2>2 DEF t, WrittenBack
    <3>2. g \in w.dirs
      <4>1. EntryIs(Entry(s.hard, w.up[g], w.at[g]), g, g \in w.dirs)
        BY <1>5
      <4>2. f.directory = (g \in w.dirs)
        BY <1>3, <4>1 DEF SameButLength, EntryIs
      <4> QED
        BY <2>2, <4>2
    <3>3. f.length # 0
      <4>1. w.length[g] >= 2 * FCBSIZE
        BY <1>1, <3>2, HeadFacts DEF DiscFiles
      <4> QED
        BY <1>4, <4>1, Sizes
    <3>4. Entry(s.hard, d, w.at[g]).length = w.length[g]
      BY <1>3, <1>4, <2>2, <3>3
    <3>5. \A x \in Fd : SameButLength(s.open[x].fcb, s.open[x].fcb)
      BY DEF SameButLength
    <3> QED
      BY <3>1, <3>4, <3>5 DEF up
  <2> QED
    BY <2>1, <2>2, SMTT(30)
<1> HIDE DEF f, d, r
<1>9. OpenInv(t.hard, r.open, up, w)
  <2>1. /\ TableInv(t.open, fd) /\ DiscFiles(t.hard, txt, w) /\ OpenInv(t.hard, t.open, fd, w)
    BY <1>8 DEF Filed, FilesInv, Sound
  <2>2. OpenInv(t.hard, [t.open EXCEPT ![fd] = Closed], t.open[fd].father, w)
    BY <1>8, <2>1, OpenClosed DEF DiscFiles, d
  <2> QED
    BY <1>7, <1>8, <2>2
<1>10. Sound(r, up) /\ r.broken = "no"
  BY <1>1, ReleaseTo DEF r, up
<1>11. Filed(r, up, txt, w)
  BY <1>7, <1>8, <1>9, <1>10 DEF Filed, FilesInv
<1>12. t.open \in [Fd -> OpenType]
  BY <1>8 DEF Filed, Sound, TableInv
<1>13. \A x \in Fd : x # fd => r.open[x] = t.open[x]
  BY <1>7, <1>12
<1> QED
  BY <1>8, <1>11, <1>13 DEF r, up, OthersStay

-----------------------------------------------------------------------------
(* Opening.                                                                *)

\* An entry with a name of the user's is that of a file or directory.
LEMMA NamedEntry ==
  ASSUME NEW h, NEW txt, NEW w, DiscFiles(h, txt, w), w.holes = {}, NEW d \in w.dirs,
         NEW i \in Nat, (i + 1) * FCBSIZE <= Room(h, d), Entry(h, d, i).filename \in Given
  PROVE  LET g == Entry(h, d, i).first
         IN  g \in w.heads \ {Root} /\ w.up[g] = d /\ w.at[g] = i
<1> DEFINE u == Cell(h, d, i * FCBSIZE)
<1>1. u[1] = "fcb" /\ Entry(h, d, i) = u[2]
  <2>1. NoFcb.filename \notin Given
    BY NoFcbOk, Names
  <2> QED
    BY <2>1 DEF Entry, EntryOf
<1>2. Live(u)
  BY <1>1 DEF Live
<1>3. i * FCBSIZE \in 0 .. Room(h, d) - 1 /\ (i * FCBSIZE) \div FCBSIZE = i
  <2>1. FCBSIZE \in Nat /\ FCBSIZE > 0
    BY Sizes
  <2>2. i * FCBSIZE \in Nat /\ (i + 1) * FCBSIZE = i * FCBSIZE + FCBSIZE
    BY <2>1, Times
  <2>3. i * FCBSIZE \in i * FCBSIZE .. i * FCBSIZE + FCBSIZE - 1
    BY <2>1, <2>2
  <2>4. (i * FCBSIZE) \div FCBSIZE = i
    BY <2>2, <2>3, SlotPlaces
  <2>5. Room(h, d) \in Nat
    BY HeadFacts DEF DiscFiles
  <2> QED
    BY <2>1, <2>2, <2>4, <2>5
<1>4. d \in Heads(w)
  BY DEF DiscFiles, WitnessType, Heads
<1>5. AtPlace(w, u[2], d, i * FCBSIZE)
  <2>1. UnitsInv(h, w)
    BY DEF DiscFiles
  <2> HIDE DEF u
  <2>2. \A p \in 0 .. Room(h, d) - 1 :
          Live(Cell(h, d, p)) => AtPlace(w, Cell(h, d, p)[2], d, p) \/ <<d, p \div FCBSIZE>> \in w.holes
    BY <1>4, <2>1 DEF UnitsInv
  <2> QED
    BY <1>2, <1>3, <2>2 DEF u
<1> HIDE DEF u
<1> QED
  BY <1>1, <1>3, <1>5 DEF AtPlace

\* An open directory above the current one blocks its name.
LEMMA AboveOpen ==
  ASSUME NEW h, NEW o, NEW cur, NEW txt, NEW w, TableInv(o, cur), FilesInv(h, o, cur, txt, w),
         NEW a \in w.above[o[cur].fcb.first] \ {Root}
  PROVE  Blocked(o, cur, NameOf(h, w, a), "")
<1>1. DiscFiles(h, txt, w) /\ OpenInv(h, o, cur, w)
  BY DEF FilesInv
<1>2. a \in OpenAbove(o, cur)
  BY <1>1 DEF OpenInv
<1>3. PICK x \in Fd : o[x].topenfile /\ x # cur /\ o[x].fcb.first = a
  BY <1>2 DEF OpenAbove
<1>4. x # 0
  BY <1>3 DEF TableInv
<1>5. cur \in Fd /\ o[cur].topenfile
  BY DEF TableInv
<1>6. o[cur].fcb.first \in w.heads
  BY <1>1, <1>5 DEF OpenInv, OpenHead
<1>7. a \in w.dirs /\ a \in w.heads \ {Root}
  BY <1>1, <1>6 DEF DiscFiles, AboveInv, WitnessType
<1>8. SameButLength(o[x].fcb, Entry(h, w.up[a], w.at[a]))
  BY <1>1, <1>3, <1>4 DEF OpenInv, OpenEntry
<1>9. EntryIs(Entry(h, w.up[a], w.at[a]), a, TRUE)
  <2>1. EntryIs(Entry(h, w.up[a], w.at[a]), a, a \in w.dirs)
    BY <1>1, <1>7 DEF DiscFiles, PlacesInv
  <2>2. (a \in w.dirs) = TRUE
    BY <1>7
  <2> QED
    BY <2>1, <2>2
<1>10. o[x].fcb.filename = NameOf(h, w, a) /\ o[x].fcb.exname = ""
  BY <1>8, <1>9 DEF SameButLength, EntryIs, NameOf
<1> QED
  BY <1>3, <1>10 DEF Blocked

\* A directory that my_open() opens has its two entries.
LEMMA FilledUnlessBlocked ==
  ASSUME NEW h, NEW o, NEW cur, NEW txt, NEW w, TableInv(o, cur), FilesInv(h, o, cur, txt, w),
         NEW g \in w.dirs \ ({Root} \union w.raw), w.up[g] = o[cur].fcb.first,
         ~Blocked(o, cur, NameOf(h, w, g), "")
  PROVE  Filled(h, g)
<1> SUFFICES ASSUME ~Filled(h, g) PROVE FALSE
  OBVIOUS
<1>1. PICK a \in w.above[w.up[g]] \ {Root} : NameOf(h, w, a) = NameOf(h, w, g)
  BY DEF FilesInv, DiscFiles, FilledInv
<1>2. Blocked(o, cur, NameOf(h, w, a), "")
  <2>1. a \in w.above[o[cur].fcb.first] \ {Root}
    BY <1>1
  <2> QED
    BY <2>1, AboveOpen
<1> QED
  BY <1>1, <1>2

FiledAs(s, t, cur, fd, txt, w) ==
  /\ Filed(t, fd, txt, w)
  /\ t.open[fd].fcb = Entry(s.hard, s.open[cur].fcb.first, t.open[fd].diroff)

LEMMA FiledOpen ==
  ASSUME NEW s, NEW cur, NEW txt, NEW w, Filed(s, cur, txt, w), w.holes = {},
         s.open[cur].fcb.directory, NEW name \in Given, NEW ex,
         NEW t, NEW fd, OpenedTo(s, t, cur, fd, Min(Matches(Dir(s, cur), name, ex))),
         Matches(Dir(s, cur), name, ex) # {}, ~Blocked(s.open, cur, name, ex)
  PROVE  FiledAs(s, t, cur, fd, txt, w)
<1> DEFINE h == s.hard
           o == s.open
           p == t.open
           d == o[cur].fcb.first
           i == Min(Matches(Dir(s, cur), name, ex))
           f == Entry(h, d, i)
           g == f.first
<1>1. /\ TableInv(o, cur) /\ FilesInv(h, o, cur, txt, w) /\ DiscFiles(h, txt, w) /\ OpenInv(h, o, cur, w)
      /\ cur \in Fd /\ o[cur].topenfile /\ o \in [Fd -> OpenType]
  BY DEF Filed, Sound, FilesInv, TableInv
<1>2. PICK m \in Nat :
           /\ m >= 2 /\ o[cur].fcb.length = m * FCBSIZE
           /\ Dir(s, cur) = [j \in 0 .. m - 1 |-> Entry(h, d, j)]
  BY <1>1, DirEntries
<1>3. i \in 0 .. m - 1 /\ f = Dir(s, cur)[i] /\ f.filename = name /\ f.exname = ex
  <2> DEFINE M == Matches(Dir(s, cur), name, ex)
  <2>1. M \subseteq 0 .. m - 1 /\ \A j \in M : Dir(s, cur)[j].filename = name /\ Dir(s, cur)[j].exname = ex
    BY <1>2 DEF Matches
  <2>2. M \subseteq Nat /\ M # {}
    BY <2>1
  <2> HIDE DEF M
  <2>3. Min(M) \in M
    BY <2>2, MinFound
  <2>4. i = Min(M)
    BY DEF M
  <2> HIDE DEF i
  <2>5. i \in 0 .. m - 1 /\ Dir(s, cur)[i].filename = name /\ Dir(s, cur)[i].exname = ex
    BY <2>1, <2>3, <2>4
  <2> QED
    BY <1>2, <2>5, SMTT(30)
<1>4. /\ fd \in Fd \ {0} /\ fd # cur /\ t.broken = s.broken /\ t.hard = h /\ Sound(t, fd)
      /\ \A x \in Fd : x # fd => p[x] = o[x]
      /\ p[fd].father = cur /\ p[fd].fcb = Dir(s, cur)[i]
      /\ ~o[fd].topenfile /\ p[fd].topenfile /\ p[fd].diroff = i
  BY DEF OpenedTo
<1>5. d \in w.dirs /\ w.length[d] = o[cur].fcb.length
  BY <1>1, OpenIsDir
<1> HIDE DEF i, f
<1>6. g \in w.heads \ {Root} /\ w.up[g] = d /\ w.at[g] = i
  <2>1. (i + 1) * FCBSIZE <= Room(h, d) /\ i \in Nat
    <3>1. i \in Nat /\ i + 1 \in Nat /\ i + 1 <= m /\ FCBSIZE \in Nat
      BY <1>3, Sizes
    <3>2. (i + 1) * FCBSIZE <= m * FCBSIZE /\ (i + 1) * FCBSIZE \in Nat /\ m * FCBSIZE \in Nat
      BY <3>1, Times
    <3>3. m * FCBSIZE <= Room(h, d)
      BY <1>1, <1>2, <1>5 DEF DiscFiles, SizesInv
    <3>4. Room(h, d) \in Nat
      BY <1>1, <1>5, HeadFacts DEF DiscFiles, WitnessType, Heads
    <3> QED
      BY <3>1, <3>2, <3>3, <3>4
  <2>2. f.filename \in Given
    BY <1>3
  <2> HIDE DEF h, d
  <2> QED
    BY <1>1, <1>5, <2>1, <2>2, NamedEntry DEF f
<1>7. EntryIs(f, g, g \in w.dirs) /\ f = Entry(h, w.up[g], w.at[g]) /\ NameOf(h, w, g) = name
  <2>1. f = Entry(h, w.up[g], w.at[g])
    BY <1>6 DEF f
  <2>2. EntryIs(Entry(h, w.up[g], w.at[g]), g, g \in w.dirs)
    BY <1>1, <1>6 DEF DiscFiles, PlacesInv
  <2> HIDE DEF g
  <2> QED
    BY <1>3, <2>1, <2>2 DEF NameOf
<1>8. g # d
  BY <1>1, <1>6, HeadFacts DEF DiscFiles
<1>9. ~IsOpen(o, g)
  <2>1. ASSUME NEW x \in Fd, o[x].topenfile, o[x].fcb.first = g PROVE FALSE
    <3>1. x # 0 /\ x # cur
      BY <1>6, <1>8, <2>1, SMTT(30) DEF TableInv, Filed, Sound
    <3>2. SameButLength(o[x].fcb, Entry(h, w.up[g], w.at[g]))
      BY <1>1, <2>1, <3>1 DEF OpenInv, OpenEntry
    <3>3. o[x].fcb.filename = name /\ o[x].fcb.exname = ex
      <4> HIDE DEF h, g, o
      <4> QED
        BY <1>3, <1>7, <3>2 DEF SameButLength
    <3> QED
      BY <3>1, <3>3 DEF Blocked
  <2> QED
    BY <2>1 DEF IsOpen
<1>10. f.length = w.length[g]
  <2>1. Entry(h, w.up[g], w.at[g]).length = w.length[g]
    BY <1>1, <1>6, <1>9 DEF OpenInv, ClosedLengths
  <2> QED
    BY <1>7, <2>1
<1>11. g \in w.dirs \ w.raw => Filled(h, g)
  <2> SUFFICES ASSUME g \in w.dirs \ w.raw PROVE Filled(h, g)
    OBVIOUS
  <2>1. ex = ""
    <3>1. (g \in w.dirs) = TRUE
      OBVIOUS
    <3>2. EntryIs(f, g, TRUE)
      BY <1>7, <3>1
    <3> HIDE DEF g
    <3> QED
      BY <1>3, <3>2 DEF EntryIs
  <2> HIDE DEF h, g, d, o
  <2>2. ~Blocked(o, cur, NameOf(h, w, g), "")
    BY <1>7, <2>1 DEF o
  <2> QED
    BY <1>1, <1>6, <2>2, FilledUnlessBlocked DEF d
<1>12. p[fd].fcb = f
  BY <1>3, <1>4
<1> HIDE DEF h, o, p, g, d
<1>13. \A x \in Fd : IF p[x].topenfile THEN OpenHead(h, w, p[x].fcb) ELSE p[x] = Closed
  <2>1. OpenHead(h, w, f)
    BY <1>6, <1>10, <1>11 DEF OpenHead, g
  <2>2. \A x \in Fd : IF o[x].topenfile THEN OpenHead(h, w, o[x].fcb) ELSE o[x] = Closed
    BY <1>1 DEF OpenInv
  <2> QED
    BY <1>4, <1>12, <2>1, <2>2
<1>14. ASSUME NEW x \in Fd \ {0}, p[x].topenfile PROVE OpenEntry(h, w, p[x], p[p[x].father])
  <2>1. CASE x = fd
    <3>1. p[p[x].father].fcb.first = d /\ p[x].fcb = f /\ p[x].diroff = i
      BY <1>1, <1>4, <1>12, <2>1 DEF d
    <3>2. SameButLength(f, f)
      BY DEF SameButLength
    <3>3. p[x].fcb.first = g
      BY <3>1 DEF g
    <3> QED
      BY <1>6, <1>7, <3>1, <3>2, <3>3 DEF OpenEntry
  <2>2. CASE x # fd
    <3>1. p[x] = o[x] /\ o[x].topenfile
      BY <1>4, <1>14, <2>2
    <3>2. o[x].father \in Fd /\ o[o[x].father].topenfile
      BY <1>1, <3>1, Entries DEF TableInv
    <3>3. p[o[x].father] = o[o[x].father]
      BY <1>4, <3>2
    <3>4. OpenEntry(h, w, o[x], o[o[x].father])
      BY <1>1, <3>1 DEF OpenInv
    <3> QED
      BY <3>1, <3>3, <3>4
  <2> QED
    BY <2>1, <2>2
<1>15. ASSUME NEW x \in Fd, NEW y \in Fd, p[x].topenfile, p[y].topenfile, p[x].fcb.first = p[y].fcb.first
       PROVE  x = y
  <2>1. \A z \in Fd : z # fd /\ p[z].topenfile => p[z] = o[z] /\ o[z].topenfile /\ o[z].fcb.first # g
    BY <1>4, <1>9 DEF IsOpen
  <2>2. p[fd].fcb.first = g
    BY <1>12 DEF g
  <2>3. CASE x # fd /\ y # fd
    BY <1>1, <1>15, <2>1, <2>3 DEF OpenInv
  <2> QED
    BY <1>15, <2>1, <2>2, <2>3
<1>16. OpenAbove(p, fd) = w.above[p[fd].fcb.first]
  <2>1. p[fd].fcb.first = g
    BY <1>12 DEF g
  <2>2. w.above[g] = w.above[d] \union {d}
    BY <1>1, <1>6 DEF DiscFiles, AboveInv
  <2>3. OpenAbove(o, cur) = w.above[d]
    BY <1>1 DEF OpenInv, d
  <2> DEFINE S == {x \in Fd : p[x].topenfile /\ x # fd}
             T == {x \in Fd : o[x].topenfile /\ x # cur}
  <2>4. S = T \union {cur} /\ \A x \in S : p[x] = o[x]
    BY <1>1, <1>4
  <2>5. OpenAbove(p, fd) = {p[x].fcb.first : x \in S} /\ OpenAbove(o, cur) = {o[x].fcb.first : x \in T}
    BY DEF OpenAbove
  <2> HIDE DEF S, T
  <2>6. {p[x].fcb.first : x \in S} = {o[x].fcb.first : x \in T} \union {d}
    BY <2>4 DEF d
  <2> QED
    BY <2>1, <2>2, <2>3, <2>5, <2>6
<1>17. ClosedLengths(h, p, w)
  <2>1. ASSUME NEW x \in w.heads \ {Root}, ~IsOpen(p, x) PROVE ~IsOpen(o, x)
    <3>1. \A y \in Fd : o[y].topenfile => p[y] = o[y]
      BY <1>4
    <3> QED
      BY <2>1, <3>1 DEF IsOpen
  <2> QED
    BY <1>1, <2>1 DEF OpenInv, ClosedLengths
<1>18. OpenInv(h, p, fd, w)
  BY <1>13, <1>14, <1>15, <1>16, <1>17 DEF OpenInv
<1>19. s.broken = "no"
  BY DEF Filed
<1>20. Filed(t, fd, txt, w)
  BY <1>1, <1>4, <1>18, <1>19 DEF Filed, FilesInv, p
<1>21. p[fd].fcb = Entry(h, d, p[fd].diroff)
  BY <1>4, <1>12 DEF f
<1> QED
  BY <1>20, <1>21 DEF p, h, d, o, FiledAs

-----------------------------------------------------------------------------
(* Blocks taken and given back.                                            *)

\* The witness v has files of w, with all the directories they are in.
Fewer(w, v) ==
  /\ v.heads \subseteq w.heads /\ v.dirs = w.dirs \intersect v.heads /\ Root \in v.heads
  /\ v.up = w.up /\ v.at = w.at /\ v.above = w.above /\ v.depth = w.depth /\ v.raw = w.raw
  /\ \A x \in v.heads : w.above[x] \subseteq v.heads
  /\ \A x \in v.dirs : v.length[x] = w.length[x]

LEMMA UnmovedEntries ==
  ASSUME NEW h, NEW k, NEW x, OneChain(h, x), Unmoved(h, k, x)
  PROVE  /\ Room(k, x) = Room(h, x)
         /\ \A i \in Nat : (i + 1) * FCBSIZE <= Room(h, x) => Entry(k, x, i) = Entry(h, x, i)
<1>1. Room(k, x) = Room(h, x) /\ \A p \in 0 .. Room(h, x) - 1 : Cell(k, x, p) = Cell(h, x, p)
  BY UnmovedCells
<1>2. ASSUME NEW i \in Nat, (i + 1) * FCBSIZE <= Room(h, x) PROVE Entry(k, x, i) = Entry(h, x, i)
  <2>1. FCBSIZE \in Nat /\ FCBSIZE > 0
    BY Sizes
  <2>2. i * FCBSIZE \in Nat /\ (i + 1) * FCBSIZE = i * FCBSIZE + FCBSIZE
    BY <2>1, Times
  <2>3. Room(h, x) \in Nat
    BY RoomFacts
  <2>4. i * FCBSIZE \in 0 .. Room(h, x) - 1
    BY <1>2, <2>1, <2>2, <2>3
  <2> QED
    BY <1>1, <2>4 DEF Entry
<1> QED
  BY <1>1, <1>2

LEMMA EntriesStay ==
  ASSUME NEW h, NEW k, NEW txt, NEW w, DiscFiles(h, txt, w), NEW v, Fewer(w, v),
         \A x \in v.dirs : Unmoved(h, k, x)
  PROVE  /\ \A x \in v.heads \ {Root} : v.up[x] \in v.dirs /\ Entry(k, v.up[x], v.at[x]) = Entry(h, w.up[x], w.at[x])
         /\ \A x \in v.dirs : Room(k, x) = Room(h, x) /\ (Filled(h, x) => Filled(k, x))
<1>1. /\ w.dirs \subseteq w.heads /\ w.heads \subseteq Heads(w)
      /\ \A x \in w.dirs, i \in {0, 1} : (i + 1) * FCBSIZE <= Room(h, x)
      /\ \A x \in w.heads \ {Root} :
              /\ w.up[x] \in w.dirs /\ w.at[x] \in Nat
              /\ (w.at[x] + 1) * FCBSIZE <= Room(h, w.up[x])
      /\ \A x \in Heads(w) : OneChain(h, x)
  BY HeadFacts DEF DiscFiles
<1>2. /\ v.heads \subseteq w.heads /\ v.dirs = w.dirs \intersect v.heads /\ v.up = w.up /\ v.at = w.at
      /\ \A x \in v.heads : w.above[x] \subseteq v.heads
  BY DEF Fewer
<1>3. ASSUME NEW x \in v.dirs
      PROVE  /\ Room(k, x) = Room(h, x)
             /\ \A i \in Nat : (i + 1) * FCBSIZE <= Room(h, x) => Entry(k, x, i) = Entry(h, x, i)
  <2>1. OneChain(h, x) /\ Unmoved(h, k, x)
    BY <1>1, <1>2
  <2> QED
    BY <2>1, UnmovedEntries
<1>4. \A x \in v.heads \ {Root} : v.up[x] \in v.dirs
  <2>1. \A x \in w.heads \ {Root} : w.up[x] \in w.above[x]
    BY DEF DiscFiles, AboveInv
  <2> QED
    BY <1>1, <1>2, <2>1
<1>5. ASSUME NEW x \in v.heads \ {Root} PROVE Entry(k, v.up[x], v.at[x]) = Entry(h, w.up[x], w.at[x])
  <2>1. w.up[x] \in v.dirs /\ w.at[x] \in Nat /\ (w.at[x] + 1) * FCBSIZE <= Room(h, w.up[x])
    BY <1>1, <1>2, <1>4
  <2> QED
    BY <1>2, <1>3, <2>1
<1>6. ASSUME NEW x \in v.dirs, Filled(h, x) PROVE Filled(k, x)
  <2>1. \A i \in {0, 1} : Entry(k, x, i) = Entry(h, x, i)
    <3>1. \A i \in {0, 1} : i \in Nat /\ (i + 1) * FCBSIZE <= Room(h, x)
      BY <1>1, <1>2
    <3> QED
      BY <1>3, <3>1
  <2>2. Entry(k, x, 0) = Entry(h, x, 0) /\ Entry(k, x, 1) = Entry(h, x, 1)
    BY <2>1
  <2> QED
    BY <1>6, <2>2 DEF Filled
<1> QED
  BY <1>3, <1>4, <1>5, <1>6

LEMMA TreeStays ==
  ASSUME NEW h, NEW k, NEW txt, NEW w, DiscFiles(h, txt, w), NEW v, Fewer(w, v),
         \A x \in v.dirs : Unmoved(h, k, x)
  PROVE  PlacesInv(k, v) /\ SizesInv(k, v) /\ FilledInv(k, v) /\ AboveInv(v)
<1>1. /\ \A x \in v.heads \ {Root} : v.up[x] \in v.dirs /\ Entry(k, v.up[x], v.at[x]) = Entry(h, w.up[x], w.at[x])
      /\ \A x \in v.dirs : Room(k, x) = Room(h, x) /\ (Filled(h, x) => Filled(k, x))
  BY EntriesStay
<1>2. /\ v.heads \subseteq w.heads /\ v.dirs = w.dirs \intersect v.heads /\ v.up = w.up /\ v.at = w.at
      /\ v.above = w.above /\ v.depth = w.depth /\ v.raw = w.raw /\ Root \in v.heads
      /\ \A x \in v.heads : w.above[x] \subseteq v.heads
      /\ \A x \in v.dirs : v.length[x] = w.length[x]
  BY DEF Fewer
<1>3. PlacesInv(h, w) /\ SizesInv(h, w) /\ FilledInv(h, w) /\ AboveInv(w)
  BY DEF DiscFiles
<1>4. PlacesInv(k, v)
  <2>1. ASSUME NEW x \in v.heads \ {Root}
        PROVE  /\ v.up[x] \in v.dirs /\ v.at[x] >= 2 /\ (v.at[x] + 1) * FCBSIZE <= v.length[v.up[x]]
               /\ EntryIs(Entry(k, v.up[x], v.at[x]), x, x \in v.dirs)
    <3>1. /\ w.at[x] >= 2 /\ (w.at[x] + 1) * FCBSIZE <= w.length[w.up[x]]
          /\ EntryIs(Entry(h, w.up[x], w.at[x]), x, x \in w.dirs)
      BY <1>2, <1>3 DEF PlacesInv
    <3>2. (x \in v.dirs) = (x \in w.dirs)
      BY <1>2
    <3>3. EntryIs(Entry(k, v.up[x], v.at[x]), x, x \in v.dirs)
      BY <1>1, <3>1, <3>2
    <3> QED
      BY <1>1, <1>2, <3>1, <3>3
  <2> QED
    BY <2>1 DEF PlacesInv
<1>5. SizesInv(k, v)
  BY <1>1, <1>2, <1>3 DEF SizesInv
<1>6. FilledInv(k, v)
  <2>1. ASSUME NEW x \in v.dirs \ ({Root} \union v.raw)
        PROVE  Filled(k, x) \/ \E a \in v.above[v.up[x]] \ {Root} : NameOf(k, v, a) = NameOf(k, v, x)
    <3>1. x \in w.dirs \ ({Root} \union w.raw) /\ x \in v.heads \ {Root}
      BY <1>2
    <3>2. CASE Filled(h, x)
      BY <1>1, <3>2
    <3>3. CASE ~Filled(h, x)
      <4>1. PICK a \in w.above[w.up[x]] \ {Root} : NameOf(h, w, a) = NameOf(h, w, x)
        BY <1>3, <3>1, <3>3 DEF FilledInv
      <4>2. a \in v.heads \ {Root}
        <5>1. v.up[x] \in v.heads
          BY <1>1, <1>2, <3>1
        <5> QED
          BY <1>2, <5>1
      <4>3. NameOf(k, v, a) = NameOf(h, w, a) /\ NameOf(k, v, x) = NameOf(h, w, x)
        BY <1>1, <3>1, <4>2 DEF NameOf
      <4> QED
        BY <1>2, <4>1, <4>3
    <3> QED
      BY <3>2, <3>3
  <2> QED
    BY <2>1 DEF FilledInv
<1>7. AboveInv(v)
  <2>1. ASSUME NEW x \in v.heads, NEW a \in v.above[x]
        PROVE  /\ a \in v.dirs /\ v.depth[a] < v.depth[x]
               /\ \E c \in v.heads \ {Root} : v.up[c] = a /\ (c = x \/ c \in v.above[x])
    <3>1. x \in w.heads /\ a \in w.above[x] /\ a \in v.heads
      BY <1>2
    <3>2. a \in w.dirs /\ w.depth[a] < w.depth[x]
      BY <1>3, <3>1 DEF AboveInv
    <3>3. PICK c \in w.heads \ {Root} : w.up[c] = a /\ (c = x \/ c \in w.above[x])
      BY <1>3, <3>1 DEF AboveInv
    <3>4. c \in v.heads \ {Root}
      BY <1>2, <3>3
    <3> QED
      BY <1>2, <3>1, <3>2, <3>3, <3>4
  <2>2. \A x \in v.heads \ {Root} : v.above[x] = v.above[v.up[x]] \union {v.up[x]} /\ v.depth[x] <= MAXOPENFILE
    BY <1>2, <1>3 DEF AboveInv
  <2>3. v.above[Root] = {} /\ \A x \in v.heads : v.depth[x] = Cardinality(v.above[x])
    BY <1>2, <1>3 DEF AboveInv
  <2> QED
    BY <2>1, <2>2, <2>3 DEF AboveInv
<1> QED
  BY <1>4, <1>5, <1>6, <1>7

LEMMA TextStays ==
  ASSUME NEW h, NEW k, NEW txt, NEW w, DiscFiles(h, txt, w), NEW v, v.heads \subseteq w.heads, v.dirs = w.dirs \intersect v.heads,
         NEW new, new \in [Block -> Seq(Character)],
         \A x \in v.heads \ v.dirs : Unmoved(h, k, x) /\ v.length[x] = w.length[x] /\ new[x] = txt[x]
  PROVE  TextInv(k, new, v)
<1>1. ASSUME NEW x \in v.heads \ v.dirs
      PROVE  /\ Len(new[x]) = v.length[x] /\ v.length[x] <= Room(k, x)
             /\ \A p \in 0 .. v.length[x] - 1 : Cell(k, x, p) = <<"char", new[x][p + 1], 0>>
  <2>1. x \in w.heads \ w.dirs /\ Unmoved(h, k, x) /\ OneChain(h, x)
    BY HeadFacts DEF DiscFiles
  <2>2. Room(k, x) = Room(h, x) /\ \A p \in 0 .. Room(h, x) - 1 : Cell(k, x, p) = Cell(h, x, p)
    BY <2>1, UnmovedCells
  <2>3. /\ Len(txt[x]) = w.length[x] /\ w.length[x] <= Room(h, x)
        /\ \A p \in 0 .. w.length[x] - 1 : Cell(h, x, p) = <<"char", txt[x][p + 1], 0>>
    BY <2>1 DEF DiscFiles, TextInv
  <2>4. w.length[x] \in Nat /\ Room(h, x) \in Nat
    BY <2>1, RoomFacts DEF DiscFiles, WitnessType
  <2>5. \A p \in 0 .. w.length[x] - 1 : p \in 0 .. Room(h, x) - 1
    BY <2>3, <2>4
  <2> QED
    BY <2>2, <2>3, <2>5
<1> QED
  BY <1>1 DEF TextInv

LEMMA OpenStays ==
  ASSUME NEW h, NEW k, NEW txt, NEW w, DiscFiles(h, txt, w), NEW v, Fewer(w, v),
         \A x \in v.dirs : Unmoved(h, k, x),
         NEW o, NEW cur, TableInv(o, cur), OpenInv(h, o, cur, w), v.length = w.length,
         \A x \in Fd : o[x].topenfile => o[x].fcb.first \in v.heads
  PROVE  OpenInv(k, o, cur, v)
<1>1. /\ \A x \in v.heads \ {Root} : v.up[x] \in v.dirs /\ Entry(k, v.up[x], v.at[x]) = Entry(h, w.up[x], w.at[x])
      /\ \A x \in v.dirs : Room(k, x) = Room(h, x) /\ (Filled(h, x) => Filled(k, x))
  BY EntriesStay
<1>2. /\ v.heads \subseteq w.heads /\ v.dirs = w.dirs \intersect v.heads /\ v.up = w.up /\ v.at = w.at
      /\ v.above = w.above /\ v.raw = w.raw
  BY DEF Fewer
<1>3. \A x \in Fd : IF o[x].topenfile THEN OpenHead(k, v, o[x].fcb) ELSE o[x] = Closed
  BY <1>1, <1>2 DEF OpenInv, OpenHead
<1>4. ASSUME NEW x \in Fd \ {0}, o[x].topenfile PROVE OpenEntry(k, v, o[x], o[o[x].father])
  <2> DEFINE g == o[x].fcb.first
  <2>1. OpenEntry(h, w, o[x], o[o[x].father])
    BY <1>4 DEF OpenInv
  <2>2. g # Root /\ g \in v.heads
    BY <1>4, <2>1 DEF OpenEntry
  <2>3. Entry(k, v.up[g], v.at[g]) = Entry(h, w.up[g], w.at[g])
    BY <1>1, <2>2
  <2> QED
    BY <1>2, <2>1, <2>3 DEF OpenEntry
<1>5. OpenAbove(o, cur) = v.above[o[cur].fcb.first]
  BY <1>2 DEF OpenInv
<1>6. ClosedLengths(k, o, v)
  BY <1>1, <1>2 DEF OpenInv, ClosedLengths
<1>7. \A x, y \in Fd : o[x].topenfile /\ o[y].topenfile /\ o[x].fcb.first = o[y].fcb.first => x = y
  BY DEF OpenInv
<1> QED
  BY <1>3, <1>4, <1>5, <1>6, <1>7 DEF OpenInv

-----------------------------------------------------------------------------
(* What a command leaves of its entries.                                   *)

\* What is in the current directory is not open.
LEMMA NotOpenHere ==
  ASSUME NEW h, NEW o, NEW cur, NEW txt, NEW w, TableInv(o, cur), FilesInv(h, o, cur, txt, w),
         NEW g \in w.heads \ {Root}, w.up[g] = o[cur].fcb.first
  PROVE  ~IsOpen(o, g)
<1> DEFINE d == o[cur].fcb.first
<1>1. DiscFiles(h, txt, w) /\ OpenInv(h, o, cur, w) /\ AboveInv(w) /\ WitnessType(w)
  BY DEF FilesInv, DiscFiles
<1>2. d # g /\ d \in w.heads
  BY <1>1, HeadFacts DEF DiscFiles
<1>3. d \in w.above[g]
  BY <1>1 DEF AboveInv
<1>4. w.depth[d] < w.depth[g] /\ w.depth[d] \in Nat /\ w.depth[g] \in Nat
  BY <1>1, <1>2, <1>3 DEF AboveInv, WitnessType
<1>5. g \notin w.above[d]
  <2>1. g \in w.above[d] => w.depth[g] < w.depth[d]
    BY <1>1, <1>2 DEF AboveInv
  <2> QED
    BY <1>4, <2>1
<1>6. OpenAbove(o, cur) = w.above[d]
  BY <1>1, SMTT(30) DEF OpenInv
<1> QED
  BY <1>2, <1>5, <1>6 DEF IsOpen, OpenAbove

NamedAbove(h, w, d, name) == \E a \in w.above[d] \ {Root} : NameOf(h, w, a) = name

\* A name that blocks an entry here is that of a directory above.
LEMMA BlockedAbove ==
  ASSUME NEW h, NEW o, NEW cur, NEW txt, NEW w, TableInv(o, cur), FilesInv(h, o, cur, txt, w),
         NEW name \in Given, NEW ex, Blocked(o, cur, name, ex)
  PROVE  NamedAbove(h, w, o[cur].fcb.first, name)
<1>1. OpenInv(h, o, cur, w)
  BY DEF FilesInv
<1>2. PICK x \in Fd \ {cur} : o[x].fcb.filename = name
  BY DEF Blocked
<1>3. o[x].topenfile
  <2>1. Closed.fcb.filename = ""
    BY NoFcbOk DEF Closed
  <2> QED
    BY <1>1, <1>2, <2>1, Names DEF OpenInv
<1>4. x # 0
  BY <1>2, Names DEF TableInv
<1>5. o[x].fcb.first \in w.above[o[cur].fcb.first]
  BY <1>1, <1>2, <1>3 DEF OpenInv, OpenAbove
<1>6. /\ o[x].fcb.first # Root
      /\ SameButLength(o[x].fcb, Entry(h, w.up[o[x].fcb.first], w.at[o[x].fcb.first]))
  BY <1>1, <1>3, <1>4 DEF OpenInv, OpenEntry
<1> QED
  BY <1>2, <1>5, <1>6, ZenonT(40) DEF SameButLength, NameOf, NamedAbove

\* The directories that had not got their two entries have them, or cannot be
\* opened.
LEMMA RawFilled ==
  ASSUME NEW s, NEW cur, NEW txt, NEW w, Filed(s, cur, txt, w),
         \A g \in w.raw \ {Root} :
           \/ Filled(s.hard, g)
           \/ ~IsOpen(s.open, g)
              /\ \E a \in w.above[w.up[g]] \ {Root} : NameOf(s.hard, w, a) = NameOf(s.hard, w, g),
         Filled(s.hard, Root),
         w.orphans \subseteq Block, w.orphans \intersect w.heads = {}
  PROVE  Filed(s, cur, txt, Now(w, w.orphans, w.holes, {}))
<1> DEFINE v == Now(w, w.orphans, w.holes, {})
           h == s.hard
           o == s.open
<1>1. DiscFiles(h, txt, w) /\ OpenInv(h, o, cur, w) /\ TableInv(o, cur)
  BY DEF Filed, FilesInv, Sound
<1>2. /\ WitnessType(w) /\ ChainsInv(h, Heads(w)) /\ LagInv(h, w) /\ UnitsInv(h, w) /\ PlacesInv(h, w)
      /\ SizesInv(h, w) /\ FilledInv(h, w) /\ AboveInv(w) /\ TextInv(h, txt, w)
  BY <1>1 DEF DiscFiles
<1>3. /\ WitnessType(v) /\ SameTree(w, v) /\ AboveInv(v)
      /\ v.orphans = w.orphans /\ v.holes = w.holes /\ v.raw = {}
  BY <1>2, NowTyped
<1> HIDE DEF v, h, o
<1>4. Heads(v) = Heads(w)
  BY <1>3 DEF SameTree, Heads
<1>5. /\ v.heads = w.heads /\ v.dirs = w.dirs /\ v.up = w.up /\ v.at = w.at /\ v.length = w.length
      /\ v.above = w.above /\ v.depth = w.depth
  BY <1>3 DEF SameTree
<1>6. \A x, y : NameOf(x, v, y) = NameOf(x, w, y)
  BY <1>5 DEF NameOf
<1>7. FilledInv(h, v)
  <2>1. ASSUME NEW d \in w.dirs \ {Root}
        PROVE  Filled(h, d) \/ \E a \in w.above[w.up[d]] \ {Root} : NameOf(h, w, a) = NameOf(h, w, d)
    <3>1. CASE d \in w.raw
      BY <2>1, <3>1 DEF h
    <3>2. CASE d \notin w.raw
      BY <1>2, <2>1, <3>2 DEF FilledInv
    <3> QED
      BY <3>1, <3>2
  <2> QED
    BY <1>3, <1>5, <1>6, <2>1 DEF FilledInv
<1>8. DiscFiles(h, txt, v)
  <2>1. ChainsInv(h, Heads(v))
    BY <1>2, <1>4
  <2>2. LagInv(h, v)
    BY <1>2, <1>4, <1>5 DEF LagInv
  <2>3. UnitsInv(h, v)
    BY <1>2, <1>3, <1>4, <1>5 DEF UnitsInv, AtPlace
  <2>4. PlacesInv(h, v) /\ SizesInv(h, v) /\ TextInv(h, txt, v)
    BY <1>2, <1>5 DEF PlacesInv, SizesInv, TextInv
  <2> QED
    BY <1>3, <1>7, <2>1, <2>2, <2>3, <2>4 DEF DiscFiles
<1>9. \A f : OpenHead(h, w, f) /\ (\E x \in Fd : o[x].topenfile /\ o[x].fcb = f) => OpenHead(h, v, f)
  <2>1. ASSUME NEW f, OpenHead(h, w, f), NEW x \in Fd, o[x].topenfile, o[x].fcb = f, f.first \in w.dirs
        PROVE  Filled(h, f.first)
    <3>1. CASE f.first \in w.raw
      <4>1. f.first # Root => Filled(s.hard, f.first) \/ ~IsOpen(s.open, f.first)
        BY <3>1
      <4>2. IsOpen(s.open, f.first)
        BY <2>1 DEF IsOpen, o
      <4> QED
        BY <4>1, <4>2 DEF h
    <3>2. CASE f.first \notin w.raw
      BY <2>1, <3>2 DEF OpenHead
    <3> QED
      BY <3>1, <3>2
  <2> QED
    BY <1>5, <2>1 DEF OpenHead
<1>10. OpenInv(h, o, cur, v)
  <2>1. \A x \in Fd : IF o[x].topenfile THEN OpenHead(h, v, o[x].fcb) ELSE o[x] = Closed
    BY <1>1, <1>9 DEF OpenInv
  <2>2. \A x \in Fd \ {0} : o[x].topenfile => OpenEntry(h, v, o[x], o[o[x].father])
    BY <1>1, <1>5 DEF OpenInv, OpenEntry
  <2>3. OpenAbove(o, cur) = v.above[o[cur].fcb.first] /\ ClosedLengths(h, o, v)
    BY <1>1, <1>5 DEF OpenInv, ClosedLengths
  <2> QED
    BY <1>1, <2>1, <2>2, <2>3 DEF OpenInv
<1> QED
  BY <1>8, <1>10 DEF Filed, FilesInv, v, h, o

\* WriteFcb() of one of a directory's own two entries.
LEMMA FiledDotPut ==
  ASSUME NEW s, NEW cur, NEW txt, NEW w, Filed(s, cur, txt, w), NEW fd \in Fd, s.open[fd].topenfile,
         s.open[fd].fcb.directory, NEW slot \in {0, 1}, NEW fcb, FcbOk(fcb), fcb.free = 1,
         fcb.filename \notin Given, NEW t, t = WriteFcb(s, fd, slot, fcb), t.broken = "no",
         Sound(t, cur)
  PROVE  /\ Filed(t, cur, txt, w)
         /\ Entry(t.hard, s.open[fd].fcb.first, slot) = fcb
         /\ Entry(t.hard, s.open[fd].fcb.first, 1 - slot) = Entry(s.hard, s.open[fd].fcb.first, 1 - slot)
         /\ t.open = Enter(s.open, fd, s.open[fd].fcb.length)
<1> DEFINE d == s.open[fd].fcb.first
           X == Heads(w)
<1>1. /\ TableInv(s.open, cur) /\ s.open \in [Fd -> OpenType] /\ FilesInv(s.hard, s.open, cur, txt, w)
      /\ DiscFiles(s.hard, txt, w) /\ WitnessType(w) /\ s.broken = "no" /\ Sound(s, cur)
  BY DEF Filed, Sound, FilesInv, DiscFiles, TableInv
<1>2. d \in w.dirs
  BY <1>1, OpenIsDir
<1>3. slot \in Nat /\ 1 - slot \in Nat /\ 1 - slot # slot /\ slot < 2
  OBVIOUS
<1>4. /\ s.open[fd].fcb.length \in Nat
      /\ (slot + 1) * FCBSIZE \in Nat /\ (slot + 1) * FCBSIZE <= s.open[fd].fcb.length
  <2>1. s.open[fd].fcb.length \in Nat /\ s.open[fd].fcb.length >= 2 * FCBSIZE
    BY <1>1, DirLength
  <2>2. slot + 1 \in Nat /\ slot + 1 <= 2 /\ FCBSIZE \in Nat /\ 2 \in Nat
    BY Sizes
  <2>3. (slot + 1) * FCBSIZE \in Nat /\ (slot + 1) * FCBSIZE <= 2 * FCBSIZE /\ 2 * FCBSIZE \in Nat
    <3> DEFINE a == slot + 1
    <3>1. a \in Nat /\ a <= 2
      BY <2>2
    <3> HIDE DEF a
    <3>2. a * FCBSIZE \in Nat /\ 2 * FCBSIZE \in Nat /\ a * FCBSIZE <= 2 * FCBSIZE
      BY <2>2, <3>1, Times
    <3> QED
      BY <3>2 DEF a
  <2> QED
    BY <2>1, <2>3
<1>5. OldEntry(s.hard, w, d, slot, fcb)
  <2>1. \A g \in w.heads \ {Root} : w.at[g] >= 2 /\ w.at[g] \in Nat
    BY <1>1, HeadFacts DEF DiscFiles
  <2>2. \A g \in w.heads \ {Root} : w.at[g] # slot
    BY <1>3, <2>1
  <2> QED
    BY <2>2 DEF OldEntry
<1>6. SameTree(w, w)
  BY DEF SameTree
<1>7. Filed(t, cur, txt, w)
  <2> HIDE DEF d
  <2>1. d = s.open[fd].fcb.first
    BY DEF d
  <2> QED
    BY <1>1, <1>2, <1>3, <1>4, <1>5, <1>6, <2>1, PutSame
<1>8. NewLength(s.open[fd].fcb.length, (slot + 1) * FCBSIZE) = s.open[fd].fcb.length
  <2> DEFINE a == s.open[fd].fcb.length
             b == (slot + 1) * FCBSIZE
  <2>1. a \in Nat /\ b \in Nat /\ b <= a
    BY <1>4
  <2> HIDE DEF a, b
  <2>2. NewLength(a, b) = IF a > b THEN a ELSE b
    BY <2>1, Max2 DEF NewLength
  <2>3. NewLength(a, b) = a
    BY <2>1, <2>2
  <2> QED
    BY <2>3 DEF a, b
<1>9. /\ Put(s.hard, t.hard, X, d, slot, fcb)
      /\ t.open = Enter(s.open, fd, s.open[fd].fcb.length)
  <2>1. ChainsInv(s.hard, X) /\ s.open[fd].fcb.first \in X /\ WriteFcb(s, fd, slot, fcb).broken = "no"
    BY <1>1, <1>2 DEF DiscFiles, WitnessType, Heads
  <2> HIDE DEF X
  <2>2. LET u == WriteFcb(s, fd, slot, fcb)
        IN  /\ Put(s.hard, u.hard, X, s.open[fd].fcb.first, slot, fcb)
            /\ u.open = Enter(s.open, fd, NewLength(s.open[fd].fcb.length, (slot + 1) * FCBSIZE))
    BY <1>1, <1>3, <2>1, PutTo
  <2> QED
    BY <1>8, <2>2
<1>10. /\ Entry(t.hard, d, slot) = fcb
       /\ Entry(t.hard, d, 1 - slot) = Entry(s.hard, d, 1 - slot)
  <2>1. d \in X
    BY <1>1, <1>2 DEF WitnessType, Heads
  <2>2. (1 - slot + 1) * FCBSIZE <= Room(s.hard, d)
    <3>1. \A i \in {0, 1} : (i + 1) * FCBSIZE <= Room(s.hard, d)
      BY <1>1, <1>2, HeadFacts DEF DiscFiles
    <3>2. 1 - slot \in {0, 1}
      OBVIOUS
    <3> QED
      BY <3>1, <3>2
  <2> DEFINE h == s.hard
             k == t.hard
  <2>5. Put(h, k, X, d, slot, fcb) /\ slot \in Nat
    BY <1>3, <1>9
  <2> HIDE DEF X, d, h, k
  <2>3. /\ Entry(k, d, slot) = fcb
        /\ \A x \in X : Room(k, x) >= Room(h, x) /\ Room(h, x) \in Nat /\ Room(k, x) \in Nat
        /\ \A x \in X, i \in Nat : <<x, i>> # <<d, slot>> /\ (i + 1) * FCBSIZE <= Room(h, x)
              => Entry(k, x, i) = Entry(h, x, i)
    BY <2>5, PutEntries
  <2>4. <<d, 1 - slot>> # <<d, slot>>
    BY <1>3
  <2> QED
    BY <1>3, <2>1, <2>2, <2>3, <2>4 DEF h, k
<1> QED
  BY <1>7, <1>9, <1>10

\* The directory's own entry gets its length.
LEMMA FiledDot ==
  ASSUME NEW s, NEW cur, NEW txt, NEW w, Filed(s, cur, txt, w), s.open[cur].fcb.directory,
         NEW dot, FcbOk(dot), dot.free = 1, dot.filename \notin Given,
         cur = 0 => IsDot(<<"fcb", dot, 1>>),
         WriteDot(s, cur, dot).broken = "no"
  PROVE  Filed(WriteDot(s, cur, dot), cur, txt, w)
<1> DEFINE t == WriteDot(s, cur, dot)
           a == s.open[cur].fcb.length
           fcb == [dot EXCEPT !.length = a]
<1>1. TableInv(s.open, cur) /\ cur \in Fd /\ s.open[cur].topenfile /\ s.broken = "no" /\ Sound(s, cur)
  BY DEF Filed, Sound, TableInv
<1>2. a \in Nat /\ a >= 2 * FCBSIZE
  BY <1>1, DirLength
<1>3. Sound(t, cur)
  BY <1>1, <1>2, WriteDotTo
<1>4. /\ fcb \in FcbType /\ fcb.filename = dot.filename /\ fcb.directory = dot.directory
      /\ fcb.first = dot.first /\ fcb.free = dot.free /\ fcb.length = a
  BY <1>2, FcbSized DEF FcbOk
<1>5. t = WriteFcb(s, cur, 0, fcb)
  BY DEF WriteDot
<1> HIDE DEF fcb
<1>6. FcbOk(fcb)
  BY <1>2, <1>4 DEF FcbOk
<1>7. t.broken = "no"
  OBVIOUS
<1> HIDE DEF t
<1>8. Filed(t, cur, txt, w)
  <2>1. fcb.free = 1 /\ fcb.filename \notin Given
    BY <1>4
  <2>2. 0 \in {0, 1}
    OBVIOUS
  <2> QED
    BY <1>1, <1>3, <1>5, <1>6, <1>7, <2>1, <2>2, FiledDotPut
<1> QED
  BY <1>8 DEF t

-----------------------------------------------------------------------------
(* A block for something new, and the blocks of something removed.         *)

\* No FCB with a user's name is where none should be, if only free blocks and
\* cells without such an FCB changed.
LEMMA UnitsStay ==
  ASSUME NEW h, NEW k, NEW w, NEW v, UnitsInv(h, w), ChainsInv(h, Heads(w)),
         \A b \in Block : b >= FirstData /\ k.fat1[b] = FREE =>
           \/ h.fat1[b] = FREE /\ k.block[b] = h.block[b]
           \/ \A j \in Unit : ~Live(k.block[b][j]),
         \A x \in Heads(v) :
           \/ x \in Heads(w) /\ Unmoved(h, k, x)
           \/ \A p \in 0 .. Room(k, x) - 1 : ~Live(Cell(k, x, p)),
         \A f, x : \A p \in Nat : AtPlace(w, f, x, p) => AtPlace(v, f, x, p) \/ <<x, p \div FCBSIZE>> \in v.holes,
         w.holes \subseteq v.holes
  PROVE  UnitsInv(k, v)
<1>1. /\ \A b \in Block, j \in Unit : b >= FirstData /\ h.fat1[b] = FREE => ~Live(h.block[b][j])
      /\ \A g \in Heads(w) : \A p \in 0 .. Room(h, g) - 1 :
           Live(Cell(h, g, p)) => AtPlace(w, Cell(h, g, p)[2], g, p) \/ <<g, p \div FCBSIZE>> \in w.holes
  BY DEF UnitsInv
<1>2. \A b \in Block, j \in Unit : b >= FirstData /\ k.fat1[b] = FREE => ~Live(k.block[b][j])
  BY <1>1
<1>3. ASSUME NEW x \in Heads(v), NEW p \in 0 .. Room(k, x) - 1, Live(Cell(k, x, p))
      PROVE  AtPlace(v, Cell(k, x, p)[2], x, p) \/ <<x, p \div FCBSIZE>> \in v.holes
  <2>1. x \in Heads(w) /\ Unmoved(h, k, x)
    BY <1>3
  <2>2. OneChain(h, x)
    BY <2>1 DEF ChainsInv, OneChain
  <2>3. Room(k, x) = Room(h, x) /\ \A y \in 0 .. Room(h, x) - 1 : Cell(k, x, y) = Cell(h, x, y)
    BY <2>1, <2>2, UnmovedCells
  <2>4. p \in 0 .. Room(h, x) - 1 /\ Cell(k, x, p) = Cell(h, x, p) /\ p \in Nat
    BY <2>3
  <2>5. AtPlace(w, Cell(h, x, p)[2], x, p) \/ <<x, p \div FCBSIZE>> \in w.holes
    BY <1>1, <1>3, <2>1, <2>4
  <2> QED
    BY <2>4, <2>5
<1> QED
  BY <1>2, <1>3 DEF UnitsInv

\* What nothing is in has no FCB with a user's name.
LEMMA NoneLive ==
  ASSUME NEW h, NEW w, UnitsInv(h, w), ChainsInv(h, Heads(w)), NEW g \in Heads(w), w.holes = {},
         \A x \in w.heads \ {Root} : w.up[x] # g
  PROVE  /\ \A p \in 0 .. Room(h, g) - 1 : ~Live(Cell(h, g, p))
         /\ \A b \in ToSet(Chain(h, g)), j \in Unit : ~Live(h.block[b][j])
<1>1. \A p \in 0 .. Room(h, g) - 1 : ~Live(Cell(h, g, p))
  BY DEF UnitsInv, AtPlace
<1>2. ASSUME NEW b \in ToSet(Chain(h, g)), NEW j \in Unit PROVE ~Live(h.block[b][j])
  <2> DEFINE c == Chain(h, g)
  <2>1. OneChain(h, g)
    BY DEF ChainsInv, OneChain
  <2>2. Len(c) \in Nat /\ ToSet(c) = {c[i] : i \in 1 .. Len(c)}
    BY <2>1, ChainFacts
  <2>3. PICK i \in 1 .. Len(c) : c[i] = b
    BY <2>2
  <2> DEFINE p == (i - 1) * BLOCKSIZE + j
             n == i - 1
  <2>4. /\ n \in Nat /\ n + 1 = i /\ j \in Nat /\ j < BLOCKSIZE /\ BLOCKSIZE \in Nat /\ BLOCKSIZE > 0
        /\ p = n * BLOCKSIZE + j
    BY <2>2, Sizes DEF Unit
  <2>5. n * BLOCKSIZE \in Nat /\ (n + 1) * BLOCKSIZE = n * BLOCKSIZE + BLOCKSIZE
    BY <2>4, Times
  <2>6. (n + 1) * BLOCKSIZE <= Len(c) * BLOCKSIZE /\ Len(c) * BLOCKSIZE \in Nat
    <3> DEFINE m == Len(c)
    <3>1. m \in Nat /\ n + 1 \in Nat /\ n + 1 <= m
      BY <2>2, <2>3, <2>4
    <3> HIDE DEF m, n
    <3>2. (n + 1) * BLOCKSIZE <= m * BLOCKSIZE /\ m * BLOCKSIZE \in Nat
      BY <2>4, <3>1, Times
    <3> QED
      BY <3>2 DEF m
  <2> HIDE DEF n, p
  <2>7. p \in 0 .. Room(h, g) - 1
    BY <2>4, <2>5, <2>6 DEF Room
  <2>8. p \div BLOCKSIZE = n /\ p % BLOCKSIZE = j
    <3>1. p \in Nat
      BY <2>4, <2>5
    <3> DEFINE y == p \div BLOCKSIZE
               z == p % BLOCKSIZE
    <3>2. y \in Nat /\ z \in 0 .. BLOCKSIZE - 1 /\ p = y * BLOCKSIZE + z
      BY <2>4, <3>1, Quotient
    <3> HIDE DEF y, z
    <3>3. y * BLOCKSIZE \in Nat /\ (y + 1) * BLOCKSIZE = y * BLOCKSIZE + BLOCKSIZE
      BY <2>4, <3>2, Times
    <3>4. ~(y < n)
      <4>1. SUFFICES ASSUME y < n PROVE FALSE
        OBVIOUS
      <4>2. y + 1 <= n /\ y + 1 \in Nat
        BY <2>4, <3>2, <4>1
      <4>3. (y + 1) * BLOCKSIZE <= n * BLOCKSIZE
        BY <2>4, <4>2, Times
      <4> QED
        BY <2>4, <2>5, <3>2, <3>3, <4>3
    <3>5. ~(n < y)
      <4>1. SUFFICES ASSUME n < y PROVE FALSE
        OBVIOUS
      <4>2. n + 1 <= y /\ n + 1 \in Nat
        BY <2>4, <3>2, <4>1
      <4>3. (n + 1) * BLOCKSIZE <= y * BLOCKSIZE
        BY <2>4, <3>2, <4>2, Times
      <4> QED
        BY <2>4, <2>5, <3>2, <3>3, <4>3
    <3>6. y = n
      BY <2>4, <3>2, <3>4, <3>5
    <3> QED
      BY <2>4, <2>5, <3>2, <3>3, <3>6 DEF y, z
  <2>9. Cell(h, g, p) = h.block[b][j]
    BY <2>3, <2>4, <2>8 DEF Cell
  <2> QED
    BY <1>1, <2>7, <2>9
<1> QED
  BY <1>1, <1>2

Taking(h, k, new, w, v, b, second) ==
  /\ DiscFiles(k, new, v) /\ Fewer(w, v)
  /\ \A x \in w.heads : Unmoved(h, k, x)
  /\ b \in Block /\ b >= FirstData /\ b \notin w.heads
  /\ second => k.fat1[b] = k.fat2[b]

\* my_create() and my_mkdir() take a block.
LEMMA DiscTaken ==
  ASSUME NEW h, DiscInv(h), NEW txt, NEW w, DiscFiles(h, txt, w), AtRest(w), NEW b \in FreeBlocks(h),
         NEW second, NEW new \in [Block -> Seq(Character)],
         \A x \in w.heads : new[x] = txt[x]
  PROVE  Taking(h, NewBlock(h, b, second), new, w, Now(w, {b}, {}, {}), b, second)
<1> DEFINE k == NewBlock(h, b, second)
           v == Now(w, {b}, {}, {})
           X == Heads(w)
<1>1. /\ WitnessType(w) /\ ChainsInv(h, X) /\ LagInv(h, w) /\ UnitsInv(h, w) /\ PlacesInv(h, w)
      /\ SizesInv(h, w) /\ FilledInv(h, w) /\ AboveInv(w) /\ TextInv(h, txt, w)
      /\ w.orphans = {} /\ w.holes = {} /\ w.raw = {}
  BY DEF DiscFiles, AtRest
<1>2. X = w.heads
  BY <1>1 DEF Heads
<1> HIDE DEF X
<1>3. /\ ChainsInv(k, X \union {b}) /\ b \notin X /\ Chain(k, b) = <<b>> /\ b \in Block
      /\ b >= FirstData
      /\ \A x \in X : Unmoved(h, k, x)
      /\ k.block = h.block /\ \A d \in Block : k.fat1[d] = FREE => h.fat1[d] = FREE
  <2>1. TookBlock(h, k, X, b)
    BY <1>1, TakenChains
  <2> QED
    BY <2>1 DEF TookBlock
<1>4. /\ WitnessType(v) /\ SameTree(w, v) /\ AboveInv(v)
      /\ v.orphans = {b} /\ v.holes = {} /\ v.raw = {}
  <2>1. {b} \in SUBSET Block /\ {b} \intersect w.heads = {}
    BY <1>2, <1>3
  <2> QED
    BY <1>1, <2>1, NowTyped
<1> HIDE DEF v
<1>5. /\ v.heads = w.heads /\ v.dirs = w.dirs /\ v.up = w.up /\ v.at = w.at /\ v.length = w.length
      /\ v.above = w.above /\ v.depth = w.depth
  BY <1>4 DEF SameTree
<1>6. Heads(v) = X \union {b}
  BY <1>2, <1>4, <1>5 DEF Heads
<1>7. Fewer(w, v)
  <2>1. w.dirs \subseteq w.heads /\ Root \in w.heads
    BY <1>1 DEF WitnessType
  <2>2. \A x \in w.heads : w.above[x] \subseteq w.heads
    BY <1>1, <2>1 DEF AboveInv
  <2> QED
    BY <1>1, <1>4, <1>5, <2>1, <2>2 DEF Fewer
<1>8. NewFats(h, k, b, second)
  BY <1>3, TakenFats
<1>9. h.fat1[b] = FREE
  BY DEF FreeBlocks
<1> HIDE DEF k
<1>10. LagInv(k, v)
  <2>1. ASSUME NEW c \in Block, k.fat1[c] # k.fat2[c]
        PROVE  k.fat1[c] = END /\ k.fat2[c] = FREE /\ c \in Heads(v) \ v.dirs
    <3>1. CASE c = b
      <4>1. k.fat1[b] = END /\ k.fat2[b] \in {END, h.fat2[b]}
        BY <1>8 DEF NewFats
      <4>2. h.fat2[b] = FREE
        BY <1>1, <1>3, <1>9, Sizes DEF LagInv
      <4>3. b \notin w.dirs
        BY <1>1, <1>2, <1>3 DEF WitnessType
      <4> QED
        BY <1>5, <1>6, <2>1, <3>1, <4>1, <4>2, <4>3
    <3>2. CASE c # b
      <4>1. k.fat1[c] = h.fat1[c] /\ k.fat2[c] = h.fat2[c]
        BY <1>8, <3>2 DEF NewFats
      <4>2. h.fat1[c] = END /\ h.fat2[c] = FREE /\ c \in Heads(w) \ w.dirs
        BY <1>1, <2>1, <4>1 DEF LagInv
      <4> QED
        BY <1>5, <1>6, <4>1, <4>2 DEF X
    <3> QED
      BY <3>1, <3>2
  <2> QED
    BY <2>1 DEF LagInv
<1>11. UnitsInv(k, v)
  <2>1. \A c \in Block : c >= FirstData /\ k.fat1[c] = FREE =>
           \/ h.fat1[c] = FREE /\ k.block[c] = h.block[c]
           \/ \A j \in Unit : ~Live(k.block[c][j])
    BY <1>3
  <2>2. \A p \in 0 .. Room(k, b) - 1 : ~Live(Cell(k, b, p))
    <3>1. Len(Chain(k, b)) = 1 /\ Chain(k, b)[1] = b
      BY <1>3
    <3>2. Room(k, b) = 1 * BLOCKSIZE
      BY <3>1 DEF Room
    <3>3. ASSUME NEW p \in 0 .. Room(k, b) - 1 PROVE ~Live(Cell(k, b, p))
      <4>1. 1 \in Nat /\ p \in 0 .. 1 * BLOCKSIZE - 1
        BY <3>2
      <4>2. p \div BLOCKSIZE + 1 \in 1 .. 1 /\ p % BLOCKSIZE \in Unit
        BY <4>1, RoomPlace
      <4>3. p \div BLOCKSIZE + 1 = 1
        BY <4>2
      <4>4. Cell(k, b, p) = h.block[b][p % BLOCKSIZE]
        BY <1>3, <3>1, <4>3 DEF Cell
      <4> QED
        BY <1>1, <1>3, <1>9, <4>2, <4>4 DEF UnitsInv
    <3> QED
      BY <3>3
  <2>3. \A x \in Heads(v) :
           \/ x \in Heads(w) /\ Unmoved(h, k, x)
           \/ \A p \in 0 .. Room(k, x) - 1 : ~Live(Cell(k, x, p))
    BY <1>3, <1>6, <2>2 DEF X
  <2>4. \A f, x : \A p \in Nat : AtPlace(w, f, x, p) => AtPlace(v, f, x, p) \/ <<x, p \div FCBSIZE>> \in v.holes
    BY <1>5 DEF AtPlace
  <2>5. ChainsInv(h, Heads(w)) /\ w.holes \subseteq v.holes
    BY <1>1 DEF X
  <2> QED
    BY <1>1, <2>1, <2>3, <2>4, <2>5, UnitsStay
<1>12. PlacesInv(k, v) /\ SizesInv(k, v) /\ FilledInv(k, v) /\ AboveInv(v)
  <2>1. \A x \in v.dirs : Unmoved(h, k, x)
    BY <1>1, <1>2, <1>3, <1>5 DEF WitnessType
  <2> QED
    BY <1>7, <2>1, TreeStays
<1>13. TextInv(k, new, v)
  <2>1. v.heads \subseteq w.heads /\ v.dirs = w.dirs \intersect v.heads
    BY <1>7 DEF Fewer
  <2>2. \A x \in v.heads \ v.dirs : Unmoved(h, k, x) /\ v.length[x] = w.length[x] /\ new[x] = txt[x]
    BY <1>2, <1>3, <1>5
  <2> QED
    BY <2>1, <2>2, TextStays
<1>14. DiscFiles(k, new, v)
  <2>1. ChainsInv(k, Heads(v))
    BY <1>3, <1>6
  <2> QED
    BY <1>4, <1>10, <1>11, <1>12, <1>13, <2>1 DEF DiscFiles
<1>15. second => k.fat1[b] = k.fat2[b]
  BY <1>8 DEF NewFats
<1> QED
  BY <1>2, <1>3, <1>7, <1>14, <1>15 DEF v, k, Taking

TakingState(s, t, cur, new, w, v, b, second) ==
  /\ Filed(t, cur, new, v) /\ t.open = s.open /\ t.hard = NewBlock(s.hard, b, second)
  /\ b \in Block /\ b >= FirstData /\ b \notin w.heads
  /\ second => t.hard.fat1[b] = t.hard.fat2[b]
  /\ \A x \in w.heads : Unmoved(s.hard, t.hard, x)

LEMMA FiledTaken ==
  ASSUME NEW s, NEW cur, NEW txt, NEW w, Filed(s, cur, txt, w), AtRest(w), NEW b \in FreeBlocks(s.hard),
         NEW second, NEW new \in [Block -> Seq(Character)],
         \A x \in w.heads : new[x] = txt[x]
  PROVE  TakingState(s, OnDisc(s, NewBlock(s.hard, b, second)), cur, new, w, Now(w, {b}, {}, {}), b, second)
<1> DEFINE h == s.hard
           k == NewBlock(h, b, second)
           v == Now(w, {b}, {}, {})
           t == OnDisc(s, k)
<1>1. /\ DiscInv(h) /\ TableInv(s.open, cur) /\ Sound(s, cur) /\ s.broken = "no"
      /\ DiscFiles(h, txt, w) /\ OpenInv(h, s.open, cur, w) /\ WitnessType(w)
  BY DEF Filed, Sound, FilesInv, DiscFiles
<1> HIDE DEF h
<1>2. b \in FreeBlocks(h)
  BY DEF h
<1>3. /\ DiscFiles(k, new, v)
      /\ Fewer(w, v)
      /\ \A x \in w.heads : Unmoved(h, k, x)
      /\ b \in Block /\ b >= FirstData /\ b \notin w.heads
      /\ second => k.fat1[b] = k.fat2[b]
  <2>1. Taking(h, k, new, w, v, b, second)
    BY <1>1, <1>2, DiscTaken
  <2> QED
    BY <2>1 DEF Taking
<1>4. Refatted(h, k)
  BY <1>1, <1>3, BlockTaken
<1> HIDE DEF k
<1>5. Sound(t, cur) /\ t.broken = "no" /\ t.open = s.open /\ t.hard = k
  BY <1>1, <1>4, OnDiscTo DEF h
<1>6. v.length = w.length /\ v.heads = w.heads /\ v.dirs = w.dirs
  BY NowFields
<1> HIDE DEF v, t
<1>7. OpenInv(k, s.open, cur, v)
  <2>1. \A x \in v.dirs : Unmoved(h, k, x)
    BY <1>1, <1>3, <1>6 DEF WitnessType
  <2>2. \A x \in Fd : s.open[x].topenfile => s.open[x].fcb.first \in v.heads
    BY <1>1, <1>6 DEF OpenInv, OpenHead
  <2> DEFINE o == s.open
  <2> HIDE DEF o
  <2>3. TableInv(o, cur) /\ OpenInv(h, o, cur, w) /\ \A x \in Fd : o[x].topenfile => o[x].fcb.first \in v.heads
    BY <1>1, <2>2 DEF o
  <2>4. OpenInv(k, o, cur, v)
    BY <1>1, <1>3, <1>6, <2>1, <2>3, OpenStays
  <2> QED
    BY <2>4 DEF o
<1>8. Filed(t, cur, new, v)
  BY <1>3, <1>5, <1>7 DEF Filed, FilesInv
<1> QED
  BY <1>3, <1>5, <1>8 DEF t, v, k, h, TakingState

-----------------------------------------------------------------------------
(* Something new.                                                          *)

\* The place of a new entry is nobody's.
LEMMA SlotIs ==
  ASSUME NEW s, NEW cur, NEW txt, NEW w, Filed(s, cur, txt, w), AtRest(w), s.open[cur].fcb.directory,
         NEW slot, slot = FreeSlot(Dir(s, cur)), NEW d, d = s.open[cur].fcb.first
  PROVE  /\ slot \in Nat /\ slot >= 2 /\ d \in w.dirs
         /\ \A g \in w.heads \ {Root} : ~(w.up[g] = d /\ w.at[g] = slot)
<1> DEFINE h == s.hard
           dir == Dir(s, cur)
<1>1. /\ TableInv(s.open, cur) /\ FilesInv(h, s.open, cur, txt, w) /\ DiscFiles(h, txt, w)
      /\ cur \in Fd /\ s.open[cur].topenfile /\ PlacesInv(h, w)
  BY DEF Filed, Sound, FilesInv, TableInv, DiscFiles
<1>2. PICK m \in Nat : /\ m >= 2 /\ s.open[cur].fcb.length = m * FCBSIZE
                       /\ dir = [i \in 0 .. m - 1 |-> Entry(h, d, i)]
  BY <1>1, DirEntries
<1>3. d \in w.dirs /\ w.length[d] = m * FCBSIZE /\ Filed(s, cur, txt, w) /\ Filled(h, d)
  <2>1. d \in w.heads /\ w.length[d] = s.open[cur].fcb.length /\ (s.open[cur].fcb.directory <=> d \in w.dirs)
        /\ (d \in w.dirs \ w.raw => Filled(h, d))
    BY <1>1, OpenIsDir
  <2> QED
    BY <1>2, <2>1 DEF AtRest
<1> HIDE DEF h, dir
<1>4. DOMAIN dir = 0 .. m - 1 /\ \A i \in 0 .. m - 1 : dir[i] = Entry(h, d, i)
  BY <1>2
<1>5. Cardinality(DOMAIN dir) = m
  <2>1. Cardinality(0 .. m - 1) = IF 0 > m - 1 THEN 0 ELSE (m - 1) - 0 + 1
    BY <1>2, FS_Interval
  <2>2. Cardinality(0 .. m - 1) = m
    BY <1>2, <2>1
  <2> QED
    BY <1>4, <2>2
<1> DEFINE S == {i \in DOMAIN dir : dir[i].free = 0} \union {Cardinality(DOMAIN dir)}
<1>6. S \subseteq Nat /\ S # {}
  BY <1>2, <1>4, <1>5
<1>7. slot = Min(S)
  BY DEF FreeSlot, dir
<1>8. slot \in S
  <2> HIDE DEF S
  <2> QED
    BY <1>6, <1>7, MinFound
<1>9. slot \in Nat /\ (slot = m \/ (slot \in 0 .. m - 1 /\ Entry(h, d, slot).free = 0))
  BY <1>4, <1>5, <1>6, <1>8
<1> HIDE DEF S
<1>10. slot # 0 /\ slot # 1
  BY <1>2, <1>3, <1>9 DEF Filled
<1>11. ASSUME NEW g \in w.heads \ {Root}, w.up[g] = d, w.at[g] = slot PROVE FALSE
  <2>1. /\ w.at[g] >= 2 /\ (w.at[g] + 1) * FCBSIZE <= w.length[w.up[g]]
        /\ EntryIs(Entry(h, w.up[g], w.at[g]), g, g \in w.dirs)
    BY <1>1 DEF PlacesInv
  <2>2. Entry(h, d, slot).free = 1
    BY <1>11, <2>1 DEF EntryIs
  <2>3. slot = m
    BY <1>9, <2>2
  <2>4. (m + 1) * FCBSIZE <= m * FCBSIZE
    BY <1>3, <1>11, <2>1, <2>3
  <2>5. FCBSIZE \in Nat /\ FCBSIZE > 0
    BY Sizes
  <2>6. (m + 1) * FCBSIZE = m * FCBSIZE + FCBSIZE /\ m * FCBSIZE \in Nat
    BY <1>2, <2>5, Times
  <2> QED
    BY <2>4, <2>5, <2>6
<1> QED
  BY <1>3, <1>9, <1>10, <1>11

Deepens(w, d) ==
  /\ w.depth[d] \in Nat /\ w.depth[d] + 1 <= MAXOPENFILE
  /\ Cardinality(w.above[d] \union {d}) = w.depth[d] + 1

\* A file made in the current directory is not too deep.
LEMMA DepthBound ==
  ASSUME NEW h, NEW o, NEW cur, NEW txt, NEW w, TableInv(o, cur), FilesInv(h, o, cur, txt, w),
         NEW d, d = o[cur].fcb.first
  PROVE  Deepens(w, d)
<1>1. /\ cur \in Fd /\ o[cur].topenfile /\ OpenInv(h, o, cur, w) /\ AboveInv(w) /\ WitnessType(w)
  BY DEF FilesInv, DiscFiles, TableInv
<1>2. d \in w.heads /\ d \in Block
  BY <1>1 DEF OpenInv, OpenHead, WitnessType
<1>3. w.depth[d] \in Nat /\ w.depth[d] = Cardinality(w.above[d]) /\ w.above[d] = OpenAbove(o, cur)
      /\ d \notin w.above[d]
  <2>1. w.depth[d] \in Nat
    BY <1>1, <1>2 DEF WitnessType
  <2>2. d \in w.above[d] => w.depth[d] < w.depth[d]
    BY <1>1, <1>2 DEF AboveInv
  <2>3. w.depth[d] = Cardinality(w.above[d]) /\ w.above[d] = OpenAbove(o, cur)
    BY <1>1, <1>2 DEF AboveInv, OpenInv
  <2> QED
    BY <2>1, <2>2, <2>3
<1>4. MAXOPENFILE \in Nat /\ MAXOPENFILE > 0
  BY Sizes
<1>5. IsFiniteSet(Fd \ {cur}) /\ Cardinality(Fd \ {cur}) = MAXOPENFILE - 1
  <2>1. IsFiniteSet(0 .. MAXOPENFILE - 1)
        /\ Cardinality(0 .. MAXOPENFILE - 1) = IF 0 > MAXOPENFILE - 1 THEN 0 ELSE (MAXOPENFILE - 1) - 0 + 1
    BY <1>4, FS_Interval
  <2>2. IsFiniteSet(Fd) /\ Cardinality(Fd) = MAXOPENFILE
    BY <1>4, <2>1 DEF Fd
  <2> QED
    BY <1>1, <2>2, FS_RemoveElement
<1> DEFINE S == {x \in Fd : o[x].topenfile /\ x # cur}
           T == OpenAbove(o, cur)
           f == [x \in S |-> o[x].fcb.first]
<1>6. S \in SUBSET (Fd \ {cur})
  OBVIOUS
<1>7. T = {o[x].fcb.first : x \in S}
  BY DEF OpenAbove
<1> HIDE DEF S, T
<1>8. IsFiniteSet(S) /\ Cardinality(S) <= MAXOPENFILE - 1 /\ Cardinality(S) \in Nat
  BY <1>5, <1>6, FS_Subset, FS_CardinalityType
<1>9. f \in Surjection(S, T)
  BY <1>7 DEF Surjection
<1> HIDE DEF f
<1>10. IsFiniteSet(T) /\ Cardinality(T) <= Cardinality(S)
  BY <1>8, <1>9, FS_Surjection
<1>11. Cardinality(T \union {d}) = Cardinality(T) + 1
  BY <1>3, <1>10, FS_AddElement, ZenonT(40) DEF T
<1> QED
  BY <1>3, <1>4, <1>8, <1>10, <1>11 DEF T, Deepens

\* The tree with a new file or directory b in directory d.
Made(w, d, b, isdir, slot, length) ==
  [heads |-> w.heads \union {b}, dirs |-> IF isdir THEN w.dirs \union {b} ELSE w.dirs,
   up |-> [w.up EXCEPT ![b] = d], at |-> [w.at EXCEPT ![b] = slot],
   length |-> [w.length EXCEPT ![d] = NewLength(@, (slot + 1) * FCBSIZE), ![b] = length],
   above |-> [w.above EXCEPT ![b] = w.above[d] \union {d}],
   depth |-> [w.depth EXCEPT ![b] = w.depth[d] + 1],
   orphans |-> {}, holes |-> {}, raw |-> IF isdir THEN {b} ELSE {}]

MadeIs(w, v, d, b, isdir, slot, length) ==
  /\ v.heads = w.heads \union {b} /\ v.dirs = (IF isdir THEN w.dirs \union {b} ELSE w.dirs)
  /\ v.up \in [Block -> Block] /\ v.at \in [Block -> Nat] /\ v.length \in [Block -> Nat]
  /\ v.above \in [Block -> SUBSET Block] /\ v.depth \in [Block -> Nat]
  /\ v.up[b] = d /\ v.at[b] = slot /\ v.length[b] = length /\ v.above[b] = w.above[d] \union {d}
  /\ v.depth[b] = w.depth[d] + 1
  /\ v.length[d] = NewLength(w.length[d], (slot + 1) * FCBSIZE)
  /\ \A g \in w.heads : /\ v.up[g] = w.up[g] /\ v.at[g] = w.at[g] /\ v.above[g] = w.above[g]
                        /\ v.depth[g] = w.depth[g] /\ (g # d => v.length[g] = w.length[g])
  /\ v.orphans = {} /\ v.holes = {} /\ v.raw = IF isdir THEN {b} ELSE {}

LEMMA MadeFields ==
  ASSUME NEW w, WitnessType(w), NEW d \in w.dirs, NEW b \in Block, b \notin w.heads, NEW isdir,
         NEW slot \in Nat, NEW length \in Nat
  PROVE  MadeIs(w, Made(w, d, b, isdir, slot, length), d, b, isdir, slot, length)
<1> DEFINE v == Made(w, d, b, isdir, slot, length)
           n == NewLength(w.length[d], (slot + 1) * FCBSIZE)
<1>1. /\ w.heads \subseteq Block /\ w.dirs \subseteq w.heads /\ d \in Block /\ d # b /\ d \in w.heads
      /\ w.up \in [Block -> Block] /\ w.at \in [Block -> Nat] /\ w.length \in [Block -> Nat]
      /\ w.above \in [Block -> SUBSET Block] /\ w.depth \in [Block -> Nat]
  BY DEF WitnessType
<1>2. n \in Nat
  <2>1. slot + 1 \in Nat /\ FCBSIZE \in Nat
    BY Sizes
  <2>2. (slot + 1) * FCBSIZE \in Nat /\ w.length[d] \in Nat
    BY <1>1, <2>1, Times
  <2>3. n = IF w.length[d] > (slot + 1) * FCBSIZE THEN w.length[d] ELSE (slot + 1) * FCBSIZE
    BY <2>2, Max2 DEF NewLength
  <2> QED
    BY <2>2, <2>3
<1>3. /\ v.heads = w.heads \union {b} /\ v.dirs = (IF isdir THEN w.dirs \union {b} ELSE w.dirs)
      /\ v.up = [w.up EXCEPT ![b] = d] /\ v.at = [w.at EXCEPT ![b] = slot]
      /\ v.length = [w.length EXCEPT ![d] = n, ![b] = length]
      /\ v.above = [w.above EXCEPT ![b] = w.above[d] \union {d}]
      /\ v.depth = [w.depth EXCEPT ![b] = w.depth[d] + 1]
      /\ v.orphans = {} /\ v.holes = {} /\ v.raw = (IF isdir THEN {b} ELSE {})
  BY DEF Made
<1> HIDE DEF v, n
<1>4. /\ v.up \in [Block -> Block] /\ v.at \in [Block -> Nat] /\ v.length \in [Block -> Nat]
      /\ v.above \in [Block -> SUBSET Block] /\ v.depth \in [Block -> Nat]
  BY <1>1, <1>2, <1>3
<1>5. /\ v.up[b] = d /\ v.at[b] = slot /\ v.length[b] = length /\ v.above[b] = w.above[d] \union {d}
      /\ v.depth[b] = w.depth[d] + 1
      /\ v.length[d] = n
  BY <1>1, <1>3
<1>6. \A g \in w.heads : /\ v.up[g] = w.up[g] /\ v.at[g] = w.at[g] /\ v.above[g] = w.above[g]
                         /\ v.depth[g] = w.depth[g] /\ (g # d => v.length[g] = w.length[g])
  BY <1>1, <1>3
<1> QED
  BY <1>3, <1>4, <1>5, <1>6 DEF MadeIs, v, n

LEMMA MadeTree ==
  ASSUME NEW w, WitnessType(w), AboveInv(w), NEW v, NEW d \in w.dirs, NEW b \in Block, b \notin w.heads,
         b # Root, NEW isdir \in BOOLEAN, NEW slot \in Nat, NEW length \in Nat,
         MadeIs(w, v, d, b, isdir, slot, length),
         w.depth[d] + 1 <= MAXOPENFILE, Cardinality(w.above[d] \union {d}) = w.depth[d] + 1
  PROVE  WitnessType(v) /\ AboveInv(v)
<1>1. /\ w.heads \subseteq Block /\ w.dirs \subseteq w.heads /\ Root \in w.dirs /\ d \in Block /\ d # b
      /\ d \in w.heads /\ w.depth[d] \in Nat
  BY DEF WitnessType
<1>2. /\ v.heads = w.heads \union {b} /\ v.dirs = (IF isdir THEN w.dirs \union {b} ELSE w.dirs)
      /\ v.up \in [Block -> Block] /\ v.at \in [Block -> Nat] /\ v.length \in [Block -> Nat]
      /\ v.above \in [Block -> SUBSET Block] /\ v.depth \in [Block -> Nat]
      /\ v.up[b] = d /\ v.above[b] = w.above[d] \union {d} /\ v.depth[b] = w.depth[d] + 1
      /\ \A g \in w.heads : /\ v.up[g] = w.up[g] /\ v.at[g] = w.at[g] /\ v.above[g] = w.above[g]
                            /\ v.depth[g] = w.depth[g]
      /\ v.orphans = {}
  BY DEF MadeIs
<1>3. w.dirs \subseteq v.dirs /\ v.dirs \subseteq v.heads
  BY <1>1, <1>2
<1>4. WitnessType(v)
  BY <1>1, <1>2, <1>3 DEF WitnessType
<1>5. \A g \in w.heads \ {Root} : w.up[g] \in w.heads
  <2>1. \A g \in w.heads \ {Root} : w.up[g] \in w.above[g]
    BY DEF AboveInv
  <2> QED
    BY <1>1, <2>1 DEF AboveInv
<1>6. ASSUME NEW g \in v.heads \ {Root}
      PROVE  v.above[g] = v.above[v.up[g]] \union {v.up[g]} /\ v.depth[g] <= MAXOPENFILE
  <2>1. CASE g = b
    BY <1>1, <1>2, <2>1
  <2>2. CASE g # b
    <3>1. g \in w.heads \ {Root}
      BY <1>2, <2>2
    <3>2. w.above[g] = w.above[w.up[g]] \union {w.up[g]} /\ w.depth[g] <= MAXOPENFILE
      BY <3>1 DEF AboveInv
    <3> QED
      BY <1>2, <1>5, <3>1, <3>2
  <2> QED
    BY <2>1, <2>2
<1>7. v.above[Root] = {}
  BY <1>1, <1>2 DEF AboveInv
<1>8. ASSUME NEW g \in v.heads PROVE v.depth[g] = Cardinality(v.above[g])
  <2>1. CASE g = b
    BY <1>2, <2>1
  <2>2. CASE g # b
    <3>1. g \in w.heads
      BY <1>2, <2>2
    <3>2. w.depth[g] = Cardinality(w.above[g])
      BY <3>1 DEF AboveInv
    <3> QED
      BY <1>2, <3>1, <3>2
  <2> QED
    BY <2>1, <2>2
<1>9. ASSUME NEW g \in w.heads, NEW a \in w.above[g]
      PROVE  /\ a \in v.dirs /\ v.depth[a] = w.depth[a] /\ w.depth[a] < w.depth[g] /\ w.depth[a] \in Nat
             /\ w.depth[g] \in Nat
             /\ \E c \in v.heads \ {Root} : v.up[c] = a /\ (c = g \/ c \in w.above[g])
  <2>1. a \in w.dirs /\ w.depth[a] < w.depth[g]
    BY DEF AboveInv
  <2>2. PICK c \in w.heads \ {Root} : w.up[c] = a /\ (c = g \/ c \in w.above[g])
    BY DEF AboveInv
  <2>3. w.depth[a] \in Nat /\ w.depth[g] \in Nat
    BY <1>1, <2>1 DEF WitnessType
  <2>4. v.up[c] = a /\ c \in v.heads \ {Root}
    BY <1>2, <2>2
  <2> QED
    BY <1>1, <1>2, <1>3, <2>1, <2>2, <2>3, <2>4
<1>10. ASSUME NEW g \in v.heads, NEW a \in v.above[g]
       PROVE  /\ a \in v.dirs /\ v.depth[a] < v.depth[g]
              /\ \E c \in v.heads \ {Root} : v.up[c] = a /\ (c = g \/ c \in v.above[g])
  <2>1. CASE g # b
    <3>1. g \in w.heads /\ a \in w.above[g]
      BY <1>2, <2>1
    <3>2. v.above[g] = w.above[g] /\ v.depth[g] = w.depth[g]
      BY <1>2, <3>1
    <3> QED
      BY <1>9, <3>1, <3>2
  <2>2. CASE g = b /\ a = d
    <3>1. a \in v.dirs /\ v.depth[a] < v.depth[g]
      BY <1>1, <1>2, <1>3, <2>2
    <3>2. b \in v.heads \ {Root} /\ v.up[b] = a
      BY <1>2, <2>2
    <3> QED
      BY <2>2, <3>1, <3>2
  <2>3. CASE g = b /\ a # d
    <3>1. a \in w.above[d]
      BY <1>2, <2>3
    <3>2. /\ a \in v.dirs /\ v.depth[a] = w.depth[a] /\ w.depth[a] < w.depth[d] /\ w.depth[a] \in Nat
          /\ \E c \in v.heads \ {Root} : v.up[c] = a /\ (c = d \/ c \in w.above[d])
      BY <1>1, <1>9, <3>1
    <3>3. PICK c \in v.heads \ {Root} : v.up[c] = a /\ (c = d \/ c \in w.above[d])
      BY <3>2
    <3>4. c \in v.above[b]
      BY <1>2, <3>3
    <3>5. v.depth[a] < v.depth[g]
      BY <1>1, <1>2, <2>3, <3>2
    <3> QED
      BY <2>3, <3>2, <3>3, <3>4, <3>5
  <2> QED
    BY <2>1, <2>2, <2>3
<1>11. AboveInv(v)
  BY <1>6, <1>7, <1>8, <1>10 DEF AboveInv
<1> QED
  BY <1>4, <1>11

\* A new entry, with its block.
NewAt(t, w, v, d, b, name, isdir) ==
  /\ b \in v.heads \ ({Root} \union w.heads) /\ v.up[b] = d /\ NameOf(t.hard, v, b) = name
  /\ v.heads = w.heads \union {b} /\ v.dirs = (IF isdir THEN w.dirs \union {b} ELSE w.dirs)
  /\ v.orphans = {} /\ v.holes = {} /\ v.raw = (IF isdir THEN {b} ELSE {})
  /\ \A g \in w.heads : v.up[g] = w.up[g] /\ v.at[g] = w.at[g]

\* What was there is there, but for the lengths.
OldThere(s, t, w) ==
  \A g \in w.heads \ {Root} :
    SameButLength(Entry(t.hard, w.up[g], w.at[g]), Entry(s.hard, w.up[g], w.at[g]))

NewFcb(fcb, name, isdir, b) ==
  fcb = Fcb(name, isdir, b, IF isdir THEN 2 * FCBSIZE ELSE 0) /\ FcbOk(fcb)

\* The disc with a new entry in the current directory.
NewPut(s, cur, isdir, b, fcb) ==
  WriteFcb(OnDisc(s, NewBlock(s.hard, b, isdir)), cur, FreeSlot(Dir(s, cur)), fcb)

Texted(txt, new, w, b, isdir) ==
  /\ new \in [Block -> Seq(Character)] /\ \A x \in w.heads : new[x] = txt[x]
  /\ ~isdir => new[b] = <<>>

AddedTo(s, t, cur, new, w, v, b, name, isdir) ==
  Filed(t, cur, new, v) /\ NewAt(t, w, v, s.open[cur].fcb.first, b, name, isdir) /\ OldThere(s, t, w)

Added(s, t, cur, new, w, b, name, isdir) == \E v : AddedTo(s, t, cur, new, w, v, b, name, isdir)

LEMMA FiledNew ==
  ASSUME NEW s, NEW cur, NEW txt, NEW w, Filed(s, cur, txt, w), AtRest(w), s.open[cur].fcb.directory,
         NEW b \in FreeBlocks(s.hard), NEW name \in Given, NEW isdir \in BOOLEAN,
         NEW new, Texted(txt, new, w, b, isdir), NEW fcb, NewFcb(fcb, name, isdir, b),
         NEW t, t = NewPut(s, cur, isdir, b, fcb), t.broken = "no"
  PROVE  Added(s, t, cur, new, w, b, name, isdir)
<1> DEFINE slot == FreeSlot(Dir(s, cur))
           d == s.open[cur].fcb.first
<1>0. /\ new \in [Block -> Seq(Character)] /\ \A x \in w.heads : new[x] = txt[x]
      /\ ~isdir => new[b] = <<>>
      /\ FcbOk(fcb) /\ slot = FreeSlot(Dir(s, cur)) /\ d = s.open[cur].fcb.first
      /\ t = WriteFcb(OnDisc(s, NewBlock(s.hard, b, isdir)), cur, slot, fcb)
  BY DEF Texted, NewFcb, NewPut
<1>00. fcb = Fcb(name, isdir, b, IF isdir THEN 2 * FCBSIZE ELSE 0)
  BY DEF NewFcb
<1> HIDE DEF slot, d
<1> DEFINE u == OnDisc(s, NewBlock(s.hard, b, isdir))
           w1 == Now(w, {b}, {}, {})
           len == IF isdir THEN 2 * FCBSIZE ELSE 0
           v == Made(w, d, b, isdir, slot, len)
<1>1. /\ TableInv(s.open, cur) /\ FilesInv(s.hard, s.open, cur, txt, w) /\ cur \in Fd /\ s.open[cur].topenfile
      /\ WitnessType(w) /\ AboveInv(w) /\ Root \in w.dirs /\ w.dirs \subseteq w.heads /\ s.broken = "no"
  BY DEF Filed, Sound, FilesInv, TableInv, DiscFiles, WitnessType
<1>2. /\ slot \in Nat /\ slot >= 2 /\ d \in w.dirs
      /\ \A g \in w.heads \ {Root} : ~(w.up[g] = d /\ w.at[g] = slot)
  BY <1>0, SlotIs
<1>3. /\ Filed(u, cur, new, w1) /\ u.open = s.open
      /\ u.hard = NewBlock(s.hard, b, isdir)
      /\ b \in Block /\ b >= FirstData /\ b \notin w.heads
      /\ isdir => u.hard.fat1[b] = u.hard.fat2[b]
      /\ \A x \in w.heads : Unmoved(s.hard, u.hard, x)
  <2>1. TakingState(s, u, cur, new, w, w1, b, isdir)
    BY <1>0, FiledTaken
  <2> QED
    BY <2>1 DEF TakingState
<1>4. w1.heads = w.heads /\ w1.dirs = w.dirs /\ w1.up = w.up /\ w1.at = w.at /\ w1.length = w.length
      /\ w1.above = w.above /\ w1.orphans = {b} /\ w1.holes = {} /\ w1.raw = {}
  BY NowFields
<1>5. len \in Nat /\ Root # b
  BY <1>3, Sizes
<1>6. MadeIs(w, v, d, b, isdir, slot, len)
  <2> HIDE DEF len
  <2> QED
    BY <1>1, <1>2, <1>3, <1>5, MadeFields
<1> HIDE DEF v, w1, u
<1>7. WitnessType(v) /\ AboveInv(v)
  <2>1. w.depth[d] + 1 <= MAXOPENFILE /\ Cardinality(w.above[d] \union {d}) = w.depth[d] + 1
    <3> DEFINE h == s.hard
               o == s.open
    <3>1. TableInv(o, cur) /\ FilesInv(h, o, cur, txt, w) /\ d = o[cur].fcb.first
      BY <1>0, <1>1
    <3> HIDE DEF h, o
    <3>2. Deepens(w, d)
      BY <3>1, DepthBound
    <3> QED
      BY <3>2 DEF Deepens
  <2> HIDE DEF len
  <2> QED
    BY <1>1, <1>2, <1>3, <1>5, <1>6, <2>1, MadeTree
<1>8. FcbWith(fcb, name, isdir, b, len) /\ fcb.exname = (IF isdir THEN "" ELSE "x")
  <2>1. fcb.exname = (IF isdir THEN "" ELSE "x")
    BY <1>00 DEF Fcb
  <2> HIDE DEF len
  <2>2. FcbWith(Fcb(name, isdir, b, len), name, isdir, b, len)
    BY <1>3, <1>5, FcbMade
  <2> QED
    BY <1>00, <2>1, <2>2 DEF len
<1>9. /\ v.heads = w.heads \union {b} /\ v.dirs = (IF isdir THEN w.dirs \union {b} ELSE w.dirs)
      /\ v.up[b] = d /\ v.at[b] = slot /\ v.length[b] = len
      /\ v.length[d] = NewLength(w.length[d], (slot + 1) * FCBSIZE)
      /\ \A g \in w.heads : /\ v.up[g] = w.up[g] /\ v.at[g] = w.at[g] /\ v.above[g] = w.above[g]
                            /\ (g # d => v.length[g] = w.length[g])
      /\ v.orphans = {} /\ v.holes = {} /\ v.raw = (IF isdir THEN {b} ELSE {})
  BY <1>6 DEF MadeIs
<1>10. Grows(w1, v, d, slot)
  <2>1. Heads(v) = Heads(w1)
    BY <1>4, <1>9 DEF Heads
  <2>2. w.heads \subseteq v.heads /\ w.dirs \subseteq v.dirs /\ \A g \in w.heads : g \in v.dirs => g \in w.dirs
    BY <1>3, <1>9
  <2> QED
    BY <1>2, <1>4, <1>9, <2>1, <2>2 DEF Grows
<1>11. fcb.filename = name /\ fcb.first = b /\ fcb.free = 1 /\ fcb.length = len /\ fcb.directory = isdir
  BY <1>8 DEF FcbWith
<1>12. OldEntry(u.hard, w1, d, slot, fcb)
  BY <1>2, <1>4, <1>11 DEF OldEntry
<1>13. (b \in v.dirs) = isdir
  <2>1. b \notin w.dirs
    BY <1>1, <1>3
  <2> QED
    BY <1>9, <2>1
<1>14. EntryIs(fcb, b, b \in v.dirs)
  <2>1. EntryIs(fcb, b, isdir)
    BY <1>8, <1>11 DEF EntryIs
  <2> QED
    BY <1>13, <2>1
<1>15. NewHead(u.hard, w1, v, d, slot, fcb, new)
  <2>1. v.heads \ w1.heads = {b}
    BY <1>3, <1>4, <1>9
  <2>2. IF b \in v.dirs THEN b \in v.raw /\ v.length[b] = 2 * FCBSIZE /\ u.hard.fat1[b] = u.hard.fat2[b]
        ELSE v.length[b] = 0 /\ new[b] = <<>>
    BY <1>0, <1>3, <1>9, <1>13
  <2>3. fcb.first \in v.heads \ {Root} /\ v.up[fcb.first] = d /\ v.at[fcb.first] = slot
    BY <1>5, <1>9, <1>11
  <2> QED
    BY <1>2, <1>9, <1>11, <1>14, <2>1, <2>2, <2>3 DEF NewHead
<1>16. t = WriteFcb(u, cur, slot, fcb) /\ d = u.open[cur].fcb.first /\ u.open[cur].topenfile /\ u.broken = "no"
       /\ Sound(u, cur)
  BY <1>0, <1>1, <1>3 DEF u, Filed
<1>17. Sound(t, cur)
  <2>1. cur = 0 => slot >= 2
    BY <1>2
  <2>2. Sound(WriteFcb(u, cur, slot, fcb), cur)
    BY <1>0, <1>1, <1>2, <1>16, <2>1, WriteFcbTo
  <2> QED
    BY <1>16, <2>2
<1>18. Filed(t, cur, new, v)
  BY <1>1, <1>2, <1>3, <1>7, <1>10, <1>12, <1>15, <1>16, <1>17, <1>0, FiledPut
<1>19. Entering(u.hard, t.hard, w1, v, d, slot, fcb, new)
  BY <1>1, <1>2, <1>3, <1>7, <1>10, <1>12, <1>15, <1>16, <1>17, <1>0, FiledEntering, ZenonT(40)
<1>20. Entry(t.hard, d, slot) = fcb
  <2>1. DiscFiles(u.hard, new, w1)
    BY <1>3 DEF Filed, FilesInv
  <2> QED
    BY <1>19, <2>1, EntriesAfter
<1>21. NewAt(t, w, v, d, b, name, isdir)
  <2>1. NameOf(t.hard, v, b) = name
    BY <1>9, <1>11, <1>20 DEF NameOf
  <2> QED
    BY <1>3, <1>5, <1>9, <2>1 DEF NewAt
<1>22. OldThere(s, t, w)
  <2> DEFINE h == u.hard
             k == t.hard
             h0 == s.hard
  <2>1. DiscFiles(h, new, w1) /\ DiscFiles(h0, txt, w) /\ Entering(h, k, w1, v, d, slot, fcb, new)
    BY <1>1, <1>3, <1>19 DEF Filed, FilesInv
  <2>2. \A x \in w.heads : Unmoved(h0, h, x)
    BY <1>3
  <2> HIDE DEF h, k, h0
  <2>3. \A g \in w1.heads \ {Root} : SameButLength(Entry(k, w1.up[g], w1.at[g]), Entry(h, w1.up[g], w1.at[g]))
    BY <2>1, EntriesAfter
  <2>4. ASSUME NEW g \in w.heads \ {Root}
        PROVE  Entry(h, w.up[g], w.at[g]) = Entry(h0, w.up[g], w.at[g])
    <3>1. /\ w.up[g] \in w.dirs /\ w.at[g] \in Nat /\ (w.at[g] + 1) * FCBSIZE <= Room(h0, w.up[g])
      BY <2>1, HeadFacts DEF DiscFiles
    <3>2. OneChain(h0, w.up[g]) /\ Unmoved(h0, h, w.up[g])
      <4>1. w.up[g] \in w.heads /\ w.up[g] \in Heads(w)
        BY <1>1, <3>1 DEF Heads
      <4> QED
        BY <2>1, <2>2, <4>1, HeadFacts DEF DiscFiles
    <3> QED
      BY <3>1, <3>2, UnmovedEntries
  <2>5. \A g \in w.heads \ {Root} : SameButLength(Entry(k, w.up[g], w.at[g]), Entry(h0, w.up[g], w.at[g]))
    BY <1>4, <2>3, <2>4
  <2> QED
    BY <2>5 DEF OldThere, k, h0
<1>23. AddedTo(s, t, cur, new, w, v, b, name, isdir)
  BY <1>0, <1>18, <1>21, <1>22 DEF AddedTo
<1> QED
  BY <1>23 DEF Added

-----------------------------------------------------------------------------
(* my_mkdir() fills the new directory.                                     *)

\* There is a witness with nothing pending: what holds between two commands.
AtEase(s, cur, txt) == \E w : Filed(s, cur, txt, w) /\ AtRest(w)

DotOk(dot, cur) ==
  /\ FcbOk(dot) /\ dot.free = 1 /\ dot.filename \notin Given
  /\ cur = 0 => IsDot(<<"fcb", dot, 1>>)

\* What stands first in a directory is no entry of the user's.
LEMMA DotFound ==
  ASSUME NEW s, NEW cur, NEW txt, NEW w, Filed(s, cur, txt, w), AtRest(w), s.open[cur].fcb.directory
  PROVE  DotOk(Dir(s, cur)[0], cur)
<1> DEFINE h == s.hard
           o == s.open
           d == o[cur].fcb.first
           dot == Dir(s, cur)[0]
<1>1. /\ TableInv(o, cur) /\ FilesInv(h, o, cur, txt, w) /\ cur \in Fd /\ o[cur].topenfile
      /\ DiscFiles(h, txt, w) /\ Sound(s, cur) /\ s.broken = "no"
  BY DEF Filed, Sound, FilesInv, TableInv
<1>2. PICK m \in Nat :
           /\ m >= 2 /\ o[cur].fcb.length = m * FCBSIZE
           /\ Dir(s, cur) = [j \in 0 .. m - 1 |-> Entry(h, d, j)]
  BY <1>1, DirEntries
<1>3. dot = Entry(h, d, 0)
  BY <1>2
<1>4. d \in w.dirs /\ Filed(s, cur, txt, w) /\ (d \in w.dirs \ w.raw => Filled(h, d))
  BY <1>1, OpenIsDir
<1>5. dot.free = 1
  BY <1>3, <1>4 DEF AtRest, Filled
<1>6. FcbOk(dot) /\ (cur = 0 => IsDot(<<"fcb", dot, 1>>))
  <2>1. Listed(Dir(s, cur), o[cur].fcb.length) /\ (cur = 0 => RootDir(Dir(s, cur)))
    BY <1>1, DirFound
  <2>2. FcbOk(dot)
    <3>1. PICK n \in Nat : n >= 2 /\ \A i \in 0 .. n - 1 : FcbOk(Dir(s, cur)[i])
      BY <2>1 DEF Listed
    <3> QED
      BY <3>1
  <2> QED
    BY <2>1, <2>2 DEF RootDir
<1>7. dot.filename \notin Given
  <2> SUFFICES ASSUME dot.filename \in Given PROVE FALSE
    OBVIOUS
  <2> DEFINE g == Entry(h, d, 0).first
  <2>1. (0 + 1) * FCBSIZE <= Room(h, d)
    BY <1>1, <1>4, HeadFacts DEF DiscFiles
  <2>2. Entry(h, d, 0).filename \in Given /\ w.holes = {}
    BY <1>3 DEF AtRest
  <2>3. g \in w.heads \ {Root} /\ w.up[g] = d /\ w.at[g] = 0
    <3> HIDE DEF h, d
    <3> QED
      BY <1>1, <1>4, <2>1, <2>2, NamedEntry
  <2> HIDE DEF g
  <2>4. w.at[g] >= 2
    BY <1>1, <2>3, HeadFacts DEF DiscFiles
  <2> QED
    BY <2>3, <2>4
<1> QED
  BY <1>5, <1>6, <1>7 DEF DotOk

LEMMA PlaceInDir ==
  ASSUME NEW a \in Nat, NEW m \in Nat, (a + 1) * FCBSIZE <= m * FCBSIZE
  PROVE  a \in 0 .. m - 1
<1>1. FCBSIZE \in Nat /\ FCBSIZE > 0
  BY Sizes
<1>2. CASE a < m
  BY <1>2
<1>3. CASE ~(a < m)
  <2>1. m + 1 <= a + 1 /\ m + 1 \in Nat /\ a + 1 \in Nat
    BY <1>3
  <2>2. (m + 1) * FCBSIZE <= (a + 1) * FCBSIZE /\ (m + 1) * FCBSIZE \in Nat /\ (a + 1) * FCBSIZE \in Nat
    BY <1>1, <2>1, Times
  <2>3. (m + 1) * FCBSIZE = m * FCBSIZE + FCBSIZE /\ m * FCBSIZE \in Nat
    BY <1>1, Times
  <2> QED
    BY <1>1, <2>2, <2>3
<1> QED
  BY <1>2, <1>3

\* The entries of the open directory cur, which is d.
DirWith(s, cur, w, d) ==
  /\ d \in w.dirs /\ s.open[cur].fcb.first = d /\ w.length[d] = s.open[cur].fcb.length
  /\ d \in w.dirs \ w.raw => Filled(s.hard, d)
  /\ \E m \in Nat :
       /\ m >= 2 /\ w.length[d] = m * FCBSIZE
       /\ Dir(s, cur) = [j \in 0 .. m - 1 |-> Entry(s.hard, d, j)]
       /\ \A i \in 0 .. m - 1 : i \in Nat /\ (i + 1) * FCBSIZE <= Room(s.hard, d)
       /\ \A i \in Nat : (i + 1) * FCBSIZE <= w.length[d] => i \in 0 .. m - 1

LEMMA DirKnown ==
  ASSUME NEW s, NEW cur, NEW txt, NEW w, Filed(s, cur, txt, w), s.open[cur].fcb.directory,
         NEW d, d = s.open[cur].fcb.first
  PROVE  DirWith(s, cur, w, d)
<1> DEFINE h == s.hard
           o == s.open
           g == o[cur].fcb.first
<1>1. /\ TableInv(o, cur) /\ FilesInv(h, o, cur, txt, w) /\ cur \in Fd /\ o[cur].topenfile
      /\ DiscFiles(h, txt, w)
  BY DEF Filed, Sound, FilesInv, TableInv
<1>2. PICK m \in Nat :
           /\ m >= 2 /\ o[cur].fcb.length = m * FCBSIZE
           /\ Dir(s, cur) = [j \in 0 .. m - 1 |-> Entry(h, g, j)]
  BY <1>1, DirEntries
<1>3. g \in w.dirs /\ w.length[g] = o[cur].fcb.length /\ (g \in w.dirs \ w.raw => Filled(h, g))
  BY <1>1, OpenIsDir
<1>4. ASSUME NEW i \in 0 .. m - 1 PROVE i \in Nat /\ (i + 1) * FCBSIZE <= Room(h, g)
  <2> HIDE DEF h, g
  <2>1. i \in Nat /\ i + 1 \in Nat /\ i + 1 <= m /\ FCBSIZE \in Nat
    BY Sizes
  <2>2. (i + 1) * FCBSIZE <= m * FCBSIZE /\ (i + 1) * FCBSIZE \in Nat /\ m * FCBSIZE \in Nat
    BY <2>1, Times
  <2>3. m * FCBSIZE <= Room(h, g)
    BY <1>1, <1>2, <1>3 DEF DiscFiles, SizesInv
  <2>4. Room(h, g) \in Nat
    BY <1>1, <1>3, HeadFacts DEF DiscFiles, WitnessType, Heads
  <2> QED
    BY <2>1, <2>2, <2>3, <2>4
<1>5. \A i \in Nat : (i + 1) * FCBSIZE <= m * FCBSIZE => i \in 0 .. m - 1
  BY PlaceInDir
<1>6. d = g
  OBVIOUS
<1> HIDE DEF g
<1> QED
  BY <1>2, <1>3, <1>4, <1>5, <1>6 DEF DirWith

\* A match here is the entry of a file or directory.
PlacedAt(h, w, d, i) ==
  Entry(h, d, i).first \in w.heads \ {Root} /\ w.up[Entry(h, d, i).first] = d /\ w.at[Entry(h, d, i).first] = i

LEMMA EntryPlaced ==
  ASSUME NEW h, NEW txt, NEW w, DiscFiles(h, txt, w), w.holes = {}, NEW d \in w.dirs,
         NEW i \in Nat, (i + 1) * FCBSIZE <= Room(h, d), Entry(h, d, i).filename \in Given
  PROVE  PlacedAt(h, w, d, i)
<1>1. LET g == Entry(h, d, i).first
      IN  g \in w.heads \ {Root} /\ w.up[g] = d /\ w.at[g] = i
  BY NamedEntry
<1> QED
  BY <1>1 DEF PlacedAt

MatchAt(s, w, cur, d, name, ex, i) ==
  /\ i \in Nat /\ (i + 1) * FCBSIZE <= Room(s.hard, d) /\ (i + 1) * FCBSIZE <= s.open[cur].fcb.length
  /\ PlacedAt(s.hard, w, d, i)
  /\ Dir(s, cur)[i] = Entry(s.hard, d, i)
  /\ Entry(s.hard, d, i).filename = name /\ Entry(s.hard, d, i).exname = ex

LEMMA MatchKnown ==
  ASSUME NEW s, NEW cur, NEW txt, NEW w, Filed(s, cur, txt, w), w.holes = {}, s.open[cur].fcb.directory,
         NEW d, d = s.open[cur].fcb.first, NEW name \in Given, NEW ex,
         NEW i \in Matches(Dir(s, cur), name, ex)
  PROVE  MatchAt(s, w, cur, d, name, ex, i)
<1> DEFINE h == s.hard
<1>1. PICK n \in Nat :
           /\ n >= 2 /\ w.length[d] = n * FCBSIZE /\ d \in w.dirs /\ w.length[d] = s.open[cur].fcb.length
           /\ Dir(s, cur) = [j \in 0 .. n - 1 |-> Entry(h, d, j)]
           /\ \A j \in 0 .. n - 1 : j \in Nat /\ (j + 1) * FCBSIZE <= Room(h, d)
  BY DirKnown DEF DirWith
<1>2. i \in DOMAIN Dir(s, cur) /\ Dir(s, cur)[i].filename = name /\ Dir(s, cur)[i].exname = ex
  BY DEF Matches
<1>3. i \in 0 .. n - 1 /\ Dir(s, cur)[i] = Entry(h, d, i)
  BY <1>1, <1>2
<1>4. DiscFiles(h, txt, w)
  BY DEF Filed, FilesInv
<1>5. i \in Nat /\ (i + 1) * FCBSIZE <= Room(h, d)
  BY <1>1, <1>3
<1>6. PlacedAt(h, w, d, i)
  <2>1. Entry(h, d, i).filename \in Given
    BY <1>2, <1>3
  <2> HIDE DEF h
  <2>2. \A j \in Nat : (j + 1) * FCBSIZE <= Room(h, d) /\ Entry(h, d, j).filename \in Given => PlacedAt(h, w, d, j)
    BY <1>1, <1>4, EntryPlaced
  <2> QED
    BY <1>5, <2>1, <2>2
<1>7. (i + 1) * FCBSIZE <= s.open[cur].fcb.length
  <2>1. i \in Nat /\ i + 1 \in Nat /\ i + 1 <= n /\ FCBSIZE \in Nat
    BY <1>3, Sizes
  <2>2. (i + 1) * FCBSIZE <= n * FCBSIZE
    BY <2>1, Times
  <2> QED
    BY <1>1, <2>2
<1> QED
  BY <1>2, <1>3, <1>5, <1>6, <1>7 DEF MatchAt

\* my_open() finds the new entry.
MatchIs(s, cur, v, b, name, ex) ==
  /\ Matches(Dir(s, cur), name, ex) # {}
  /\ \A i \in Matches(Dir(s, cur), name, ex) : Entry(s.hard, s.open[cur].fcb.first, i).first = b

LEMMA NewMatches ==
  ASSUME NEW s, NEW cur, NEW txt, NEW w, Filed(s, cur, txt, w), AtRest(w), s.open[cur].fcb.directory,
         NEW name \in Given, NEW isdir \in BOOLEAN, NEW ex, ex = IF isdir THEN "" ELSE "x",
         Matches(Dir(s, cur), name, ex) = {},
         NEW t, NEW new, NEW v, Filed(t, cur, new, v), NEW b, NEW d, d = s.open[cur].fcb.first,
         t.open[cur].fcb.first = d, t.open[cur].fcb.directory,
         NewAt(t, w, v, d, b, name, isdir), OldThere(s, t, w)
  PROVE  MatchIs(t, cur, v, b, name, ex)
<1> DEFINE h == s.hard
           k == t.hard
<1>1. /\ TableInv(s.open, cur) /\ FilesInv(h, s.open, cur, txt, w) /\ cur \in Fd /\ s.open[cur].topenfile
      /\ DiscFiles(h, txt, w) /\ Sound(s, cur) /\ s.broken = "no"
  BY DEF Filed, Sound, FilesInv, TableInv
<1>2. /\ TableInv(t.open, cur) /\ FilesInv(k, t.open, cur, new, v) /\ t.open[cur].topenfile
      /\ DiscFiles(k, new, v) /\ Sound(t, cur) /\ t.broken = "no"
  BY DEF Filed, Sound, FilesInv, TableInv
<1> HIDE DEF h, k
<1>3. PICK m \in Nat :
           /\ m >= 2 /\ w.length[d] = m * FCBSIZE
           /\ Dir(s, cur) = [j \in 0 .. m - 1 |-> Entry(h, d, j)]
           /\ \A i \in Nat : (i + 1) * FCBSIZE <= w.length[d] => i \in 0 .. m - 1
  BY DirKnown, ZenonT(40) DEF DirWith, h
<1>4. PICK n \in Nat :
           /\ n >= 2 /\ v.length[d] = n * FCBSIZE
           /\ Dir(t, cur) = [j \in 0 .. n - 1 |-> Entry(k, d, j)]
           /\ \A i \in 0 .. n - 1 : i \in Nat /\ (i + 1) * FCBSIZE <= Room(k, d)
           /\ \A i \in Nat : (i + 1) * FCBSIZE <= v.length[d] => i \in 0 .. n - 1
  BY DirKnown DEF DirWith, k
<1>5. d \in w.dirs /\ d \in v.dirs
  BY DirKnown DEF DirWith
<1>6. /\ b \in v.heads \ ({Root} \union w.heads) /\ v.up[b] = d /\ NameOf(k, v, b) = name
      /\ v.heads = w.heads \union {b} /\ v.dirs = (IF isdir THEN w.dirs \union {b} ELSE w.dirs)
      /\ v.holes = {}
      /\ \A g \in w.heads : v.up[g] = w.up[g] /\ v.at[g] = w.at[g]
  BY DEF NewAt, k
<1>7. \A g \in w.heads \ {Root} : SameButLength(Entry(k, w.up[g], w.at[g]), Entry(h, w.up[g], w.at[g]))
  BY DEF OldThere, h, k
<1>8. Matches(Dir(t, cur), name, ex) # {}
  <2>1. /\ v.at[b] \in Nat /\ (v.at[b] + 1) * FCBSIZE <= v.length[d]
        /\ EntryIs(Entry(k, d, v.at[b]), b, b \in v.dirs)
    BY <1>2, <1>6 DEF DiscFiles, PlacesInv, WitnessType
  <2>2. v.at[b] \in 0 .. n - 1
    BY <1>4, <2>1
  <2>3. (b \in v.dirs) = isdir
    <3>1. b \notin w.dirs
      BY <1>1, <1>6 DEF DiscFiles, WitnessType
    <3>2. v.dirs = IF isdir THEN w.dirs \union {b} ELSE w.dirs
      BY <1>6
    <3>3. CASE isdir
      BY <3>2, <3>3
    <3>4. CASE ~isdir
      BY <3>1, <3>2, <3>4
    <3> QED
      BY <3>3, <3>4
  <2>4. Entry(k, d, v.at[b]).filename = name /\ Entry(k, d, v.at[b]).exname = ex
    <3>1. EntryIs(Entry(k, d, v.at[b]), b, isdir)
      BY <2>1, <2>3
    <3> QED
      BY <1>6, <3>1 DEF EntryIs, NameOf
  <2>5. v.at[b] \in DOMAIN Dir(t, cur) /\ Dir(t, cur)[v.at[b]] = Entry(k, d, v.at[b])
    BY <1>4, <2>2
  <2> QED
    BY <2>4, <2>5 DEF Matches
<1>9. ASSUME NEW i \in Matches(Dir(t, cur), name, ex) PROVE Entry(k, d, i).first = b
  <2>1. MatchAt(t, v, cur, d, name, ex, i)
    BY <1>6, MatchKnown
  <2> DEFINE g == Entry(k, d, i).first
  <2>2. g \in v.heads \ {Root} /\ v.up[g] = d /\ v.at[g] = i /\ i \in Nat
        /\ Entry(k, d, i).filename = name /\ Entry(k, d, i).exname = ex
    BY <2>1 DEF MatchAt, PlacedAt, k
  <2>3. CASE g = b
    BY <2>3
  <2>4. CASE g # b
    <3>1. g \in w.heads \ {Root} /\ w.up[g] = d /\ w.at[g] = i
      BY <1>6, <2>2, <2>4
    <3>2. SameButLength(Entry(k, d, i), Entry(h, d, i))
      BY <1>7, <3>1
    <3>3. (i + 1) * FCBSIZE <= w.length[d]
      BY <1>1, <3>1 DEF DiscFiles, PlacesInv
    <3>4. i \in 0 .. m - 1
      BY <1>3, <2>2, <3>3, ZenonT(40)
    <3>5. Dir(s, cur)[i].filename = name /\ Dir(s, cur)[i].exname = ex
      BY <1>3, <2>2, <3>2, <3>4 DEF SameButLength
    <3>6. i \in Matches(Dir(s, cur), name, ex)
      BY <1>3, <3>4, <3>5 DEF Matches
    <3> QED
      BY <3>6
  <2> QED
    BY <2>3, <2>4
<1>11. t.open[cur].fcb.first = d
  OBVIOUS
<1> QED
  BY <1>8, <1>9, <1>11 DEF MatchIs, k

\* The two entries of a new directory.
Dotted(u, t, fd, txt, v, b) ==
  /\ Filed(t, fd, txt, v) /\ Filled(t.hard, b)
  /\ t.open[fd].father = u.open[fd].father /\ t.open[fd].fcb.directory
  /\ \A g \in Fd : g # fd => t.open[g] = u.open[g]

LEMMA FiledTwoDots ==
  ASSUME NEW u, NEW fd \in Fd \ {0}, NEW txt, NEW v, Filed(u, fd, txt, v), u.open[fd].fcb.directory,
         NEW b, b = u.open[fd].fcb.first, NEW t, t = TwoDots(u, fd, b), t.broken = "no"
  PROVE  Dotted(u, t, fd, txt, v, b)
<1> DEFINE f0 == Fcb(".", TRUE, b, 2 * FCBSIZE)
           f1 == Fcb("..", TRUE, b, 2 * FCBSIZE)
           t1 == WriteFcb(u, fd, 0, f0)
<1>1. /\ TableInv(u.open, fd) /\ u.open[fd].topenfile /\ Sound(u, fd) /\ u.broken = "no"
      /\ u.open \in [Fd -> OpenType] /\ StateFields(u)
  BY DEF Filed, Sound, TableInv
<1>2. b \in Block
  BY <1>1, OpenFirst
<1>3. /\ FcbOk(f0) /\ f0.free = 1 /\ f0.filename = "."
      /\ FcbOk(f1) /\ f1.free = 1 /\ f1.filename = ".."
  <2>1. "." \in Dots /\ ".." \in Dots
    BY DEF Dots
  <2>2. \A n \in Dots : FcbOk(Fcb(n, TRUE, b, IF TRUE THEN 2 * FCBSIZE ELSE 0))
    BY <1>2, MadeOk
  <2>3. FcbOk(f0) /\ FcbOk(f1)
    BY <2>1, <2>2
  <2> QED
    BY <2>3 DEF Fcb
<1> HIDE DEF f0, f1
<1>4. t = WriteFcb(t1, fd, 1, f1)
  BY DEF TwoDots, f0, f1
<1>5. StateFields(t1) /\ t1.broken = "no"
  BY <1>1, <1>4, WriteFcbBroken
<1>6. Sound(t1, fd)
  BY <1>1, <1>3, WriteFcbTo
<1>7. /\ Filed(t1, fd, txt, v)
      /\ Entry(t1.hard, b, 0) = f0
      /\ t1.open = Enter(u.open, fd, u.open[fd].fcb.length)
  <2>1. 0 \in {0, 1} /\ t1 = WriteFcb(u, fd, 0, f0) /\ f0.filename \notin Given
    BY <1>3, Names
  <2> HIDE DEF t1
  <2> QED
    BY <1>1, <1>3, <1>5, <1>6, <2>1, FiledDotPut
<1> HIDE DEF t1
<1>8. /\ t1.open[fd].topenfile /\ t1.open[fd].fcb.directory /\ t1.open[fd].fcb.first = b
      /\ t1.open[fd].father = u.open[fd].father
  BY <1>1, <1>7, EnteredFields DEF SameButLength
<1>9. Sound(t, fd)
  <2>1. Sound(WriteFcb(t1, fd, 1, f1), fd)
    BY <1>3, <1>5, <1>6, <1>8, WriteFcbTo
  <2> QED
    BY <1>4, <2>1
<1>10. /\ Filed(t, fd, txt, v)
       /\ Entry(t.hard, t1.open[fd].fcb.first, 1) = f1
       /\ Entry(t.hard, t1.open[fd].fcb.first, 1 - 1) = Entry(t1.hard, t1.open[fd].fcb.first, 1 - 1)
       /\ t.open = Enter(t1.open, fd, t1.open[fd].fcb.length)
  <2>1. 1 \in {0, 1} /\ f1.filename \notin Given
    BY <1>3, Names
  <2> QED
    BY <1>3, <1>4, <1>7, <1>8, <1>9, <2>1, FiledDotPut
<1>11. Filled(t.hard, b)
  <2>1. 1 - 1 = 0
    OBVIOUS
  <2> QED
    BY <1>3, <1>7, <1>8, <1>10, <2>1 DEF Filled
<1>12. t.open[fd].father = u.open[fd].father /\ t.open[fd].fcb.directory
       /\ \A g \in Fd : g # fd => t.open[g] = u.open[g]
  <2>1. t1.open \in [Fd -> OpenType]
    BY <1>5, <1>6 DEF Sound, TableInv
  <2>2. t.open[fd].father = u.open[fd].father /\ t.open[fd].fcb.directory
    BY <1>8, <1>10, <2>1, EnteredFields DEF SameButLength
  <2>3. \A g \in Fd : g # fd => t1.open[g] = u.open[g]
    BY <1>1, <1>7, EnteredFields
  <2>4. \A g \in Fd : g # fd => t.open[g] = t1.open[g]
    BY <1>10, <2>1, EnteredFields
  <2> QED
    BY <2>2, <2>3, <2>4
<1> QED
  BY <1>10, <1>11, <1>12 DEF Dotted

\* The root has its two entries.
LEMMA RootFilled ==
  ASSUME NEW s, NEW cur, NEW txt, NEW w, Filed(s, cur, txt, w), Root \notin w.raw
  PROVE  Filled(s.hard, Root)
<1> DEFINE h == s.hard
           o == s.open
<1>1. TableInv(o, cur) /\ FilesInv(h, o, cur, txt, w) /\ 0 \in Fd /\ o[0].topenfile /\ o[0].fcb.first = Root
  BY Places DEF Filed, Sound, TableInv
<1>2. Root \in w.dirs
  BY <1>1 DEF FilesInv, DiscFiles, WitnessType
<1> HIDE DEF h, o
<1>3. LET g == o[0].fcb.first
      IN  /\ g \in w.heads /\ w.length[g] = o[0].fcb.length
          /\ o[0].fcb.directory <=> g \in w.dirs
          /\ g \in w.dirs \ w.raw => Filled(h, g)
  BY <1>1, OpenIsDir
<1> QED
  BY <1>1, <1>2, <1>3 DEF h

\* my_open() of the new directory, its two entries, my_close() and the length
\* of the current directory.
FilledUp(s, cur, name, b, dot) ==
  LET o == OpenAs(s, cur, name, "")
  IN  IF o.fd = -1 THEN o.s
      ELSE WriteDot(Release(TwoDots(o.s, o.fd, b), o.fd), cur, dot)

EndsAtEase(t, cur, txt) == AtEase(t, cur, txt) /\ (cur = 0 => Synced(t.hard, t.open))

LEMMA FiledUp ==
  ASSUME NEW s, NEW cur, NEW txt, NEW v, Filed(s, cur, txt, v), s.open[cur].fcb.directory,
         NEW d, d = s.open[cur].fcb.first, NEW b \in v.dirs \ {Root}, v.up[b] = d,
         v.raw = {b}, v.holes = {}, v.orphans = {}, NEW name \in Given, NameOf(s.hard, v, b) = name,
         MatchIs(s, cur, v, b, name, ""), NEW dot, DotOk(dot, cur),
         NEW t, t = FilledUp(s, cur, name, b, dot), t.broken = "no"
  PROVE  EndsAtEase(t, cur, txt)
<1> DEFINE o == OpenAs(s, cur, name, "")
           v2 == Now(v, v.orphans, v.holes, {})
<1>1. /\ TableInv(s.open, cur) /\ FilesInv(s.hard, s.open, cur, txt, v) /\ cur \in Fd /\ s.open[cur].topenfile
      /\ DiscFiles(s.hard, txt, v) /\ Sound(s, cur) /\ s.broken = "no" /\ WitnessType(v)
  BY DEF Filed, Sound, FilesInv, TableInv, DiscFiles
<1>2. OpenResult(s, o, cur, name, "")
  BY <1>1, OpenTo
<1>3. v2.orphans = {} /\ v2.holes = {} /\ v2.raw = {}
  <2>1. v2.orphans = v.orphans /\ v2.holes = v.holes /\ v2.raw = {}
    BY DEF Now
  <2> QED
    BY <2>1
<1>4. Root \notin v.raw /\ b \in v.heads \ {Root}
  BY <1>1 DEF WitnessType
<1>5. v.orphans \subseteq Block /\ v.orphans \intersect v.heads = {}
  OBVIOUS
<1> HIDE DEF o, v2
<1>6. CASE o.fd = -1
  <2>1. t = o.s
    BY <1>6 DEF FilledUp, o
  <2>2. t = s /\ Blocked(s.open, cur, name, "")
    BY <1>2, <1>6, <2>1 DEF OpenResult, MatchIs
  <2>3. PICK a \in v.above[s.open[cur].fcb.first] \ {Root} : NameOf(s.hard, v, a) = name
    <3> DEFINE h == s.hard
               p == s.open
    <3>1. TableInv(p, cur) /\ FilesInv(h, p, cur, txt, v) /\ Blocked(p, cur, name, "")
      BY <1>1, <2>2
    <3> HIDE DEF h, p
    <3>2. NamedAbove(h, v, p[cur].fcb.first, name)
      BY <3>1, BlockedAbove
    <3> QED
      BY <3>2 DEF h, p, NamedAbove
  <2>4. cur # 0
    <3>1. v.above[Root] = {}
      BY <1>1 DEF DiscFiles, AboveInv
    <3>2. cur = 0 => s.open[cur].fcb.first = Root
      BY <1>1 DEF TableInv
    <3> QED
      BY <2>3, <3>1, <3>2
  <2>5. ~IsOpen(s.open, b)
    <3> DEFINE h == s.hard
               p == s.open
    <3>1. TableInv(p, cur) /\ FilesInv(h, p, cur, txt, v) /\ v.up[b] = p[cur].fcb.first
      BY <1>1
    <3> HIDE DEF h, p
    <3>2. ~IsOpen(p, b)
      BY <1>4, <3>1, NotOpenHere
    <3> QED
      BY <3>2 DEF p
  <2>6. Filled(s.hard, Root)
    BY <1>4, RootFilled
  <2>7. Filed(s, cur, txt, v2)
    <3>1. \A g \in v.raw \ {Root} :
            \/ Filled(s.hard, g)
            \/ ~IsOpen(s.open, g)
               /\ \E x \in v.above[v.up[g]] \ {Root} : NameOf(s.hard, v, x) = NameOf(s.hard, v, g)
      BY <2>3, <2>5
    <3> QED
      BY <1>5, <2>6, <3>1, RawFilled DEF v2
  <2> QED
    BY <1>3, <2>2, <2>4, <2>7 DEF EndsAtEase, AtEase, AtRest
<1>7. CASE o.fd # -1
  <2> DEFINE u == o.s
             fd == o.fd
             t2 == TwoDots(u, fd, b)
             r == Release(t2, fd)
  <2>1. t = WriteDot(r, cur, dot)
    BY <1>7 DEF FilledUp, o
  <2>2. /\ OpenedTo(s, u, cur, fd, Min(Matches(Dir(s, cur), name, "")))
        /\ Matches(Dir(s, cur), name, "") # {} /\ ~Blocked(s.open, cur, name, "")
    BY <1>2, <1>7 DEF OpenResult
  <2> HIDE DEF u, fd
  <2>3. /\ Filed(u, fd, txt, v)
        /\ u.open[fd].fcb = Entry(s.hard, s.open[cur].fcb.first, u.open[fd].diroff)
    <3>1. v.holes = {}
      OBVIOUS
    <3>2. FiledAs(s, u, cur, fd, txt, v)
      BY <2>2, <3>1, FiledOpen
    <3> QED
      BY <3>2 DEF FiledAs
  <2>4. /\ fd \in Fd \ {0} /\ fd # cur /\ Sound(u, fd) /\ u.open[fd].father = cur /\ u.open[fd].topenfile
        /\ u.open[fd].diroff = Min(Matches(Dir(s, cur), name, ""))
        /\ StateFields(u) /\ u.broken = "no"
    BY <1>1, <2>2 DEF OpenedTo, Sound
  <2>5. u.open[fd].fcb.first = b
    <3> DEFINE M == Matches(Dir(s, cur), name, "")
    <3>1. M \subseteq Nat /\ M # {}
      <4>1. \A i \in M : i \in Nat
        BY MatchKnown, ZenonT(40) DEF MatchAt
      <4> QED
        BY <2>2, <4>1
    <3> HIDE DEF M
    <3>2. Min(M) \in M
      BY <3>1, MinFound
    <3> QED
      BY <2>3, <2>4, <3>2, ZenonT(40) DEF MatchIs, M
  <2>6. u.open[fd].fcb.directory
    <3> DEFINE h == u.hard
               p == u.open
    <3>1. TableInv(p, fd) /\ FilesInv(h, p, fd, txt, v) /\ fd \in Fd /\ p[fd].topenfile
      BY <2>3, <2>4 DEF Filed, Sound
    <3> HIDE DEF h, p
    <3>2. p[fd].fcb.directory <=> p[fd].fcb.first \in v.dirs
      BY <3>1, OpenIsDir
    <3> QED
      BY <2>5, <3>2 DEF p
  <2>7. r.broken = "no" /\ t2.broken = "no" /\ StateFields(t2)
    <3>1. StateFields(t2)
      <4>1. Sound(t2, fd)
        <5>1. b \in Block
          BY <1>1, <1>4 DEF WitnessType
        <5> QED
          BY <2>4, <5>1, TwoDotsTo
      <4> QED
        BY <4>1 DEF Sound
    <3> HIDE DEF t2
    <3>2. StateFields(r)
      BY <3>1, ReleaseBroken
    <3> HIDE DEF r
    <3>3. r.broken = "no"
      BY <2>1, <3>2, WriteDotBroken
    <3> USE DEF r
    <3> QED
      BY <3>1, <3>3, ReleaseBroken
  <2>8. Dotted(u, t2, fd, txt, v, b)
    BY <2>3, <2>4, <2>5, <2>6, <2>7, FiledTwoDots
  <2> HIDE DEF t2
  <2>9. Filed(t2, fd, txt, v2)
    <3>1. Filed(t2, fd, txt, v) /\ Filled(t2.hard, b)
      BY <2>8 DEF Dotted
    <3>2. Filled(t2.hard, Root)
      BY <1>4, <3>1, RootFilled
    <3>3. \A g \in v.raw \ {Root} :
            \/ Filled(t2.hard, g)
            \/ ~IsOpen(t2.open, g)
               /\ \E a \in v.above[v.up[g]] \ {Root} : NameOf(t2.hard, v, a) = NameOf(t2.hard, v, g)
      BY <3>1
    <3> QED
      BY <1>5, <3>1, <3>2, <3>3, RawFilled DEF v2
  <2>10. /\ Filed(r, cur, txt, v2)
         /\ r.open[cur].fcb.directory
    <3>1. t2.open[fd].father = cur /\ t2.open[fd].fcb.directory
      BY <2>4, <2>8 DEF Dotted
    <3>2. /\ Filed(Release(t2, fd), t2.open[fd].father, txt, v2)
          /\ OthersStay(t2, Release(t2, fd), fd)
      BY <1>3, <2>4, <2>7, <2>9, <3>1, FiledRelease DEF r
    <3>3. t2.open[cur].fcb.directory
      <4>1. t2.open[cur] = s.open[cur]
        <5>1. b \in Block
          BY <1>1, <1>4 DEF WitnessType
        <5>2. \A g \in Fd : g # fd => t2.open[g] = u.open[g]
          BY <2>8 DEF Dotted
        <5>3. \A g \in Fd : g # fd => u.open[g] = s.open[g]
          BY <2>2 DEF OpenedTo
        <5> QED
          BY <1>1, <2>4, <5>2, <5>3
      <4> QED
        BY <4>1
    <3> QED
      BY <1>1, <2>4, <3>1, <3>2, <3>3 DEF SameButLength, OthersStay, r
  <2> HIDE DEF r
  <2>11. Filed(t, cur, txt, v2)
    <3>1. WriteDot(r, cur, dot).broken = "no"
      BY <2>1
    <3>2. Filed(WriteDot(r, cur, dot), cur, txt, v2)
      BY <2>10, <3>1, FiledDot DEF DotOk
    <3> QED
      BY <2>1, <3>2
  <2>12. cur = 0 => Synced(t.hard, t.open)
    <3>1. Sound(r, cur) /\ r.broken = "no" /\ TableInv(r.open, cur)
      BY <2>10 DEF Filed, Sound
    <3>2. r.open[cur].fcb.length >= 2 * FCBSIZE
      BY <1>1, <2>10, <3>1, DirLength DEF TableInv
    <3>3. LET x == WriteDot(r, cur, dot)
          IN  x.broken = "no" /\ (cur # 0 => Synced(r.hard, r.open)) => Synced(x.hard, x.open)
      BY <3>1, <3>2, WriteDotTo DEF DotOk
    <3> QED
      BY <2>1, <3>3
  <2> QED
    BY <1>3, <2>11, <2>12 DEF EndsAtEase, AtEase, AtRest
<1> QED
  BY <1>6, <1>7

-----------------------------------------------------------------------------
(* my_rm() and my_rmdir(): the blocks, then the entry.                     *)

\* The witness without g, which leaves a hole in its directory.
Without(w, g) ==
  [heads |-> w.heads \ {g}, dirs |-> w.dirs \ {g}, up |-> w.up, at |-> w.at, length |-> w.length,
   above |-> w.above, depth |-> w.depth,
   orphans |-> {}, holes |-> {<<w.up[g], w.at[g]>>}, raw |-> {}]

WithoutIs(w, v, g) ==
  /\ WitnessType(v) /\ Fewer(w, v) /\ v.heads = w.heads \ {g} /\ v.dirs = w.dirs \ {g}
  /\ v.length = w.length /\ Heads(v) = w.heads \ {g} /\ v.orphans = {}
  /\ v.holes = {<<w.up[g], w.at[g]>>} /\ v.raw = {}

LEMMA WithoutFields ==
  ASSUME NEW w, WitnessType(w), AboveInv(w), w.raw = {}, NEW g \in w.heads \ {Root},
         \A x \in w.heads \ {Root} : w.up[x] # g
  PROVE  WithoutIs(w, Without(w, g), g)
<1> DEFINE v == Without(w, g)
<1>1. /\ v.heads = w.heads \ {g} /\ v.dirs = w.dirs \ {g} /\ v.up = w.up /\ v.at = w.at
      /\ v.length = w.length /\ v.above = w.above /\ v.depth = w.depth
      /\ v.orphans = {} /\ v.holes = {<<w.up[g], w.at[g]>>} /\ v.raw = {}
  BY DEF Without
<1> HIDE DEF v
<1>2. WitnessType(v)
  BY <1>1 DEF WitnessType
<1>3. ASSUME NEW x \in v.heads PROVE w.above[x] \subseteq v.heads
  <2>1. ASSUME NEW a \in w.above[x] PROVE a \in v.heads
    <3>1. x \in w.heads
      BY <1>1
    <3>2. a \in w.dirs /\ \E c \in w.heads \ {Root} : w.up[c] = a
      BY <3>1 DEF AboveInv
    <3>3. a # g
      BY <3>2
    <3> QED
      BY <1>1, <3>2, <3>3 DEF WitnessType
  <2> QED
    BY <2>1
<1>4. Fewer(w, v)
  <2>1. v.heads \subseteq w.heads /\ v.dirs = w.dirs \intersect v.heads /\ Root \in v.heads
    BY <1>1 DEF WitnessType
  <2> QED
    BY <1>1, <1>3, <2>1 DEF Fewer
<1>5. Heads(v) = w.heads \ {g}
  BY <1>1 DEF Heads
<1> QED
  BY <1>1, <1>2, <1>4, <1>5 DEF WithoutIs, v

\* The blocks of g are given back.
LEMMA DiscFreed ==
  ASSUME NEW h, DiscInv(h), NEW txt, NEW w, DiscFiles(h, txt, w), AtRest(w), NEW g \in w.heads \ {Root},
         \A x \in w.heads \ {Root} : w.up[x] # g,
         NEW new \in [Block -> Seq(Character)], \A x \in w.heads : x # g => new[x] = txt[x],
         NEW v, WithoutIs(w, v, g), NEW k, k = FreeChain(h, g)
  PROVE  DiscFiles(k, new, v) /\ \A x \in v.heads : Unmoved(h, k, x)
<1> DEFINE X == Heads(w)
<1>1. /\ WitnessType(w) /\ ChainsInv(h, X) /\ LagInv(h, w) /\ UnitsInv(h, w) /\ AboveInv(w)
      /\ w.holes = {} /\ w.orphans = {} /\ w.raw = {}
  BY DEF DiscFiles, AtRest
<1>2. X = w.heads
  BY <1>1 DEF Heads
<1>3. /\ WitnessType(v) /\ Fewer(w, v) /\ v.heads = w.heads \ {g} /\ v.dirs = w.dirs \ {g}
      /\ v.length = w.length /\ Heads(v) = w.heads \ {g} /\ v.orphans = {}
      /\ v.holes = {<<w.up[g], w.at[g]>>} /\ v.raw = {}
  BY DEF WithoutIs
<1> HIDE DEF X
<1>4. /\ ChainsInv(k, X \ {g}) /\ Refatted(h, k)
      /\ \A x \in X : x # g => Unmoved(h, k, x)
      /\ \A d \in Block : IF d \in ToSet(Chain(h, g)) THEN k.fat1[d] = FREE /\ k.fat2[d] = FREE
                         ELSE k.fat1[d] = h.fat1[d] /\ k.fat2[d] = h.fat2[d]
  <2>1. GaveBlocks(h, FreeChain(h, g), X, g)
    BY <1>1, <1>2, FreedChains
  <2> QED
    BY <2>1 DEF GaveBlocks
<1>5. ChainsInv(k, Heads(v))
  BY <1>2, <1>3, <1>4
<1>6. \A x \in v.heads : Unmoved(h, k, x)
  BY <1>2, <1>3, <1>4
<1>7. LagInv(k, v)
  <2>1. g \in ToSet(Chain(h, g))
    BY <1>1, <1>2, ChainsFacts
  <2> SUFFICES ASSUME NEW b \in Block, k.fat1[b] # k.fat2[b]
               PROVE  k.fat1[b] = END /\ k.fat2[b] = FREE /\ b \in Heads(v) \ v.dirs
    BY DEF LagInv
  <2>2. b \notin ToSet(Chain(h, g)) /\ k.fat1[b] = h.fat1[b] /\ k.fat2[b] = h.fat2[b]
    BY <1>4
  <2>3. h.fat1[b] = END /\ h.fat2[b] = FREE /\ b \in Heads(w) \ w.dirs
    BY <1>1, <2>2 DEF LagInv
  <2> QED
    BY <1>2, <1>3, <2>1, <2>2, <2>3 DEF X
<1>8. UnitsInv(k, v)
  <2>1. \A b \in Block : b >= FirstData /\ k.fat1[b] = FREE =>
           \/ h.fat1[b] = FREE /\ k.block[b] = h.block[b]
           \/ \A j \in Unit : ~Live(k.block[b][j])
    <3>1. k.block = h.block
      BY <1>4, RefattedKeeps
    <3>2. \A b \in ToSet(Chain(h, g)), j \in Unit : ~Live(h.block[b][j])
      <4>1. g \in Heads(w) /\ ChainsInv(h, Heads(w))
        BY <1>1, <1>2 DEF X
      <4> QED
        BY <1>1, <4>1, NoneLive
    <3> QED
      BY <1>4, <3>1, <3>2
  <2>2. \A x \in Heads(v) : x \in Heads(w) /\ Unmoved(h, k, x)
    BY <1>2, <1>3, <1>4 DEF X
  <2>3. ASSUME NEW f, NEW x, NEW p \in Nat, AtPlace(w, f, x, p)
        PROVE  AtPlace(v, f, x, p) \/ <<x, p \div FCBSIZE>> \in v.holes
    <3>1. f.first \in w.heads \ {Root} /\ w.up[f.first] = x /\ w.at[f.first] = p \div FCBSIZE
      BY <2>3 DEF AtPlace
    <3>2. CASE f.first = g
      BY <1>3, <3>1, <3>2
    <3>3. CASE f.first # g
      BY <1>3, <3>1, <3>3 DEF AtPlace, Fewer
    <3> QED
      BY <3>2, <3>3
  <2>4. w.holes \subseteq v.holes
    BY <1>1
  <2>5. \A f, x : \A p \in Nat : AtPlace(w, f, x, p) => AtPlace(v, f, x, p) \/ <<x, p \div FCBSIZE>> \in v.holes
    BY <2>3
  <2>6. ChainsInv(h, Heads(w))
    BY <1>1 DEF X
  <2> QED
    BY <1>1, <2>1, <2>2, <2>4, <2>5, <2>6, UnitsStay
<1>9. PlacesInv(k, v) /\ SizesInv(k, v) /\ FilledInv(k, v) /\ AboveInv(v)
  <2>1. v.dirs \subseteq v.heads
    BY <1>3 DEF WitnessType
  <2>2. \A x \in v.dirs : Unmoved(h, k, x)
    BY <1>6, <2>1
  <2> QED
    BY <1>3, <2>2, TreeStays
<1>10. TextInv(k, new, v)
  <2>1. v.heads \subseteq w.heads /\ v.dirs = w.dirs \intersect v.heads
    BY <1>3 DEF Fewer
  <2>2. \A x \in v.heads \ v.dirs : Unmoved(h, k, x) /\ v.length[x] = w.length[x] /\ new[x] = txt[x]
    BY <1>3, <1>6
  <2> QED
    BY <2>1, <2>2, TextStays
<1>11. DiscFiles(k, new, v)
  BY <1>3, <1>5, <1>7, <1>8, <1>9, <1>10 DEF DiscFiles
<1> QED
  BY <1>6, <1>11

LEMMA FiledFreed ==
  ASSUME NEW s, NEW cur, NEW txt, NEW w, Filed(s, cur, txt, w), AtRest(w), NEW g \in w.heads \ {Root},
         \A x \in w.heads \ {Root} : w.up[x] # g, w.up[g] = s.open[cur].fcb.first,
         NEW new \in [Block -> Seq(Character)], \A x \in w.heads : x # g => new[x] = txt[x],
         NEW v, WithoutIs(w, v, g), NEW t, t = OnDisc(s, FreeChain(s.hard, g))
  PROVE  Filed(t, cur, new, v) /\ t.open = s.open
<1> DEFINE h == s.hard
           o == s.open
           k == FreeChain(h, g)
<1>1. /\ TableInv(o, cur) /\ FilesInv(h, o, cur, txt, w) /\ DiscInv(h) /\ DiscFiles(h, txt, w)
      /\ OpenInv(h, o, cur, w) /\ Sound(s, cur) /\ s.broken = "no"
  BY DEF Filed, Sound, FilesInv
<1>2. /\ WitnessType(v) /\ Fewer(w, v) /\ v.heads = w.heads \ {g} /\ v.dirs = w.dirs \ {g}
      /\ v.length = w.length
  BY DEF WithoutIs
<1>3. Refatted(h, k)
  BY <1>1, ChainFreed
<1>4. Sound(t, cur) /\ t.broken = "no" /\ t.open = o /\ t.hard = k
  <2> HIDE DEF k
  <2>1. k = FreeChain(s.hard, g)
    BY DEF k
  <2> QED
    BY <1>1, <1>3, <2>1, OnDiscTo
<1>5. ~IsOpen(o, g)
  <2>1. w.up[g] = o[cur].fcb.first
    OBVIOUS
  <2> HIDE DEF h, o
  <2> QED
    BY <1>1, <2>1, NotOpenHere
<1> HIDE DEF h, o, k
<1>6. DiscFiles(k, new, v) /\ \A x \in v.heads : Unmoved(h, k, x)
  BY <1>1, DiscFreed DEF k
<1>7. OpenInv(k, o, cur, v)
  <2>1. \A x \in v.dirs : Unmoved(h, k, x)
    BY <1>2, <1>6 DEF WitnessType
  <2>2. \A x \in Fd : o[x].topenfile => o[x].fcb.first \in v.heads
    BY <1>1, <1>2, <1>5 DEF OpenInv, OpenHead, IsOpen
  <2> QED
    BY <1>1, <1>2, <2>1, <2>2, OpenStays
<1>8. Filed(t, cur, new, v)
  BY <1>4, <1>6, <1>7 DEF Filed, FilesInv
<1> QED
  BY <1>4, <1>8 DEF o

\* Entry i of the current directory goes, and what it begins.
LEMMA FiledRemove ==
  ASSUME NEW s, NEW cur, NEW txt, NEW w, Filed(s, cur, txt, w), AtRest(w), s.open[cur].fcb.directory,
         NEW d, d = s.open[cur].fcb.first, NEW g \in w.heads \ {Root}, w.up[g] = d,
         \A x \in w.heads \ {Root} : w.up[x] # g,
         NEW i \in Nat, w.at[g] = i, (i + 1) * FCBSIZE <= s.open[cur].fcb.length,
         NEW new \in [Block -> Seq(Character)], \A x \in w.heads : x # g => new[x] = txt[x],
         NEW fcb, FcbOk(fcb), fcb.filename \notin Given,
         NEW u, u = OnDisc(s, FreeChain(s.hard, g)), NEW t, t = WriteFcb(u, cur, i, fcb), t.broken = "no"
  PROVE  AtEase(t, cur, new)
<1> DEFINE v == Without(w, g)
           v2 == Now(v, {}, {}, {})
<1>1. /\ TableInv(s.open, cur) /\ DiscFiles(s.hard, txt, w) /\ cur \in Fd /\ s.open[cur].topenfile
      /\ WitnessType(w) /\ AboveInv(w) /\ w.raw = {} /\ w.orphans = {} /\ w.holes = {} /\ PlacesInv(s.hard, w)
  BY DEF Filed, Sound, FilesInv, TableInv, DiscFiles, AtRest
<1>3. i >= 2
  BY <1>1 DEF PlacesInv
<1>4. WithoutIs(w, v, g)
  BY <1>1, WithoutFields
<1> HIDE DEF v, v2
<1>5. Filed(u, cur, new, v) /\ u.open = s.open
  BY <1>4, FiledFreed
<1>6. /\ WitnessType(v) /\ v.heads = w.heads \ {g} /\ v.dirs = w.dirs \ {g} /\ v.up = w.up /\ v.at = w.at
      /\ v.orphans = {} /\ v.raw = {} /\ v.holes = {<<d, i>>}
  BY <1>4 DEF WithoutIs, Fewer
<1>7. d \in v.dirs /\ d = u.open[cur].fcb.first
  <2>1. d \in w.dirs
    BY DirKnown DEF DirWith
  <2>2. d # g
    OBVIOUS
  <2> QED
    BY <1>5, <1>6, <2>1, <2>2
<1>8. /\ SameTree(v, v2) /\ WitnessType(v2) /\ v2.orphans = v.orphans /\ v2.raw = v.raw
      /\ v2.orphans = {} /\ v2.raw = {} /\ v2.holes = {}
  <2>1. {} \in SUBSET Block /\ {} \intersect v.heads = {}
    OBVIOUS
  <2>2. /\ WitnessType(v2) /\ SameTree(v, v2) /\ v2.orphans = {} /\ v2.holes = {} /\ v2.raw = {}
    BY <1>6, <2>1, NowTyped DEF v2
  <2> QED
    BY <1>6, <2>2
<1>9. OldEntry(u.hard, v, d, i, fcb)
  <2>1. ASSUME NEW x \in v.heads \ {Root}, v.up[x] = d, v.at[x] = i PROVE FALSE
    <3>1. x \in w.heads \ {Root} /\ x # g /\ w.up[x] = d /\ w.at[x] = i
      BY <1>6, <2>1
    <3>2. Entry(s.hard, w.up[x], w.at[x]).first = x /\ Entry(s.hard, w.up[g], w.at[g]).first = g
      BY <1>1, <3>1 DEF PlacesInv, EntryIs
    <3> QED
      BY <3>1, <3>2
  <2>2. ~(i < 2)
    BY <1>3
  <2> QED
    BY <2>1, <2>2 DEF OldEntry
<1>10. Sound(t, cur)
  <2>1. Sound(u, cur) /\ u.broken = "no"
    BY <1>5 DEF Filed
  <2>2. Sound(WriteFcb(u, cur, i, fcb), cur)
    BY <1>1, <1>3, <1>5, <2>1, WriteFcbTo
  <2> QED
    BY <2>2
<1>11. Filed(t, cur, new, v2)
  <2>1. t = WriteFcb(u, cur, i, fcb) /\ u.open[cur].topenfile /\ (i + 1) * FCBSIZE <= u.open[cur].fcb.length
    BY <1>1, <1>5 
  <2>2. fcb.filename \in Given => fcb.first \in v.heads \ {Root} /\ v.up[fcb.first] = d /\ v.at[fcb.first] = i
    OBVIOUS
  <2>3. \A x \in v.holes : x = <<d, i>> \/ x \in v2.holes
    BY <1>6
  <2> DEFINE u1 == u
             t1 == t
             d1 == d
             i1 == i
             f1 == fcb
  <2>4. /\ Filed(u1, cur, new, v) /\ cur \in Fd /\ u1.open[cur].topenfile /\ FcbOk(f1)
        /\ t1 = WriteFcb(u1, cur, i1, f1) /\ t1.broken = "no" /\ Sound(t1, cur)
        /\ d1 = u1.open[cur].fcb.first /\ d1 \in v.dirs /\ i1 \in Nat
        /\ (i1 + 1) * FCBSIZE <= u1.open[cur].fcb.length
        /\ OldEntry(u1.hard, v, d1, i1, f1)
    BY <1>1, <1>5, <1>7, <1>9, <1>10, <2>1
  <2>5. /\ f1.filename \in Given => f1.first \in v.heads \ {Root} /\ v.up[f1.first] = d1 /\ v.at[f1.first] = i1
        /\ \A x \in v.holes : x = <<d1, i1>> \/ x \in v2.holes
        /\ SameTree(v, v2) /\ WitnessType(v2) /\ v2.orphans = v.orphans /\ v2.raw = v.raw
    BY <1>8, <2>2, <2>3
  <2> HIDE DEF u1, t1, d1, i1, f1
  <2>6. Filed(t1, cur, new, v2)
    BY <2>4, <2>5, PutSame
  <2> QED
    BY <2>6 DEF t1
<1> QED
  BY <1>8, <1>11 DEF AtEase, AtRest

-----------------------------------------------------------------------------
(* The length and the text of the open file.                               *)

\* The witness with another length of g.
Resized(w, g, length) ==
  [heads |-> w.heads, dirs |-> w.dirs, up |-> w.up, at |-> w.at,
   length |-> [w.length EXCEPT ![g] = length],
   above |-> w.above, depth |-> w.depth, orphans |-> w.orphans, holes |-> w.holes, raw |-> w.raw]

ResizedIs(w, v, g, length) ==
  /\ WitnessType(v) /\ Fewer(w, v) /\ v.heads = w.heads /\ v.dirs = w.dirs
  /\ v.orphans = w.orphans /\ v.holes = w.holes /\ v.raw = w.raw
  /\ v.length[g] = length /\ \A x \in w.heads : x # g => v.length[x] = w.length[x]

LEMMA ResizedFields ==
  ASSUME NEW w, WitnessType(w), AboveInv(w), NEW g \in w.heads \ w.dirs, NEW length \in Nat
  PROVE  ResizedIs(w, Resized(w, g, length), g, length)
<1> DEFINE v == Resized(w, g, length)
<1>1. /\ v.heads = w.heads /\ v.dirs = w.dirs /\ v.up = w.up /\ v.at = w.at
      /\ v.length = [w.length EXCEPT ![g] = length]
      /\ v.above = w.above /\ v.depth = w.depth
      /\ v.orphans = w.orphans /\ v.holes = w.holes /\ v.raw = w.raw
  BY DEF Resized
<1> HIDE DEF v
<1>2. w.length \in [Block -> Nat] /\ w.heads \subseteq Block /\ w.dirs \subseteq w.heads /\ Root \in w.dirs
  BY DEF WitnessType
<1>3. /\ v.length \in [Block -> Nat] /\ v.length[g] = length
      /\ \A x \in w.heads : x # g => v.length[x] = w.length[x]
  BY <1>1, <1>2
<1>4. WitnessType(v)
  BY <1>1, <1>3 DEF WitnessType
<1>5. \A x \in v.heads : w.above[x] \subseteq v.heads
  <2>1. \A x \in w.heads : \A a \in w.above[x] : a \in w.dirs
    BY DEF AboveInv
  <2> QED
    BY <1>1, <1>2, <2>1
<1>6. \A x \in v.dirs : v.length[x] = w.length[x]
  BY <1>1, <1>2, <1>3
<1>7. Fewer(w, v)
  BY <1>1, <1>2, <1>5, <1>6 DEF Fewer
<1> QED
  BY <1>1, <1>3, <1>4, <1>7 DEF ResizedIs, v

\* The FCB of cur has another length.
Relength(o, p, cur, length) ==
  /\ \A x \in Fd : x # cur => p[x] = o[x]
  /\ SameButLength(p[cur].fcb, o[cur].fcb) /\ p[cur].fcb.length = length
  /\ p[cur].diroff = o[cur].diroff /\ p[cur].father = o[cur].father /\ p[cur].topenfile
  /\ p[cur].fcbstate \/ length = 0

LEMMA OpenResized ==
  ASSUME NEW h, NEW k, NEW txt, NEW w, DiscFiles(h, txt, w), NEW g \in w.heads \ w.dirs,
         NEW length \in Nat, NEW v, ResizedIs(w, v, g, length),
         \A x \in w.heads : x # g => Unmoved(h, k, x),
         NEW o, NEW cur, TableInv(o, cur), OpenInv(h, o, cur, w), g = o[cur].fcb.first,
         NEW p, Relength(o, p, cur, length)
  PROVE  OpenInv(k, p, cur, v)
<1>1. /\ Fewer(w, v) /\ v.heads = w.heads /\ v.dirs = w.dirs /\ v.up = w.up /\ v.at = w.at
      /\ v.above = w.above /\ v.raw = w.raw
      /\ v.length[g] = length /\ \A x \in w.heads : x # g => v.length[x] = w.length[x]
  BY DEF ResizedIs, Fewer
<1>2. cur \in Fd /\ o[cur].topenfile /\ \A x \in Fd : o[x].topenfile /\ x # cur => o[x].fcb.first # g
  BY DEF TableInv, OpenInv
<1>3. g # Root /\ w.dirs \subseteq w.heads
  BY DEF DiscFiles, WitnessType
<1>4. /\ \A x \in v.heads \ {Root} : v.up[x] \in v.dirs /\ Entry(k, v.up[x], v.at[x]) = Entry(h, w.up[x], w.at[x])
      /\ \A x \in v.dirs : Room(k, x) = Room(h, x) /\ (Filled(h, x) => Filled(k, x))
  <2>1. \A x \in v.dirs : Unmoved(h, k, x)
    BY <1>1, <1>3
  <2> QED
    BY <1>1, <2>1, EntriesStay
<1>5. /\ \A x \in Fd : x # cur => p[x] = o[x]
      /\ \A x \in Fd : p[x].topenfile = o[x].topenfile \/ x = cur
      /\ p[cur].topenfile
      /\ p[cur].fcb.first = g /\ p[cur].diroff = o[cur].diroff /\ p[cur].father = o[cur].father
      /\ SameButLength(p[cur].fcb, o[cur].fcb) /\ p[cur].fcb.length = length
      /\ p[cur].fcbstate \/ length = 0
  BY DEF Relength, SameButLength
<1>6. \A x \in Fd : p[x].fcb.first = o[x].fcb.first
  BY <1>5
<1>7. \A x \in Fd : IF p[x].topenfile THEN OpenHead(k, v, p[x].fcb) ELSE p[x] = Closed
  <2>1. OpenHead(k, v, p[cur].fcb)
    BY <1>1, <1>3, <1>5 DEF OpenHead
  <2>2. ASSUME NEW x \in Fd, x # cur, o[x].topenfile PROVE OpenHead(k, v, o[x].fcb)
    <3>1. OpenHead(h, w, o[x].fcb) /\ o[x].fcb.first # g
      BY <1>2, <2>2 DEF OpenInv
    <3> QED
      BY <1>1, <1>4, <3>1 DEF OpenHead
  <2>3. \A x \in Fd : ~o[x].topenfile => o[x] = Closed
    BY DEF OpenInv
  <2> QED
    BY <1>5, <2>1, <2>2, <2>3
<1>8. ASSUME NEW x \in Fd \ {0}, p[x].topenfile PROVE OpenEntry(k, v, p[x], p[p[x].father])
  <2>1. o[x].topenfile
    BY <1>2, <1>5, <1>8
  <2>2. o[x].father \in Fd /\ p[x].father = o[x].father
    BY <1>5, <2>1, Entries DEF TableInv
  <2>3. p[p[x].father].fcb.first = o[o[x].father].fcb.first
    BY <1>6, <2>2
  <2>4. OpenEntry(h, w, o[x], o[o[x].father])
    BY <2>1 DEF OpenInv
  <2> DEFINE c == o[x].fcb.first
             e == Entry(h, w.up[c], w.at[c])
  <2>5. c # Root /\ c \in v.heads /\ Entry(k, v.up[c], v.at[c]) = e
    <3>1. c # Root
      BY <2>4 DEF OpenEntry
    <3>2. c \in v.heads
      BY <1>1, <2>1 DEF OpenInv, OpenHead
    <3> QED
      BY <1>4, <3>1, <3>2
  <2>6. /\ w.up[c] = o[o[x].father].fcb.first /\ w.at[c] = o[x].diroff /\ SameButLength(o[x].fcb, e)
        /\ o[x].fcbstate \/ o[x].fcb.length \in {e.length, 0}
    BY <2>4 DEF OpenEntry
  <2>7. p[x].fcb.first = c /\ p[x].diroff = o[x].diroff
    BY <1>5, <1>6
  <2> HIDE DEF c, e
  <2>8. SameButLength(p[x].fcb, e) /\ (p[x].fcbstate \/ p[x].fcb.length \in {e.length, 0})
    <3>1. CASE x = cur
      BY <1>5, <2>6, <3>1, SameTrans
    <3>2. CASE x # cur
      BY <1>5, <2>6, <3>2
    <3> QED
      BY <3>1, <3>2
  <2> QED
    BY <1>1, <2>3, <2>5, <2>6, <2>7, <2>8 DEF OpenEntry
<1>9. \A x, y \in Fd : p[x].topenfile /\ p[y].topenfile /\ p[x].fcb.first = p[y].fcb.first => x = y
  <2>1. \A x \in Fd : p[x].topenfile => o[x].topenfile
    BY <1>2, <1>5
  <2> QED
    BY <1>6, <2>1 DEF OpenInv
<1>10. OpenAbove(p, cur) = v.above[p[cur].fcb.first]
  <2>1. {x \in Fd : p[x].topenfile /\ x # cur} = {x \in Fd : o[x].topenfile /\ x # cur}
    BY <1>5
  <2>2. OpenAbove(p, cur) = OpenAbove(o, cur)
    BY <1>6, <2>1 DEF OpenAbove
  <2> QED
    BY <1>1, <1>5, <2>2 DEF OpenInv
<1>11. ClosedLengths(k, p, v)
  <2>1. ASSUME NEW x \in w.heads \ {Root}, ~IsOpen(p, x) PROVE ~IsOpen(o, x) /\ x # g
    BY <1>2, <1>5, <1>6, <2>1 DEF IsOpen
  <2> QED
    BY <1>1, <1>4, <2>1 DEF OpenInv, ClosedLengths
<1> QED
  BY <1>7, <1>8, <1>9, <1>10, <1>11 DEF OpenInv

TextAt(k, q, v, g) ==
  /\ Len(q) = v.length[g] /\ v.length[g] <= Room(k, g)
  /\ \A p \in 0 .. v.length[g] - 1 : Cell(k, g, p) = <<"char", q[p + 1], 0>>

Retexted(txt, g, q) == [txt EXCEPT ![g] = q]

LEMMA TextResized ==
  ASSUME NEW h, NEW k, NEW txt, NEW w, DiscFiles(h, txt, w), NEW g \in w.heads \ w.dirs,
         NEW length \in Nat, NEW v, ResizedIs(w, v, g, length),
         \A x \in w.heads : x # g => Unmoved(h, k, x),
         NEW q \in Seq(Character), TextAt(k, q, v, g)
  PROVE  TextInv(k, Retexted(txt, g, q), v)
<1> DEFINE new == Retexted(txt, g, q)
<1>1. /\ v.heads = w.heads /\ v.dirs = w.dirs /\ \A x \in w.heads : x # g => v.length[x] = w.length[x]
  BY DEF ResizedIs
<1>2. txt \in [Block -> Seq(Character)] /\ w.heads \subseteq Block /\ w.dirs \subseteq w.heads
  BY DEF DiscFiles, TextInv, WitnessType
<1>3. new \in [Block -> Seq(Character)] /\ new[g] = q /\ \A x \in Block : x # g => new[x] = txt[x]
  BY <1>2 DEF Retexted
<1> HIDE DEF new
<1>4. ASSUME NEW x \in v.heads \ v.dirs PROVE TextAt(k, new[x], v, x)
  <2>1. CASE x = g
    BY <1>3, <2>1
  <2>2. CASE x # g
    <3>1. x \in w.heads \ w.dirs /\ Unmoved(h, k, x) /\ OneChain(h, x) /\ v.length[x] = w.length[x] /\ new[x] = txt[x]
      BY <1>1, <1>2, <1>3, <2>2, HeadFacts DEF DiscFiles, Heads
    <3>2. Room(k, x) = Room(h, x) /\ \A p \in 0 .. Room(h, x) - 1 : Cell(k, x, p) = Cell(h, x, p)
      BY <3>1, UnmovedCells
    <3>3. /\ Len(txt[x]) = w.length[x] /\ w.length[x] <= Room(h, x)
          /\ \A p \in 0 .. w.length[x] - 1 : Cell(h, x, p) = <<"char", txt[x][p + 1], 0>>
      BY <3>1 DEF DiscFiles, TextInv
    <3>4. w.length[x] \in Nat /\ Room(h, x) \in Nat
      BY <3>1, RoomFacts DEF DiscFiles, WitnessType
    <3>5. \A p \in 0 .. w.length[x] - 1 : p \in 0 .. Room(h, x) - 1
      BY <3>3, <3>4
    <3>6. \A p \in 0 .. w.length[x] - 1 : Cell(k, x, p) = <<"char", txt[x][p + 1], 0>>
      BY <3>2, <3>3, <3>5
    <3> QED
      BY <3>1, <3>2, <3>3, <3>6 DEF TextAt
  <2> QED
    BY <2>1, <2>2
<1>5. new \in [Block -> Seq(Character)]
  BY <1>3
<1> QED
  BY <1>4, <1>5 DEF TextInv, TextAt, new

LEMMA DiscResized ==
  ASSUME NEW h, NEW k, NEW txt, NEW w, DiscFiles(h, txt, w), NEW g \in w.heads \ w.dirs,
         NEW length \in Nat, NEW v, ResizedIs(w, v, g, length),
         \A x \in w.heads : x # g => Unmoved(h, k, x),
         NEW q \in Seq(Character), TextAt(k, q, v, g),
         ChainsInv(k, Heads(w)), LagInv(k, w),
         \A b \in Block : b >= FirstData /\ k.fat1[b] = FREE =>
           \/ h.fat1[b] = FREE /\ k.block[b] = h.block[b]
           \/ \A j \in Unit : ~Live(k.block[b][j]),
         \A p \in 0 .. Room(k, g) - 1 : ~Live(Cell(k, g, p)), w.orphans = {}
  PROVE  DiscFiles(k, Retexted(txt, g, q), v)
<1>1. /\ v.heads = w.heads /\ v.dirs = w.dirs /\ v.up = w.up /\ v.at = w.at /\ v.orphans = w.orphans
      /\ v.holes = w.holes /\ Fewer(w, v) /\ WitnessType(v)
  BY DEF ResizedIs, Fewer
<1>2. Heads(v) = Heads(w) /\ Heads(w) = w.heads
  BY <1>1 DEF Heads
<1>3. ChainsInv(k, Heads(v)) /\ LagInv(k, v)
  BY <1>1, <1>2 DEF LagInv
<1>4. UnitsInv(k, v)
  <2>1. UnitsInv(h, w) /\ ChainsInv(h, Heads(w))
    BY DEF DiscFiles
  <2>2. \A x \in Heads(v) :
           \/ x \in Heads(w) /\ Unmoved(h, k, x)
           \/ \A p \in 0 .. Room(k, x) - 1 : ~Live(Cell(k, x, p))
    BY <1>2
  <2>3. \A f, x : \A p \in Nat : AtPlace(w, f, x, p) => AtPlace(v, f, x, p) \/ <<x, p \div FCBSIZE>> \in v.holes
    BY <1>1 DEF AtPlace
  <2> QED
    BY <1>1, <2>1, <2>2, <2>3, UnitsStay
<1>5. PlacesInv(k, v) /\ SizesInv(k, v) /\ FilledInv(k, v) /\ AboveInv(v)
  <2>1. \A x \in v.dirs : Unmoved(h, k, x)
    BY <1>1 DEF WitnessType
  <2> QED
    BY <1>1, <2>1, TreeStays
<1>6. TextInv(k, Retexted(txt, g, q), v)
  BY TextResized
<1> QED
  BY <1>1, <1>3, <1>4, <1>5, <1>6 DEF DiscFiles

\* The file that is open.
LEMMA FileOpen ==
  ASSUME NEW s, NEW cur, NEW txt, NEW w, Filed(s, cur, txt, w), ~s.open[cur].fcb.directory,
         NEW g, g = s.open[cur].fcb.first
  PROVE  /\ g \in w.heads \ w.dirs /\ w.length[g] = s.open[cur].fcb.length /\ w.length[g] \in Nat
         /\ g \in Heads(w) /\ g \in Block /\ cur # 0 /\ cur \in Fd /\ s.open[cur].topenfile
         /\ \A x \in w.heads \ {Root} : w.up[x] # g
<1> DEFINE h == s.hard
           o == s.open
<1>1. /\ TableInv(o, cur) /\ FilesInv(h, o, cur, txt, w) /\ cur \in Fd /\ o[cur].topenfile
      /\ WitnessType(w) /\ PlacesInv(h, w) /\ cur # 0
  BY DEF Filed, Sound, FilesInv, TableInv, DiscFiles
<1> HIDE DEF h, o
<1>2. LET x == o[cur].fcb.first
      IN  /\ x \in w.heads /\ w.length[x] = o[cur].fcb.length
          /\ o[cur].fcb.directory <=> x \in w.dirs
          /\ x \in w.dirs \ w.raw => Filled(h, x)
  BY <1>1, OpenIsDir
<1>3. g \in w.heads \ w.dirs /\ w.length[g] = s.open[cur].fcb.length
  BY <1>2 DEF o
<1>4. w.length[g] \in Nat /\ g \in Block /\ g \in Heads(w)
  BY <1>1, <1>3 DEF WitnessType, Heads
<1>5. \A x \in w.heads \ {Root} : w.up[x] # g
  BY <1>1, <1>3 DEF PlacesInv
<1> QED
  BY <1>1, <1>3, <1>4, <1>5 DEF o

LEMMA FiledCut ==
  ASSUME NEW s, NEW cur, NEW txt, NEW w, Filed(s, cur, txt, w), AtRest(w), ~s.open[cur].fcb.directory,
         NEW g, g = s.open[cur].fcb.first, NEW t, t = Shortened(s, cur)
  PROVE  AtEase(t, cur, Retexted(txt, g, <<>>)) /\ t.open[cur].fcb.length = 0
<1> DEFINE h == s.hard
           o == s.open
           k == Cut(h, g)
           v == Resized(w, g, 0)
           X == Heads(w)
           f == [o[cur].fcb EXCEPT !.length = 0]
           e == [o[cur] EXCEPT !.fcb = f]
           p == [o EXCEPT ![cur] = e]
<1>1. /\ g \in w.heads \ w.dirs /\ w.length[g] \in Nat
      /\ g \in X /\ g \in Block /\ cur # 0 /\ cur \in Fd /\ o[cur].topenfile
      /\ \A x \in w.heads \ {Root} : w.up[x] # g
  BY FileOpen
<1>2. /\ TableInv(o, cur) /\ DiscFiles(h, txt, w) /\ DiscInv(h) /\ OpenInv(h, o, cur, w)
      /\ WitnessType(w) /\ AboveInv(w) /\ ChainsInv(h, X) /\ UnitsInv(h, w) /\ LagInv(h, w)
      /\ w.raw = {} /\ w.orphans = {} /\ w.holes = {} /\ Sound(s, cur) /\ s.broken = "no"
      /\ o \in [Fd -> OpenType]
  BY DEF Filed, Sound, FilesInv, TableInv, DiscFiles, AtRest
<1>3. ResizedIs(w, v, g, 0)
  BY <1>1, <1>2, ResizedFields
<1>4. Keeps(s, t, cur) /\ t.broken = "no" /\ t.hard = k /\ t.open = p
  <2> HIDE DEF p, k
  <2>1. LET u == Shortened(s, cur)
        IN  /\ Keeps(s, u, cur) /\ u.broken = "no" /\ u.open[cur].topenfile
            /\ u.hard = Cut(s.hard, s.open[cur].fcb.first)
            /\ u.open = [s.open EXCEPT ![cur] =
                           [s.open[cur] EXCEPT !.fcb = [s.open[cur].fcb EXCEPT !.length = 0]]]
    BY <1>1, <1>2, ShortenedTo
  <2> QED
    BY <2>1 DEF p, k
<1>5. Relength(o, p, cur, 0)
  <2>1. /\ e.fcb = f /\ e.diroff = o[cur].diroff /\ e.father = o[cur].father /\ e.topenfile = o[cur].topenfile
    <3> DEFINE c == o[cur]
    <3>1. c \in OpenType
      BY <1>1, <1>2, Entries
    <3> HIDE DEF c, f
    <3>2. LET r == [c EXCEPT !.fcb = f]
          IN  r.fcb = f /\ r.diroff = c.diroff /\ r.father = c.father /\ r.topenfile = c.topenfile
      BY <3>1 DEF OpenType
    <3>3. e = [c EXCEPT !.fcb = f]
      BY DEF c
    <3> QED
      BY <3>2, <3>3 DEF c
  <2>2. SameButLength(f, o[cur].fcb) /\ f.length = 0
    <3>1. o[cur].fcb \in FcbType
      BY <1>1, <1>2, Entries
    <3> QED
      BY <3>1 DEF FcbType, SameButLength
  <2> HIDE DEF e, f
  <2>3. p[cur] = e /\ \A x \in Fd : x # cur => p[x] = o[x]
    BY <1>1, <1>2
  <2> QED
    BY <1>1, <2>1, <2>2, <2>3 DEF Relength
<1>6. t.open[cur].fcb.length = 0
  BY <1>4, <1>5 DEF Relength
<1> HIDE DEF X, k, v, p, h, o
<1>7. /\ ChainsInv(k, X) /\ Chain(k, g) = <<g>> /\ \A x \in X : x # g => Unmoved(h, k, x)
      /\ Refatted(h, k) /\ k.fat1[g] = END /\ k.fat2[g] = END
      /\ \A b \in ToSet(Chain(h, g)) : b # g => k.fat1[b] = FREE /\ k.fat2[b] = FREE
      /\ \A b \in Block : b \notin ToSet(Chain(h, g)) => k.fat1[b] = h.fat1[b] /\ k.fat2[b] = h.fat2[b]
  <2>1. CutShort(h, k, X, g)
    BY <1>1, <1>2, CutChains DEF k
  <2> QED
    BY <2>1 DEF CutShort, ShortFats
<1>8. k.block = h.block
  BY <1>2, <1>7, RefattedKeeps
<1>9. /\ \A b \in ToSet(Chain(h, g)), j \in Unit : ~Live(h.block[b][j])
      /\ g \in ToSet(Chain(h, g))
  <2>1. g \in Heads(w) /\ ChainsInv(h, Heads(w))
    BY <1>1, <1>2 DEF X
  <2>2. \A b \in ToSet(Chain(h, g)), j \in Unit : ~Live(h.block[b][j])
    BY <1>1, <1>2, <2>1, NoneLive
  <2>3. g \in ToSet(Chain(h, g))
    BY <2>1, ChainsFacts
  <2> QED
    BY <2>2, <2>3
<1>10. LagInv(k, w)
  <2> SUFFICES ASSUME NEW b \in Block, k.fat1[b] # k.fat2[b]
               PROVE  k.fat1[b] = END /\ k.fat2[b] = FREE /\ b \in Heads(w) \ w.dirs
    BY DEF LagInv
  <2>1. b \notin ToSet(Chain(h, g))
    BY <1>7
  <2>2. k.fat1[b] = h.fat1[b] /\ k.fat2[b] = h.fat2[b]
    BY <1>7, <2>1
  <2> QED
    BY <1>2, <2>2 DEF LagInv
<1>11. \A b \in Block : b >= FirstData /\ k.fat1[b] = FREE =>
           \/ h.fat1[b] = FREE /\ k.block[b] = h.block[b]
           \/ \A j \in Unit : ~Live(k.block[b][j])
  BY <1>7, <1>8, <1>9
<1>12. Room(k, g) = BLOCKSIZE /\ \A j \in 0 .. Room(k, g) - 1 : ~Live(Cell(k, g, j))
  <2>1. BLOCKSIZE \in Nat /\ BLOCKSIZE > 0
    BY Sizes
  <2>2. Len(<<g>>) = 1 /\ <<g>>[1] = g /\ 1 * BLOCKSIZE = BLOCKSIZE
    BY <2>1
  <2>3. Room(k, g) = BLOCKSIZE
    BY <1>7, <2>2 DEF Room
  <2>4. ASSUME NEW j \in 0 .. Room(k, g) - 1 PROVE ~Live(Cell(k, g, j))
    <3>1. j \in Nat /\ j < BLOCKSIZE
      BY <2>1, <2>3
    <3>2. j \div BLOCKSIZE = 0 /\ j % BLOCKSIZE = j
      BY <2>1, <3>1, SmallQuotient
    <3>3. Cell(k, g, j) = k.block[g][j]
      BY <1>7, <2>2, <3>2 DEF Cell
    <3>4. j \in Unit
      BY <2>1, <2>3 DEF Unit
    <3> QED
      BY <1>8, <1>9, <3>3, <3>4
  <2> QED
    BY <2>3, <2>4
<1>13. <<>> \in Seq(Character) /\ TextAt(k, <<>>, v, g)
  <2>1. v.length[g] = 0
    BY <1>3 DEF ResizedIs
  <2>2. 0 <= Room(k, g)
    BY <1>12, Sizes
  <2>3. \A j \in 0 .. 0 - 1 : FALSE
    OBVIOUS
  <2>4. Len(<<>>) = 0
    OBVIOUS
  <2> QED
    BY <2>1, <2>2, <2>3, <2>4 DEF TextAt
<1>14. \A x \in w.heads : x # g => Unmoved(h, k, x)
  BY <1>7 DEF X, Heads
<1>15. DiscFiles(k, Retexted(txt, g, <<>>), v)
  <2>1. ChainsInv(k, Heads(w))
    BY <1>7 DEF X
  <2>2. 0 \in Nat
    OBVIOUS
  <2> QED
    BY <1>1, <1>2, <1>3, <1>10, <1>11, <1>12, <1>13, <1>14, <2>1, <2>2, DiscResized
<1>16. OpenInv(k, p, cur, v)
  <2>1. g = o[cur].fcb.first /\ 0 \in Nat
    BY DEF o
  <2> QED
    BY <1>1, <1>2, <1>3, <1>5, <1>14, <2>1, OpenResized
<1>17. Filed(t, cur, Retexted(txt, g, <<>>), v)
  BY <1>4, <1>15, <1>16 DEF Filed, FilesInv, Keeps
<1>18. AtRest(v)
  BY <1>2, <1>3 DEF ResizedIs, AtRest
<1> QED
  BY <1>6, <1>17, <1>18 DEF AtEase

\* The units that a line becomes.
CharsAre(line, units) ==
  /\ Writable(units) /\ Len(units) = Len(line) /\ Len(line) \in Nat /\ Len(line) >= 1
  /\ \A i \in 1 .. Len(line) : units[i] = <<"char", line[i], 0>> /\ line[i] \in Character

LEMMA CharsFacts ==
  ASSUME NEW line \in Lines \union {<<>>}, line # <<>>
  PROVE  CharsAre(line, Chars(line))
<1>1. Writable(Chars(line))
  BY CharsWritable
<1>2. line \in Seq(ToSet(line)) /\ line \in Lines
  BY FileSystemAssumption
<1>3. Len(line) \in Nat /\ Len(line) >= 1 /\ DOMAIN line = 1 .. Len(line)
  BY <1>2
<1>4. \A i \in 1 .. Len(line) : line[i] \in ToSet(line)
  BY <1>2
<1>5. \A i \in 1 .. Len(line) : line[i] \in Character
  BY <1>2, <1>4 DEF Character
<1>6. Chars(line) = [i \in 1 .. Len(line) |-> <<"char", line[i], 0>>]
  BY <1>3 DEF Chars
<1>7. Len(Chars(line)) = Len(line)
  BY <1>3, <1>6
<1> QED
  BY <1>1, <1>3, <1>5, <1>6, <1>7 DEF CharsAre

\* What the file's text is to be: the line over the old text from count on.
Overlaid(old, line, count, length, q) ==
  /\ q \in Seq(Character) /\ Len(q) = NewLength(length, count + Len(line))
  /\ \A p \in 0 .. Len(q) - 1 :
       q[p + 1] = IF p \in count .. count + Len(line) - 1 THEN line[p - count + 1] ELSE old[p + 1]

\* The chain of a file that do_write() wrote to.
WrittenFile(s, t, cur, w, g, count, units, n) ==
  /\ Sound(t, cur) /\ t.broken = "no" /\ Relength(s.open, t.open, cur, n)
  /\ ChainWritten(s.hard, t.hard, g, count, units)
  /\ ChainsInv(t.hard, Heads(w)) /\ LagInv(t.hard, w)
  /\ \A x \in Heads(w) : x # g => Unmoved(s.hard, t.hard, x)
  /\ \A b \in Block : t.hard.fat1[b] = FREE => s.hard.fat1[b] = FREE /\ t.hard.block[b] = s.hard.block[b]

LEMMA FileWritten ==
  ASSUME NEW s, NEW cur, NEW txt, NEW w, Filed(s, cur, txt, w), ~s.open[cur].fcb.directory,
         NEW g, g = s.open[cur].fcb.first, NEW count \in Nat, NEW units, Writable(units),
         NEW t, t = do_write(s, cur, count, units), t.broken = "no",
         NEW n, n = NewLength(s.open[cur].fcb.length, count + Len(units))
  PROVE  WrittenFile(s, t, cur, w, g, count, units, n)
<1> DEFINE h == s.hard
           k == t.hard
           o == s.open
           X == Heads(w)
<1>1. g \in X /\ cur # 0 /\ cur \in Fd /\ o[cur].topenfile
  BY FileOpen
<1>2. /\ Sound(s, cur) /\ s.broken = "no" /\ ChainsInv(h, X) /\ LagInv(h, w) /\ o \in [Fd -> OpenType]
  BY DEF Filed, Sound, FilesInv, TableInv, DiscFiles
<1>3. OneChain(h, g)
  BY <1>1, <1>2, ChainsFacts
<1>4. ChainWritten(h, k, g, count, units) /\ t.open = Enter(o, cur, n)
  <2>1. LET u == do_write(s, cur, count, units)
        IN  /\ ChainWritten(s.hard, u.hard, s.open[cur].fcb.first, count, units)
            /\ u.open = Enter(s.open, cur, NewLength(s.open[cur].fcb.length, count + Len(units)))
    BY <1>1, <1>2, <1>3, WriteLeaves
  <2> QED
    BY <2>1
<1>5. Sound(t, cur)
  <2>1. KeepsRoot(cur, count, units)
    BY <1>1 DEF KeepsRoot
  <2>2. LET u == do_write(s, cur, count, units)
        IN  Sound(u, cur) /\ (u.broken = "no" => Wrote(s, u, cur, count, units))
    BY <1>1, <1>2, <2>1, WriteTo
  <2> QED
    BY <2>2
<1>6. Relength(o, t.open, cur, n)
  <2> DEFINE p == Enter(o, cur, n)
  <2>1. /\ \A x \in Fd : /\ SameButLength(p[x].fcb, o[x].fcb) /\ p[x].fcb.first = o[x].fcb.first
                              /\ p[x].diroff = o[x].diroff /\ p[x].father = o[x].father
                              /\ p[x].topenfile = o[x].topenfile
        /\ \A x \in Fd : x # cur => p[x] = o[x]
        /\ p[cur].fcb.length = n /\ p[cur].fcbstate
    BY <1>1, <1>2, EnteredFields
  <2> HIDE DEF p
  <2>2. Relength(o, p, cur, n)
    BY <1>1, <2>1 DEF Relength
  <2> QED
    BY <1>4, <2>2 DEF p
<1> HIDE DEF h, k, o, X
<1>7. /\ ChainsInv(k, X) /\ \A x \in X : x # g => Unmoved(h, k, x)
      /\ \A b \in Block : k.fat1[b] = FREE => h.fat1[b] = FREE /\ k.block[b] = h.block[b]
  BY <1>1, <1>2, <1>4, WrittenChains
<1>8. LagInv(k, w)
  <2>1. \A b \in Block : (k.fat1[b] = h.fat1[b] /\ k.fat2[b] = h.fat2[b]) \/ k.fat1[b] = k.fat2[b]
    BY <1>4 DEF ChainWritten
  <2> QED
    BY <1>2, <2>1 DEF LagInv
<1> QED
  BY <1>4, <1>5, <1>6, <1>7, <1>8 DEF WrittenFile, h, k, o, X

LEMMA WrittenText ==
  ASSUME NEW h, NEW k, NEW txt, NEW w, DiscFiles(h, txt, w), NEW g \in w.heads \ w.dirs,
         NEW count \in Nat, count <= w.length[g], NEW line, NEW units, CharsAre(line, units),
         ChainWritten(h, k, g, count, units),
         NEW n, n = NewLength(w.length[g], count + Len(line)), NEW v, ResizedIs(w, v, g, n),
         NEW q, Overlaid(txt[g], line, count, w.length[g], q)
  PROVE  n \in Nat /\ TextAt(k, q, v, g)
<1> DEFINE L == Len(line)
           m == w.length[g]
<1>1. /\ L \in Nat /\ L >= 1 /\ Len(units) = L
      /\ \A i \in 1 .. L : units[i] = <<"char", line[i], 0>>
  BY DEF CharsAre
<1>2. m \in Nat /\ OneChain(h, g)
  BY HeadFacts DEF DiscFiles, WitnessType, Heads
<1>3. /\ Len(txt[g]) = m /\ m <= Room(h, g)
      /\ \A p \in 0 .. m - 1 : Cell(h, g, p) = <<"char", txt[g][p + 1], 0>>
  BY DEF DiscFiles, TextInv
<1>4. /\ OneChain(k, g) /\ Len(Chain(k, g)) >= Len(Chain(h, g)) /\ count + L <= Room(k, g)
      /\ \A p \in 0 .. Room(k, g) - 1 : WrittenCell(h, k, g, count, units, p)
  BY <1>1 DEF ChainWritten
<1> HIDE DEF L, m
<1>5. Room(h, g) \in Nat /\ Room(k, g) \in Nat /\ Room(h, g) <= Room(k, g)
  <2>1. Room(h, g) \in Nat /\ Room(k, g) \in Nat
    BY <1>2, <1>4, RoomFacts
  <2>2. Len(Chain(h, g)) \in Nat /\ Len(Chain(k, g)) \in Nat /\ BLOCKSIZE \in Nat
    BY <1>2, <1>4, ChainFacts, Sizes
  <2>3. Len(Chain(h, g)) * BLOCKSIZE <= Len(Chain(k, g)) * BLOCKSIZE
    BY <1>4, <2>2, Times
  <2> QED
    BY <2>1, <2>3 DEF Room
<1>6. n \in Nat /\ n = (IF m > count + L THEN m ELSE count + L)
  <2>1. count + L \in Nat
    BY <1>1
  <2>2. NewLength(m, count + L) = IF m > count + L THEN m ELSE count + L
    BY <1>2, <2>1, Max2 DEF NewLength
  <2> QED
    BY <1>2, <2>1, <2>2 DEF m, L
<1>7. n <= Room(k, g)
  BY <1>1, <1>2, <1>3, <1>4, <1>5, <1>6
<1>8. v.length[g] = n /\ Len(q) = n
  BY DEF ResizedIs, Overlaid
<1>9. ASSUME NEW p \in 0 .. n - 1 PROVE Cell(k, g, p) = <<"char", q[p + 1], 0>>
  <2>1. q[p + 1] = IF p \in count .. count + L - 1 THEN line[p - count + 1] ELSE txt[g][p + 1]
    BY <1>8 DEF Overlaid, L
  <2>2. WrittenCell(h, k, g, count, units, p)
    BY <1>4, <1>5, <1>6, <1>7
  <2>3. CASE p \in count .. count + L - 1
    <3>1. p - count + 1 \in 1 .. L
      BY <1>1, <2>3
    <3>2. Cell(k, g, p) = units[p - count + 1]
      BY <1>1, <2>2, <2>3 DEF WrittenCell
    <3> QED
      BY <1>1, <2>1, <2>3, <3>1, <3>2
  <2>4. CASE p \notin count .. count + L - 1
    <3>1. p \in 0 .. m - 1
      BY <1>1, <1>2, <1>6, <2>4 DEF m
    <3>2. p < Room(h, g)
      BY <1>2, <1>3, <1>5, <3>1
    <3>3. Cell(k, g, p) = Cell(h, g, p)
      BY <1>1, <2>2, <2>4, <3>2 DEF WrittenCell
    <3> QED
      BY <1>3, <2>1, <2>4, <3>1, <3>3
  <2> QED
    BY <2>3, <2>4
<1> QED
  BY <1>6, <1>7, <1>8, <1>9 DEF TextAt

LEMMA WrittenNotLive ==
  ASSUME NEW h, NEW k, NEW w, UnitsInv(h, w), ChainsInv(h, Heads(w)), NEW g \in Heads(w), w.holes = {},
         \A x \in w.heads \ {Root} : w.up[x] # g,
         NEW count \in Nat, NEW line, NEW units, CharsAre(line, units), ChainWritten(h, k, g, count, units)
  PROVE  \A p \in 0 .. Room(k, g) - 1 : ~Live(Cell(k, g, p))
<1> SUFFICES ASSUME NEW p \in 0 .. Room(k, g) - 1
             PROVE  ~Live(Cell(k, g, p))
  OBVIOUS
<1>1. WrittenCell(h, k, g, count, units, p)
  BY DEF ChainWritten
<1>2. OneChain(h, g) /\ OneChain(k, g)
  BY ChainsFacts DEF ChainWritten
<1>3. Room(h, g) \in Nat /\ Room(k, g) \in Nat
  BY <1>2, RoomFacts
<1>4. CASE p \in count .. count + Len(units) - 1
  <2>1. Len(units) \in Nat /\ Len(units) = Len(line)
    BY DEF CharsAre
  <2>2. p - count + 1 \in 1 .. Len(line)
    BY <1>4, <2>1
  <2>3. Cell(k, g, p) = <<"char", line[p - count + 1], 0>>
    BY <1>1, <1>4, <2>2 DEF WrittenCell, CharsAre
  <2> QED
    BY <2>3 DEF Live
<1>5. CASE p \notin count .. count + Len(units) - 1 /\ p < Room(h, g)
  <2>1. Cell(k, g, p) = Cell(h, g, p)
    BY <1>1, <1>5 DEF WrittenCell
  <2>2. p \in 0 .. Room(h, g) - 1
    BY <1>3, <1>5
  <2> QED
    BY <2>1, <2>2, NoneLive
<1>6. CASE p \notin count .. count + Len(units) - 1 /\ ~(p < Room(h, g))
  <2>1. PICK b \in FreeBlocks(h), j \in Unit : Cell(k, g, p) = h.block[b][j]
    BY <1>1, <1>6 DEF WrittenCell
  <2>2. b \in Block /\ b >= FirstData /\ h.fat1[b] = FREE
    BY Sizes DEF FreeBlocks, Block
  <2> QED
    BY <2>1, <2>2 DEF UnitsInv
<1> QED
  BY <1>4, <1>5, <1>6

LEMMA FiledWrite ==
  ASSUME NEW s, NEW cur, NEW txt, NEW w, Filed(s, cur, txt, w), AtRest(w), ~s.open[cur].fcb.directory,
         NEW g, g = s.open[cur].fcb.first, NEW count \in Nat, count <= s.open[cur].fcb.length,
         NEW line \in Lines \union {<<>>}, line # <<>>,
         NEW t, t = do_write(s, cur, count, Chars(line)), t.broken = "no",
         NEW q, Overlaid(txt[g], line, count, s.open[cur].fcb.length, q)
  PROVE  AtEase(t, cur, Retexted(txt, g, q))
<1> DEFINE h == s.hard
           k == t.hard
           o == s.open
           n == NewLength(w.length[g], count + Len(line))
           v == Resized(w, g, n)
           units == Chars(line)
<1>1. /\ g \in w.heads \ w.dirs /\ w.length[g] = o[cur].fcb.length /\ w.length[g] \in Nat /\ g \in Heads(w)
      /\ \A x \in w.heads \ {Root} : w.up[x] # g
  BY FileOpen
<1>2. /\ TableInv(o, cur) /\ DiscFiles(h, txt, w) /\ OpenInv(h, o, cur, w)
      /\ WitnessType(w) /\ AboveInv(w) /\ ChainsInv(h, Heads(w)) /\ UnitsInv(h, w)
      /\ w.raw = {} /\ w.orphans = {} /\ w.holes = {}
  BY DEF Filed, Sound, FilesInv, TableInv, DiscFiles, AtRest
<1>3. CharsAre(line, units) /\ Writable(units) /\ Len(units) = Len(line)
  BY CharsFacts DEF CharsAre
<1>4. WrittenFile(s, t, cur, w, g, count, units, n)
  <2>1. n = NewLength(s.open[cur].fcb.length, count + Len(units))
    BY <1>1, <1>3
  <2> HIDE DEF n, units
  <2>2. t = do_write(s, cur, count, units)
    BY DEF units
  <2> QED
    BY <1>3, <2>1, <2>2, FileWritten
<1>5. Overlaid(txt[g], line, count, w.length[g], q) /\ count <= w.length[g] /\ g = o[cur].fcb.first
      /\ q \in Seq(Character)
  BY <1>1 DEF Overlaid
<1>6. n \in Nat
  <2>1. count + Len(line) \in Nat
    BY <1>3 DEF CharsAre
  <2> QED
    BY <1>1, <2>1, Max2 DEF NewLength
<1>7. ResizedIs(w, v, g, n)
  BY <1>1, <1>2, <1>6, ResizedFields
<1>8. n = NewLength(w.length[g], count + Len(line))
  OBVIOUS
<1> HIDE DEF h, k, o, n, v, units
<1>9. /\ Sound(t, cur) /\ t.broken = "no" /\ Relength(o, t.open, cur, n)
      /\ ChainWritten(h, k, g, count, units) /\ ChainsInv(k, Heads(w)) /\ LagInv(k, w)
      /\ \A x \in Heads(w) : x # g => Unmoved(h, k, x)
      /\ \A b \in Block : k.fat1[b] = FREE => h.fat1[b] = FREE /\ k.block[b] = h.block[b]
  BY <1>4 DEF WrittenFile, h, k, o
<1>10. TextAt(k, q, v, g)
  BY <1>1, <1>2, <1>3, <1>5, <1>7, <1>8, <1>9, WrittenText
<1>11. \A p \in 0 .. Room(k, g) - 1 : ~Live(Cell(k, g, p))
  BY <1>1, <1>2, <1>3, <1>9, WrittenNotLive
<1>12. \A x \in w.heads : x # g => Unmoved(h, k, x)
  BY <1>9 DEF Heads
<1>13. \A b \in Block : b >= FirstData /\ k.fat1[b] = FREE =>
           \/ h.fat1[b] = FREE /\ k.block[b] = h.block[b]
           \/ \A j \in Unit : ~Live(k.block[b][j])
  BY <1>9
<1>14. DiscFiles(k, Retexted(txt, g, q), v)
  BY <1>1, <1>2, <1>5, <1>6, <1>7, <1>9, <1>10, <1>11, <1>12, <1>13, DiscResized
<1>15. OpenInv(k, t.open, cur, v)
  BY <1>1, <1>2, <1>5, <1>6, <1>7, <1>9, <1>12, OpenResized
<1>16. Filed(t, cur, Retexted(txt, g, q), v)
  BY <1>9, <1>14, <1>15 DEF Filed, FilesInv, k
<1>17. AtRest(v)
  BY <1>2, <1>7 DEF ResizedIs, AtRest
<1> QED
  BY <1>16, <1>17 DEF AtEase

\* What the commands do to the files: my_open() and my_close().
LEMMA EaseOpen ==
  ASSUME NEW s, NEW cur, NEW txt, AtEase(s, cur, txt), s.open[cur].fcb.directory,
         NEW name \in Given, NEW ex, NEW o, o = OpenAs(s, cur, name, ex), o.s.broken = "no"
  PROVE  AtEase(o.s, IF o.fd = -1 THEN cur ELSE o.fd, txt)
<1>1. PICK w : Filed(s, cur, txt, w) /\ AtRest(w)
  BY DEF AtEase
<1>2. Sound(s, cur) /\ s.broken = "no" /\ w.holes = {}
  BY <1>1 DEF Filed, AtRest
<1>3. OpenResult(s, o, cur, name, ex)
  BY <1>2, OpenTo
<1>4. CASE o.fd = -1
  <2>1. o.s = s
    BY <1>3, <1>4 DEF OpenResult
  <2> QED
    BY <1>4, <2>1
<1>5. CASE o.fd # -1
  <2> DEFINE t == o.s
             fd == o.fd
  <2>1. /\ OpenedTo(s, t, cur, fd, Min(Matches(Dir(s, cur), name, ex)))
        /\ Matches(Dir(s, cur), name, ex) # {} /\ ~Blocked(s.open, cur, name, ex)
    BY <1>3, <1>5 DEF OpenResult
  <2> HIDE DEF t, fd
  <2>2. FiledAs(s, t, cur, fd, txt, w)
    BY <1>1, <1>2, <2>1, FiledOpen
  <2>3. AtEase(t, fd, txt)
    BY <1>1, <2>2 DEF FiledAs, AtEase
  <2> QED
    BY <1>5, <2>3 DEF t, fd
<1> QED
  BY <1>4, <1>5

\* my_close() leaves the tree of files as it is.
ClosedAs(s, c, cur, txt, w) ==
  Filed(c.s, c.fd, txt, w) /\ c.fd = s.open[cur].father /\ OthersStay(s, c.s, cur)

LEMMA CloseFiled ==
  ASSUME NEW s, NEW cur, NEW txt, NEW w, Filed(s, cur, txt, w), AtRest(w), cur # 0,
         NEW c, c = my_close(s, cur), c.s.broken = "no"
  PROVE  ClosedAs(s, c, cur, txt, w)
<1>1. s.open[cur].fcbstate
  <2>1. SUFFICES ASSUME ~s.open[cur].fcbstate PROVE FALSE
    OBVIOUS
  <2>2. StateFields(s)
    BY DEF Filed, Sound
  <2>3. StateFields(Release(s, cur))
    BY <2>2, ReleaseBroken
  <2> DEFINE why == "father"
             r == Release(s, cur)
  <2>4. c.s = Break(r, why)
    BY <2>1 DEF my_close
  <2>5. why # "no"
    OBVIOUS
  <2> HIDE DEF why, r
  <2>6. Break(r, why).broken = why
    BY <2>3, Broke DEF r
  <2> QED
    BY <2>4, <2>5, <2>6
<1>2. c.s = Release(s, cur) /\ c.fd = s.open[cur].father
  BY <1>1 DEF my_close
<1>3. w.holes = {}
  BY DEF AtRest
<1>4. /\ Filed(Release(s, cur), s.open[cur].father, txt, w)
      /\ OthersStay(s, Release(s, cur), cur)
  BY <1>1, <1>2, <1>3, FiledRelease
<1> QED
  BY <1>2, <1>4 DEF ClosedAs

LEMMA EaseClose ==
  ASSUME NEW s, NEW cur, NEW txt, AtEase(s, cur, txt), cur # 0,
         NEW c, c = my_close(s, cur), c.s.broken = "no"
  PROVE  AtEase(c.s, c.fd, txt)
<1>1. PICK w : Filed(s, cur, txt, w) /\ AtRest(w)
  BY SMTT(30) DEF AtEase
<1> QED
  BY <1>1, CloseFiled DEF ClosedAs, AtEase

\* How deep the current directory is.
DeepIn(s, cur, w) == w.depth[s.open[cur].fcb.first]

LEMMA LessDeep ==
  ASSUME NEW s, NEW cur, NEW txt, NEW w, Filed(s, cur, txt, w), AtRest(w), cur # 0,
         NEW c, c = my_close(s, cur), c.s.broken = "no"
  PROVE  /\ DeepIn(s, cur, w) \in Nat /\ DeepIn(c.s, c.fd, w) \in Nat
         /\ DeepIn(c.s, c.fd, w) < DeepIn(s, cur, w)
<1> DEFINE o == s.open
           g == o[cur].fcb.first
           d == o[cur].father
<1>1. Filed(c.s, c.fd, txt, w) /\ c.fd = d /\ OthersStay(s, c.s, cur)
  BY CloseFiled DEF ClosedAs
<1>2. /\ TableInv(o, cur) /\ OpenInv(s.hard, o, cur, w) /\ WitnessType(w) /\ AboveInv(w) /\ PlacesInv(s.hard, w)
      /\ FilesInv(s.hard, o, cur, txt, w)
  BY DEF Filed, Sound, FilesInv, DiscFiles
<1>3. cur \in Fd /\ o[cur].topenfile /\ d \in Fd /\ o[d].topenfile
  BY <1>2, Entries, SMTT(30) DEF TableInv
<1>4. /\ g \in w.heads \ {Root} /\ w.up[g] = o[d].fcb.first
  <2>1. OpenHead(s.hard, w, o[cur].fcb) /\ OpenEntry(s.hard, w, o[cur], o[d])
    BY <1>2, <1>3, SMTT(30) DEF OpenInv
  <2> QED
    BY <2>1 DEF OpenHead, OpenEntry
<1>5. w.depth[w.up[g]] < w.depth[g] /\ w.depth[g] \in Nat /\ w.depth[w.up[g]] \in Nat
  <2>1. w.up[g] \in w.above[g]
    BY <1>2, <1>4 DEF AboveInv
  <2>2. w.up[g] \in w.dirs /\ w.dirs \subseteq w.heads /\ w.heads \subseteq Block
    BY <1>2, <1>4 DEF PlacesInv, WitnessType
  <2> QED
    BY <1>2, <1>4, <2>1, <2>2 DEF AboveInv, WitnessType
<1>6. c.s.open[d].fcb.first = o[d].fcb.first
  <2>1. d # cur
    BY <1>2, <1>3 DEF TableInv
  <2> QED
    BY <1>1, <1>3, <2>1 DEF OthersStay, SameButLength
<1> QED
  BY <1>1, <1>4, <1>5, <1>6 DEF DeepIn

LEMMA EaseCloseAll ==
  ASSUME NEW s, NEW cur, NEW txt, AtEase(s, cur, txt),
         NEW c, c = CloseAll(s, cur), c.s.broken = "no"
  PROVE  AtEase(c.s, c.fd, txt) /\ c.fd = 0
<1>1. PICK w : Filed(s, cur, txt, w) /\ AtRest(w)
  BY DEF AtEase
<1> DEFINE Deep(p, k) == p.fd = 0 \/ DeepIn(p.s, p.fd, w) + k <= MAXOPENFILE
           Good(p) == Filed(p.s, p.fd, txt, w) /\ DeepIn(p.s, p.fd, w) \in Nat
           Step(p, k) == p.s.broken = "no" => Good(p) /\ Deep(p, k)
<1>2. PICK r : /\ r[0] = [s |-> s, fd |-> cur]
               /\ \A k \in 1 .. MAXOPENFILE : r[k] = CloseNext(r[k - 1])
               /\ CloseAll(s, cur) = r[MAXOPENFILE]
  BY CloseAllFound
<1>3. MAXOPENFILE \in Nat
  BY Sizes
<1>4. r[0].s = s /\ r[0].fd = cur
  BY <1>2
<1>5. Good(r[0]) /\ Deep(r[0], 0)
  <2> DEFINE g == s.open[cur].fcb.first
  <2>1. /\ TableInv(s.open, cur) /\ OpenInv(s.hard, s.open, cur, w) /\ WitnessType(w) /\ AboveInv(w)
    BY <1>1 DEF Filed, Sound, FilesInv, DiscFiles
  <2>2. cur \in Fd /\ s.open[cur].topenfile
    BY <2>1 DEF TableInv
  <2>3. g \in w.heads /\ g \in Block
    BY <2>1, <2>2 DEF OpenInv, OpenHead, WitnessType
  <2>4. w.depth[g] \in Nat
    BY <2>1, <2>3 DEF WitnessType
  <2>5. CASE g = Root
    <3>1. cur = 0
      BY <2>1, <2>2, <2>5, OpenFirst
    <3> QED
      BY <1>1, <1>4, <2>4, <3>1 DEF DeepIn
  <2>6. CASE g # Root
    <3>1. w.depth[g] <= MAXOPENFILE
      BY <2>1, <2>3, <2>6 DEF AboveInv
    <3> QED
      BY <1>1, <1>3, <1>4, <2>4, <3>1 DEF DeepIn
  <2> QED
    BY <2>5, <2>6
<1> DEFINE S == {k \in 0 .. MAXOPENFILE : Step(r[k], k)}
<1>6. ASSUME NEW k \in 1 .. MAXOPENFILE, k - 1 \in S
      PROVE  k \in S
  <2> DEFINE p == r[k - 1]
             q == r[k]
             j == k - 1
  <2>1. q = CloseNext(p) /\ Step(p, j) /\ j \in Nat /\ k = j + 1 /\ k \in 0 .. MAXOPENFILE
    BY <1>2, <1>3, <1>6
  <2> HIDE DEF p, q, j
  <2>2. CASE p.s.broken # "no"
    <3>1. q = p
      BY <2>1, <2>2 DEF CloseNext
    <3> QED
      BY <2>1, <2>2, <3>1 DEF q
  <2>3. CASE p.s.broken = "no" /\ p.fd = 0
    <3>1. q = p
      BY <2>1, <2>3 DEF CloseNext
    <3> QED
      BY <2>1, <2>3, <3>1 DEF q
  <2>4. CASE p.s.broken = "no" /\ p.fd # 0
    <3>1. q = my_close(p.s, p.fd) /\ Good(p) /\ Deep(p, j)
      BY <2>1, <2>4 DEF CloseNext
    <3>2. ASSUME q.s.broken = "no" PROVE Good(q) /\ Deep(q, k)
      <4> DEFINE s1 == p.s
                 cur1 == p.fd
      <4>1. /\ Filed(s1, cur1, txt, w) /\ AtRest(w) /\ cur1 # 0
            /\ q = my_close(s1, cur1) /\ q.s.broken = "no"
            /\ DeepIn(s1, cur1, w) + j <= MAXOPENFILE
        BY <1>1, <2>4, <3>1, <3>2
      <4> HIDE DEF s1, cur1
      <4>2. Filed(q.s, q.fd, txt, w)
        BY <4>1, CloseFiled DEF ClosedAs
      <4>3. /\ DeepIn(s1, cur1, w) \in Nat /\ DeepIn(q.s, q.fd, w) \in Nat
            /\ DeepIn(q.s, q.fd, w) < DeepIn(s1, cur1, w)
        BY <4>1, LessDeep
      <4> QED
        BY <1>3, <2>1, <4>1, <4>2, <4>3
    <3> HIDE DEF Good, Deep
    <3>3. Step(q, k)
      BY <3>2
    <3> QED
      BY <2>1, <3>3 DEF q
  <2> QED
    BY <2>2, <2>3, <2>4
<1>7. \A k \in 0 .. MAXOPENFILE : k \in S
  <2>1. 0 \in S
    BY <1>3, <1>5
  <2> HIDE DEF S
  <2> QED
    BY <1>3, <1>6, <2>1, Induction
<1>8. Step(c, MAXOPENFILE)
  BY <1>2, <1>3, <1>7
<1>9. Filed(c.s, c.fd, txt, w) /\ DeepIn(c.s, c.fd, w) \in Nat
      /\ (c.fd = 0 \/ DeepIn(c.s, c.fd, w) + MAXOPENFILE <= MAXOPENFILE)
  BY <1>8
<1> HIDE DEF Step, Good, Deep, S
<1>10. c.fd = 0
  <2> SUFFICES ASSUME c.fd # 0 PROVE FALSE
    OBVIOUS
  <2> DEFINE g == c.s.open[c.fd].fcb.first
             o == c.s.open
             x == c.fd
  <2>1. /\ TableInv(o, x) /\ OpenInv(c.s.hard, o, x, w) /\ WitnessType(w) /\ AboveInv(w) /\ PlacesInv(c.s.hard, w)
    BY <1>9 DEF Filed, Sound, FilesInv, DiscFiles
  <2>2. x \in Fd /\ o[x].topenfile
    BY <2>1, SMTT(30) DEF TableInv
  <2>3. g \in w.heads \ {Root}
    BY <2>1, <2>2, ZenonT(40) DEF OpenInv, OpenHead, OpenEntry
  <2>4. w.depth[g] = 0
    BY <1>3, <1>9 DEF DeepIn
  <2>5. w.up[g] \in w.above[g]
    BY <2>1, <2>3 DEF AboveInv
  <2>6. w.up[g] \in w.dirs /\ w.dirs \subseteq w.heads /\ w.heads \subseteq Block
    BY <2>1, <2>3 DEF PlacesInv, WitnessType
  <2> HIDE DEF g, o, x
  <2>7. w.depth[w.up[g]] < w.depth[g] /\ w.depth[w.up[g]] \in Nat
    BY <2>1, <2>3, <2>5, <2>6 DEF AboveInv, WitnessType
  <2> DEFINE n == w.depth[w.up[g]]
  <2>8. n < 0 /\ n \in Nat
    BY <2>4, <2>7
  <2> HIDE DEF n
  <2> QED
    BY <2>8
<1> QED
  BY <1>1, <1>9, <1>10 DEF AtEase

\* my_create() and my_mkdir(): the current directory stays one when an entry is
\* added to it.
StaysDirectory(s, u, cur) ==
  /\ u.open[cur].fcb.directory /\ u.open[cur].fcb.first = s.open[cur].fcb.first

LEMMA NewStaysDirectory ==
  ASSUME NEW s, NEW cur, NEW txt, NEW w, Filed(s, cur, txt, w), AtRest(w), s.open[cur].fcb.directory,
         NEW b \in Block, NEW isdir, NEW fcb, FcbOk(fcb), NEW u, u = NewPut(s, cur, isdir, b, fcb), u.broken = "no"
  PROVE  StaysDirectory(s, u, cur)
<1> DEFINE k == NewBlock(s.hard, b, isdir)
           t == OnDisc(s, k)
           slot == FreeSlot(Dir(s, cur))
<1>1. /\ Sound(s, cur) /\ s.broken = "no" /\ DiscInv(s.hard) /\ cur \in Fd /\ s.open[cur].topenfile
  BY DEF Filed, Sound, TableInv
<1>2. slot \in Nat /\ slot >= 2
  BY SlotIs
<1>0. u = WriteFcb(t, cur, slot, fcb)
  BY DEF NewPut
<1> HIDE DEF slot
<1>3. Refatted(s.hard, k)
  BY <1>1, BlockTaken
<1> HIDE DEF k
<1>4. Sound(t, cur) /\ t.broken = "no" /\ t.open = s.open
  BY <1>1, <1>3, OnDiscTo
<1> HIDE DEF t
<1>6. FcbWrote(t, u, cur, slot)
  BY <1>1, <1>2, <1>4, <1>0, WriteFcbTo
<1> QED
  BY <1>1, <1>4, <1>6 DEF FcbWrote, Alike, StaysDirectory

LEMMA FreeIsBlock ==
  ASSUME NEW h, NEW b \in FreeBlocks(h)
  PROVE  b \in Block /\ h.fat1[b] = FREE
BY Sizes DEF FreeBlocks, Block

LEMMA FreeNotHead ==
  ASSUME NEW s, NEW cur, NEW txt, NEW w, Filed(s, cur, txt, w), NEW b \in FreeBlocks(s.hard)
  PROVE  b \in Block /\ b \notin w.heads /\ txt \in [Block -> Seq(Character)]
<1>1. ChainsInv(s.hard, Heads(w)) /\ txt \in [Block -> Seq(Character)] /\ w.heads \subseteq Heads(w)
  BY DEF Filed, FilesInv, DiscFiles, TextInv, Heads
<1>2. b \in Block /\ s.hard.fat1[b] = FREE
  BY FreeIsBlock
<1> DEFINE h == s.hard
           X == Heads(w)
<1>3. ChainsInv(h, X)
  BY <1>1
<1> HIDE DEF h, X
<1>4. \A g \in X : h.fat1[g] # FREE
  BY <1>3, ChainsFacts
<1> QED
  BY <1>1, <1>2, <1>4 DEF h, X

LEMMA EaseCreate ==
  ASSUME NEW s, NEW cur, NEW txt, AtEase(s, cur, txt), s.open[cur].fcb.directory,
         NEW b \in FreeBlocks(s.hard), NEW name \in Given, NEW isdir \in BOOLEAN, ~isdir,
         NEW fcb, NewFcb(fcb, name, isdir, b), NEW u, u = NewPut(s, cur, isdir, b, fcb), u.broken = "no",
         NEW dot, DotOk(dot, cur), NEW t, t = WriteDot(u, cur, dot), t.broken = "no"
  PROVE  AtEase(t, cur, Retexted(txt, b, <<>>))
<1> DEFINE new == Retexted(txt, b, <<>>)
<1>1. PICK w : Filed(s, cur, txt, w) /\ AtRest(w)
  BY DEF AtEase
<1>2. b \in Block /\ b \notin w.heads /\ txt \in [Block -> Seq(Character)]
  BY <1>1, FreeNotHead
<1>3. w.heads \subseteq Block
  BY <1>1 DEF Filed, FilesInv, DiscFiles, WitnessType
<1>4. Texted(txt, new, w, b, isdir)
  <2>1. <<>> \in Seq(Character)
    OBVIOUS
  <2> QED
    BY <1>2, <1>3, <2>1 DEF Retexted, Texted
<1> HIDE DEF new
<1>5. Added(s, u, cur, new, w, b, name, isdir)
  BY <1>1, <1>4, FiledNew
<1>6. PICK v : AddedTo(s, u, cur, new, w, v, b, name, isdir)
  BY <1>5 DEF Added
<1>7. Filed(u, cur, new, v) /\ AtRest(v)
  BY <1>6 DEF AddedTo, NewAt, AtRest
<1>8. StaysDirectory(s, u, cur)
  BY <1>1, <1>2, NewStaysDirectory DEF NewFcb
<1>9. Filed(WriteDot(u, cur, dot), cur, new, v)
  <2>1. WriteDot(u, cur, dot).broken = "no" /\ u.open[cur].fcb.directory
    BY <1>8 DEF StaysDirectory
  <2> QED
    BY <1>7, <2>1, FiledDot DEF DotOk
<1> QED
  BY <1>7, <1>9 DEF AtEase, new

\* my_mkdir() that made the entry and goes on to open the directory.
LEMMA EaseMkdir ==
  ASSUME NEW s, NEW cur, NEW txt, AtEase(s, cur, txt), s.open[cur].fcb.directory,
         NEW b \in FreeBlocks(s.hard), NEW name \in Given, Matches(Dir(s, cur), name, "") = {},
         NEW isdir \in BOOLEAN, isdir,
         NEW fcb, NewFcb(fcb, name, isdir, b), NEW u, u = NewPut(s, cur, isdir, b, fcb), u.broken = "no",
         NEW dot, DotOk(dot, cur), NEW t, t = FilledUp(u, cur, name, b, dot), t.broken = "no"
  PROVE  EndsAtEase(t, cur, txt)
<1> DEFINE d == s.open[cur].fcb.first
           ex == ""
<1>1. PICK w : Filed(s, cur, txt, w) /\ AtRest(w)
  BY DEF AtEase
<1>2. b \in Block /\ b \notin w.heads /\ txt \in [Block -> Seq(Character)]
  BY <1>1, FreeNotHead
<1>4. Texted(txt, txt, w, b, isdir)
  BY <1>2 DEF Texted
<1>5. Added(s, u, cur, txt, w, b, name, isdir)
  BY <1>1, <1>4, FiledNew
<1>6. PICK v : AddedTo(s, u, cur, txt, w, v, b, name, isdir)
  BY <1>5 DEF Added
<1>7. Filed(u, cur, txt, v) /\ NewAt(u, w, v, d, b, name, isdir) /\ OldThere(s, u, w)
  BY <1>6 DEF AddedTo
<1>8. StaysDirectory(s, u, cur)
  BY <1>1, <1>2, NewStaysDirectory DEF NewFcb
<1>10. u.open[cur].fcb.directory /\ u.open[cur].fcb.first = d
  BY <1>8 DEF StaysDirectory
<1>11. d = s.open[cur].fcb.first /\ ex = (IF isdir THEN "" ELSE "x") /\ Matches(Dir(s, cur), name, ex) = {}
  OBVIOUS
<1>12. ex = ""
  OBVIOUS
<1> HIDE DEF d, ex
<1>13. MatchIs(u, cur, v, b, name, ex)
  BY <1>1, <1>11, <1>7, <1>10, NewMatches
<1>14. MatchIs(u, cur, v, b, name, "")
  BY <1>12, <1>13
<1>15. /\ b \in v.dirs \ {Root} /\ v.up[b] = d /\ NameOf(u.hard, v, b) = name
       /\ v.raw = {b} /\ v.holes = {} /\ v.orphans = {}
  BY <1>7 DEF NewAt
<1>16. d = u.open[cur].fcb.first /\ u.open[cur].fcb.directory
  BY <1>10
<1> QED
  BY <1>7, <1>14, <1>15, <1>16, FiledUp

-----------------------------------------------------------------------------
(* The commands on a state at ease: my_rm() and my_rmdir().                *)

\* The entry i is marked free and its blocks are given back.
Marked(fcb) == [fcb EXCEPT !.filename = "", !.free = 0]

Removed(s, cur, i, first) ==
  WriteFcb(OnDisc(s, FreeChain(s.hard, first)), cur, i, Marked(Dir(s, cur)[i]))

LEMMA MarkedOk ==
  ASSUME NEW s, NEW cur, Sound(s, cur), s.broken = "no", s.open[cur].fcb.directory,
         NEW name, NEW ex, NEW i \in Matches(Dir(s, cur), name, ex)
  PROVE  LET fcb == Marked(Dir(s, cur)[i]) IN FcbOk(fcb) /\ fcb.filename \notin Given
<1> DEFINE dir == Dir(s, cur)
           old == dir[i]
           fcb == Marked(old)
<1>1. cur \in Fd /\ s.open[cur].topenfile
  BY DEF Sound, TableInv
<1>2. Listed(dir, s.open[cur].fcb.length)
  BY <1>1, DirFound
<1>3. i \in DOMAIN dir
  BY DEF Matches
<1> HIDE DEF dir
<1>4. old \in FcbType
  BY <1>2, <1>3 DEF Listed, FcbOk
<1> HIDE DEF old
<1>5. fcb = [old EXCEPT !.filename = "", !.free = 0]
  BY DEF Marked
<1> HIDE DEF fcb
<1>6. fcb \in FcbType /\ fcb.filename = "" /\ fcb.free = 0
  BY <1>4, <1>5, FcbMarked
<1>7. FcbOk(fcb) /\ fcb.filename \notin Given
  BY <1>6, Names, ZenonT(40) DEF FcbOk
<1> QED
  BY <1>7 DEF fcb, old, dir

\* What an entry that is looked for stands for.
Stands(s, w, cur, name, ex, i, g) ==
  /\ i \in Nat /\ (i + 1) * FCBSIZE <= s.open[cur].fcb.length
  /\ g \in w.heads \ {Root} /\ w.up[g] = s.open[cur].fcb.first /\ w.at[g] = i
  /\ (ex = "" <=> g \in w.dirs)
  /\ EntryIs(Dir(s, cur)[i], g, g \in w.dirs)

LEMMA StandsFor ==
  ASSUME NEW s, NEW cur, NEW txt, NEW w, Filed(s, cur, txt, w), AtRest(w), s.open[cur].fcb.directory,
         NEW name \in Given, NEW ex, NEW i \in Matches(Dir(s, cur), name, ex)
  PROVE  Stands(s, w, cur, name, ex, i, Dir(s, cur)[i].first)
<1> DEFINE h == s.hard
           d == s.open[cur].fcb.first
           e == Dir(s, cur)[i]
           g == e.first
<1>1. MatchAt(s, w, cur, d, name, ex, i)
  BY MatchKnown DEF AtRest
<1>2. PlacesInv(h, w)
  BY DEF Filed, FilesInv, DiscFiles
<1>3. /\ i \in Nat /\ (i + 1) * FCBSIZE <= s.open[cur].fcb.length
      /\ e = Entry(h, d, i) /\ e.exname = ex /\ PlacedAt(h, w, d, i)
  BY <1>1 DEF MatchAt
<1> HIDE DEF h, d
<1>4. g \in w.heads \ {Root} /\ w.up[g] = d /\ w.at[g] = i
  BY <1>3 DEF PlacedAt
<1>5. EntryIs(e, g, g \in w.dirs)
  BY <1>2, <1>3, <1>4 DEF PlacesInv
<1>6. ex = "" <=> g \in w.dirs
  <2> HIDE DEF e, g
  <2>1. "x" # ""
    OBVIOUS
  <2>2. CASE g \in w.dirs
    BY <1>3, <1>5, <2>2 DEF EntryIs
  <2>3. CASE g \notin w.dirs
    BY <1>3, <1>5, <2>1, <2>3 DEF EntryIs
  <2> QED
    BY <2>2, <2>3
<1> HIDE DEF e
<1> QED
  BY <1>3, <1>4, <1>5, <1>6 DEF Stands, d, e

LEMMA RemoveStands ==
  ASSUME NEW s, NEW cur, NEW txt, NEW w, Filed(s, cur, txt, w), AtRest(w), s.open[cur].fcb.directory,
         NEW name, NEW ex, NEW i, NEW g, Stands(s, w, cur, name, ex, i, g),
         \A x \in w.heads \ {Root} : w.up[x] # g,
         NEW new \in [Block -> Seq(Character)], \A x \in w.heads : x # g => new[x] = txt[x],
         NEW fcb, FcbOk(fcb), fcb.filename \notin Given,
         NEW u, u = OnDisc(s, FreeChain(s.hard, g)), NEW t, t = WriteFcb(u, cur, i, fcb), t.broken = "no"
  PROVE  AtEase(t, cur, new)
<1> DEFINE d == s.open[cur].fcb.first
<1>1. /\ i \in Nat /\ w.at[g] = i /\ (i + 1) * FCBSIZE <= s.open[cur].fcb.length
      /\ g \in w.heads \ {Root} /\ w.up[g] = d /\ d = s.open[cur].fcb.first
  BY DEF Stands
<1> HIDE DEF d
<1>2. i \in Nat
  BY <1>1
<1> QED
  BY <1>1, <1>2, FiledRemove

LEMMA EmptyText ==
  ASSUME NEW txt \in [Block -> Seq(Character)], NEW g
  PROVE  /\ Retexted(txt, g, <<>>) \in [Block -> Seq(Character)]
         /\ \A x \in Block : x # g => Retexted(txt, g, <<>>)[x] = txt[x]
<1>1. <<>> \in Seq(Character)
  OBVIOUS
<1> QED
  BY <1>1 DEF Retexted

LEMMA EaseRemove ==
  ASSUME NEW s, NEW cur, NEW txt, NEW w, Filed(s, cur, txt, w), AtRest(w), s.open[cur].fcb.directory,
         NEW name \in Given, NEW ex, NEW i \in Matches(Dir(s, cur), name, ex),
         NEW g, g = Dir(s, cur)[i].first, \A x \in w.heads \ {Root} : w.up[x] # g,
         NEW new \in [Block -> Seq(Character)], \A x \in w.heads : x # g => new[x] = txt[x],
         NEW t, t = Removed(s, cur, i, g), t.broken = "no"
  PROVE  AtEase(t, cur, new)
<1> DEFINE fcb == Marked(Dir(s, cur)[i])
           u == OnDisc(s, FreeChain(s.hard, g))
<1>1. FcbOk(fcb) /\ fcb.filename \notin Given
  BY MarkedOk DEF Filed
<1>2. Stands(s, w, cur, name, ex, i, g)
  BY StandsFor
<1>3. t = WriteFcb(u, cur, i, fcb) /\ u = OnDisc(s, FreeChain(s.hard, g))
  BY DEF Removed
<1> HIDE DEF fcb, u
<1> QED
  BY <1>1, <1>2, <1>3, RemoveStands

LEMMA MinMatch ==
  ASSUME NEW s, NEW cur, NEW txt, NEW w, Filed(s, cur, txt, w), s.open[cur].fcb.directory,
         NEW name, NEW ex, Matches(Dir(s, cur), name, ex) # {}
  PROVE  Min(Matches(Dir(s, cur), name, ex)) \in Matches(Dir(s, cur), name, ex)
<1> DEFINE M == Matches(Dir(s, cur), name, ex)
<1>1. PICK m \in Nat : Dir(s, cur) = [j \in 0 .. m - 1 |-> Entry(s.hard, s.open[cur].fcb.first, j)]
  BY DirKnown DEF DirWith
<1>2. M \subseteq Nat /\ M # {}
  BY <1>1 DEF Matches
<1> HIDE DEF M
<1>3. Min(M) \in M
  BY <1>2, MinFound
<1> QED
  BY <1>3 DEF M

LEMMA EaseRm ==
  ASSUME NEW s, NEW cur, NEW txt, AtEase(s, cur, txt), s.open[cur].fcb.directory,
         NEW name \in Given, NEW ex, ex # "", Matches(Dir(s, cur), name, ex) # {},
         NEW i, i = Min(Matches(Dir(s, cur), name, ex)), NEW g, g = Dir(s, cur)[i].first,
         NEW t, t = Removed(s, cur, i, g), t.broken = "no"
  PROVE  AtEase(t, cur, Retexted(txt, g, <<>>))
<1> DEFINE new == Retexted(txt, g, <<>>)
<1>1. PICK w : Filed(s, cur, txt, w) /\ AtRest(w)
  BY DEF AtEase
<1>2. i \in Matches(Dir(s, cur), name, ex)
  BY <1>1, MinMatch
<1>3. Stands(s, w, cur, name, ex, i, g)
  BY <1>1, <1>2, StandsFor
<1>4. g \in w.heads /\ g \notin w.dirs
  BY <1>3 DEF Stands
<1>5. /\ \A x \in w.heads \ {Root} : w.up[x] \in w.dirs
      /\ txt \in [Block -> Seq(Character)] /\ w.heads \subseteq Block
  BY <1>1 DEF Filed, FilesInv, DiscFiles, PlacesInv, TextInv, WitnessType
<1>6. new \in [Block -> Seq(Character)] /\ \A x \in w.heads : x # g => new[x] = txt[x]
  BY <1>5, EmptyText, ZenonT(40)
<1> HIDE DEF new
<1>7. \A x \in w.heads \ {Root} : w.up[x] # g
  BY <1>4, <1>5
<1>8. AtEase(t, cur, new)
  BY <1>1, <1>2, <1>6, <1>7, EaseRemove, ZenonT(40)
<1> QED
  BY <1>8 DEF new

\* my_rmdir() opens the directory and closes it again, which changes nothing.
LEMMA ReleasedSame ==
  ASSUME NEW s, NEW cur, NEW txt, NEW w, Filed(s, cur, txt, w), NEW r, NEW fd, NEW i,
         OpenedTo(s, r, cur, fd, i)
  PROVE  Release(r, fd) = s
<1> DEFINE q == Release(r, fd)
<1>1. /\ fd \in Fd /\ r.broken = s.broken /\ r.hard = s.hard /\ Sound(r, fd)
      /\ \A g \in Fd : g # fd => r.open[g] = s.open[g]
      /\ ~r.open[fd].fcbstate /\ ~s.open[fd].topenfile
  BY DEF OpenedTo
<1>2. StateFields(s) /\ s.open \in [Fd -> OpenType]
  BY DEF Filed, Sound, TableInv
<1>3. StateFields(r) /\ r.open \in [Fd -> OpenType]
  BY <1>1 DEF Sound, TableInv, Filed
<1>4. s.open[fd] = Closed
  BY <1>1 DEF Filed, FilesInv, OpenInv
<1>5. WrittenBack(r, fd) = r
  BY <1>1 DEF WrittenBack
<1>6. StateFields(q) /\ q.hard = r.hard /\ q.broken = r.broken /\ q.open = [r.open EXCEPT ![fd] = Closed]
  <2>1. StateFields(WrittenBack(r, fd))
    BY <1>3, <1>5
  <2>2. LET t == WrittenBack(r, fd)
            z == Release(r, fd)
        IN  /\ StateFields(z) /\ z.hard = t.hard /\ z.broken = t.broken
            /\ z.open = [t.open EXCEPT ![fd] = Closed]
    BY <2>1, ReleaseFields
  <2> QED
    BY <1>5, <2>2
<1> HIDE DEF q
<1>7. [r.open EXCEPT ![fd] = Closed] = s.open
  BY <1>1, <1>2, <1>3, <1>4
<1>8. q.hard = s.hard /\ q.broken = s.broken /\ q.open = s.open
  BY <1>1, <1>6, <1>7
<1>9. q = s
  BY <1>2, <1>6, <1>8 DEF StateFields
<1> QED
  BY <1>9 DEF q

\* A directory that IsEmpty has no file or directory in it.
LEMMA EmptyHasNone ==
  ASSUME NEW s, NEW cur, NEW txt, NEW w, Filed(s, cur, txt, w), s.open[cur].fcb.directory,
         IsEmpty(s, cur), NEW g, g = s.open[cur].fcb.first, NEW x \in w.heads \ {Root}
  PROVE  w.up[x] # g
<1> DEFINE h == s.hard
<1>1. PICK m \in Nat :
           /\ Dir(s, cur) = [j \in 0 .. m - 1 |-> Entry(h, g, j)]
           /\ \A i \in Nat : (i + 1) * FCBSIZE <= w.length[g] => i \in 0 .. m - 1
  BY DirKnown DEF DirWith
<1>2. PlacesInv(h, w) /\ w.at[x] \in Nat
  BY DEF Filed, FilesInv, DiscFiles, WitnessType
<1> HIDE DEF h
<1>3. SUFFICES ASSUME w.up[x] = g PROVE FALSE
  OBVIOUS
<1>4. /\ (w.at[x] + 1) * FCBSIZE <= w.length[g] /\ Entry(h, g, w.at[x]).filename \in Given
  BY <1>2, <1>3 DEF PlacesInv, EntryIs
<1>5. w.at[x] \in 0 .. m - 1
  BY <1>1, <1>2, <1>4
<1>6. Dir(s, cur)[w.at[x]].filename \in Given
  BY <1>1, <1>4, <1>5
<1>7. Dir(s, cur)[w.at[x]].filename \in {".", "..", ""}
  BY <1>1, <1>5 DEF IsEmpty
<1> QED
  BY <1>6, <1>7, Names

OfDirectory(ex) == ex = ""

NoneIn(w, g) == \A x \in w.heads \ {Root} : w.up[x] # g

LEMMA RmdirAllowed ==
  ASSUME NEW s, NEW cur, NEW txt, NEW w, Filed(s, cur, txt, w), AtRest(w), s.open[cur].fcb.directory,
         NEW name \in Given, NEW ex, OfDirectory(ex), Matches(Dir(s, cur), name, ex) # {},
         NEW i, i = Min(Matches(Dir(s, cur), name, ex)),
         NEW r, NEW fd, OpenedTo(s, r, cur, fd, i), ~Blocked(s.open, cur, name, ex),
         IsEmpty(r, fd)
  PROVE  Stands(s, w, cur, name, ex, i, r.open[fd].fcb.first) /\ NoneIn(w, r.open[fd].fcb.first)
<1> DEFINE g == r.open[fd].fcb.first
           e == Dir(s, cur)[i]
<1>1. i \in Matches(Dir(s, cur), name, ex)
  BY MinMatch
<1>2. FiledAs(s, r, cur, fd, txt, w)
  BY FiledOpen DEF AtRest
<1>3. r.open[fd].fcb = e
  BY DEF OpenedTo
<1>4. Filed(r, fd, txt, w)
  BY <1>2 DEF FiledAs
<1>5. Stands(s, w, cur, name, ex, i, e.first)
  BY <1>1, StandsFor
<1>6. EntryIs(e, e.first, e.first \in w.dirs) /\ e.first \in w.dirs
  BY <1>5 DEF Stands, OfDirectory
<1> HIDE DEF e
<1>7. e.directory
  BY <1>6 DEF EntryIs
<1>8. r.open[fd].fcb.directory
  BY <1>3, <1>7
<1> HIDE DEF g
<1>9. g = r.open[fd].fcb.first
  BY DEF g
<1>10. NoneIn(w, g)
  <2>1. ASSUME NEW x \in w.heads \ {Root} PROVE w.up[x] # g
    BY <1>4, <1>8, <1>9, EmptyHasNone
  <2> QED
    BY <2>1 DEF NoneIn
<1>11. Stands(s, w, cur, name, ex, i, g)
  BY <1>3, <1>5, <1>9
<1> QED
  BY <1>10, <1>11 DEF g

LEMMA RemoveNone ==
  ASSUME NEW s, NEW cur, NEW txt, NEW w, Filed(s, cur, txt, w), AtRest(w), s.open[cur].fcb.directory,
         NEW name, NEW ex, NEW i \in Matches(Dir(s, cur), name, ex), NEW g,
         Stands(s, w, cur, name, ex, i, g), NoneIn(w, g), NEW t, t = Removed(s, cur, i, g), t.broken = "no"
  PROVE  AtEase(t, cur, txt)
<1> DEFINE fcb == Marked(Dir(s, cur)[i])
           u == OnDisc(s, FreeChain(s.hard, g))
           new == txt
<1>1. new \in [Block -> Seq(Character)] /\ \A x \in w.heads : x # g => new[x] = txt[x]
  BY DEF Filed, FilesInv, DiscFiles, TextInv
<1>2. FcbOk(fcb) /\ fcb.filename \notin Given
  BY MarkedOk DEF Filed
<1>3. t = WriteFcb(u, cur, i, fcb) /\ u = OnDisc(s, FreeChain(s.hard, g))
  BY DEF Removed
<1>4. \A x \in w.heads \ {Root} : w.up[x] # g
  BY DEF NoneIn
<1> HIDE DEF fcb, u, new
<1>5. AtEase(t, cur, new)
  BY <1>1, <1>2, <1>3, <1>4, RemoveStands
<1> QED
  BY <1>5 DEF new

LEMMA EaseRmdir ==
  ASSUME NEW s, NEW cur, NEW txt, AtEase(s, cur, txt), s.open[cur].fcb.directory,
         NEW name \in Given, NEW ex, OfDirectory(ex), Matches(Dir(s, cur), name, ex) # {},
         NEW i, i = Min(Matches(Dir(s, cur), name, ex)),
         NEW r, NEW fd, OpenedTo(s, r, cur, fd, i), ~Blocked(s.open, cur, name, ex),
         IsEmpty(r, fd), NEW t, t = Removed(s, cur, i, r.open[fd].fcb.first), t.broken = "no"
  PROVE  AtEase(t, cur, txt)
<1>1. PICK w : Filed(s, cur, txt, w) /\ AtRest(w)
  BY DEF AtEase
<1>2. i \in Matches(Dir(s, cur), name, ex)
  BY <1>1, MinMatch
<1>3. Stands(s, w, cur, name, ex, i, r.open[fd].fcb.first) /\ NoneIn(w, r.open[fd].fcb.first)
  BY <1>1, RmdirAllowed
<1> QED
  BY <1>1, <1>2, <1>3, RemoveNone

-----------------------------------------------------------------------------
(* The commands on a state at ease: my_write().                            *)

LEMMA LineIs ==
  ASSUME NEW line \in Lines \union {<<>>}
  PROVE  line \in Seq(Character)
<1>1. CASE line = <<>>
  <2>1. <<>> \in Seq(Character)
    OBVIOUS
  <2> QED
    BY <1>1, <2>1
<1>2. CASE line # <<>>
  <2>1. line \in Seq(ToSet(line)) /\ line \in Lines
    BY <1>2, FileSystemAssumption
  <2>2. ToSet(line) \subseteq Character
    BY <2>1 DEF Character
  <2> QED
    BY <2>1, <2>2, SeqMonotonic
<1> QED
  BY <1>1, <1>2

\* The text as my_write() leaves it: the beginning of the old text, the line
\* and the rest.
Spliced(old, count, line, rest) == SubSeq(old, 1, count) \o (line \o rest)

SplicedAs(old, count, line, rest, q) ==
  /\ q \in Seq(Character) /\ Len(q) = count + Len(line) + Len(rest)
  /\ \A i \in 1 .. Len(q) :
       q[i] = IF i <= count THEN old[i]
              ELSE IF i <= count + Len(line) THEN line[i - count] ELSE rest[i - count - Len(line)]

LEMMA SplicedIs ==
  ASSUME NEW old \in Seq(Character), NEW line \in Seq(Character), NEW rest \in Seq(Character),
         NEW count \in Nat, count <= Len(old)
  PROVE  SplicedAs(old, count, line, rest, Spliced(old, count, line, rest))
<1> DEFINE u == SubSeq(old, 1, count)
           v == line \o rest
           q == u \o v
<1>1. Len(old) \in Nat /\ Len(line) \in Nat /\ Len(rest) \in Nat
  BY LenProperties
<1>2. u \in Seq(Character) /\ Len(u) = count /\ \A i \in 1 .. count : u[i] = old[i]
  <2>1. \A i \in 1 .. count : old[i] \in Character
    BY <1>1, ElementOfSeq
  <2>2. 1 \in Int /\ count \in Int
    OBVIOUS
  <2>3. /\ SubSeq(old, 1, count) \in Seq(Character)
        /\ Len(SubSeq(old, 1, count)) = IF 1 <= count THEN count - 1 + 1 ELSE 0
        /\ \A i \in 1 .. count - 1 + 1 : SubSeq(old, 1, count)[i] = old[1 + i - 1]
    BY <2>1, <2>2, SubSeqProperties
  <2> QED
    BY <2>3
<1>3. /\ v \in Seq(Character) /\ Len(v) = Len(line) + Len(rest)
      /\ \A i \in 1 .. Len(line) + Len(rest) : v[i] = IF i <= Len(line) THEN line[i] ELSE rest[i - Len(line)]
  BY ConcatProperties
<1> HIDE DEF u, v
<1>4. /\ q \in Seq(Character) /\ Len(q) = Len(u) + Len(v)
      /\ \A i \in 1 .. Len(u) + Len(v) : q[i] = IF i <= Len(u) THEN u[i] ELSE v[i - Len(u)]
  BY <1>2, <1>3, ConcatProperties
<1> HIDE DEF q
<1>5. Len(q) = count + Len(line) + Len(rest)
  BY <1>1, <1>2, <1>3, <1>4
<1>6. ASSUME NEW i \in 1 .. Len(q)
      PROVE  q[i] = IF i <= count THEN old[i]
                    ELSE IF i <= count + Len(line) THEN line[i - count] ELSE rest[i - count - Len(line)]
  <2>1. q[i] = IF i <= count THEN u[i] ELSE v[i - count]
    BY <1>1, <1>2, <1>3, <1>4, <1>5
  <2>2. CASE i <= count
    BY <1>2, <2>1, <2>2
  <2>3. CASE ~(i <= count)
    <3>1. i - count \in 1 .. Len(line) + Len(rest)
      BY <1>1, <1>5, <2>3
    <3>2. v[i - count] = IF i - count <= Len(line) THEN line[i - count] ELSE rest[i - count - Len(line)]
      BY <1>3, <3>1
    <3> QED
      BY <1>1, <2>1, <2>3, <3>2
  <2> QED
    BY <2>2, <2>3
<1>7. SplicedAs(old, count, line, rest, q)
  BY <1>4, <1>5, <1>6 DEF SplicedAs
<1> QED
  BY <1>7 DEF q, u, v, Spliced

LEMMA CutText ==
  ASSUME NEW old \in Seq(Character), NEW line \in Seq(Character)
  PROVE  Overlaid(<<>>, line, 0, 0, Spliced(old, 0, line, <<>>))
<1> DEFINE rest == <<>>
           q == Spliced(old, 0, line, rest)
<1>1. Len(line) \in Nat /\ Len(old) \in Nat /\ 0 \in Nat /\ rest \in Seq(Character) /\ Len(rest) = 0
  BY LenProperties, EmptySeq
<1>2. SplicedAs(old, 0, line, rest, q)
  <2> HIDE DEF rest
  <2>1. 0 <= Len(old)
    BY <1>1
  <2> QED
    BY <1>1, <2>1, SplicedIs
<1> HIDE DEF q, rest
<1>3. q \in Seq(Character) /\ Len(q) = Len(line)
  BY <1>1, <1>2 DEF SplicedAs
<1>4. NewLength(0, 0 + Len(line)) = Len(line)
  BY <1>1, Max2 DEF NewLength
<1>5. ASSUME NEW p \in 0 .. Len(q) - 1 PROVE q[p + 1] = line[p + 1]
  <2>1. p + 1 \in 1 .. Len(q) /\ ~(p + 1 <= 0) /\ p + 1 <= 0 + Len(line) /\ p + 1 - 0 = p + 1
    BY <1>1, <1>3
  <2> QED
    BY <1>2, <2>1 DEF SplicedAs
<1>6. ASSUME NEW p \in 0 .. Len(q) - 1 PROVE p \in 0 .. 0 + Len(line) - 1 /\ p - 0 + 1 = p + 1
  BY <1>1, <1>3
<1>7. Overlaid(<<>>, line, 0, 0, q)
  BY <1>3, <1>4, <1>5, <1>6 DEF Overlaid
<1> QED
  BY <1>7 DEF q, rest

LEMMA AddText ==
  ASSUME NEW old \in Seq(Character), NEW line \in Seq(Character), NEW n, n = Len(old)
  PROVE  Overlaid(old, line, n, n, Spliced(old, n, line, <<>>))
<1> DEFINE rest == <<>>
           q == Spliced(old, n, line, rest)
<1>1. Len(line) \in Nat /\ n \in Nat /\ rest \in Seq(Character) /\ Len(rest) = 0 /\ n <= Len(old)
  BY LenProperties, EmptySeq
<1>2. SplicedAs(old, n, line, rest, q)
  <2> HIDE DEF rest
  <2> QED
    BY <1>1, SplicedIs
<1> HIDE DEF q, rest
<1>3. q \in Seq(Character) /\ Len(q) = n + Len(line)
  BY <1>1, <1>2 DEF SplicedAs
<1>4. NewLength(n, n + Len(line)) = n + Len(line)
  BY <1>1, Max2 DEF NewLength
<1>5. ASSUME NEW p \in 0 .. Len(q) - 1
      PROVE  q[p + 1] = IF p \in n .. n + Len(line) - 1 THEN line[p - n + 1] ELSE old[p + 1]
  <2>1. p + 1 \in 1 .. Len(q) /\ p + 1 <= n + Len(line) /\ p + 1 - n = p - n + 1
    BY <1>1, <1>3
  <2>2. q[p + 1] = IF p + 1 <= n THEN old[p + 1] ELSE line[p - n + 1]
    BY <1>2, <2>1 DEF SplicedAs
  <2>3. p \in n .. n + Len(line) - 1 <=> ~(p + 1 <= n)
    BY <1>1, <1>3
  <2> QED
    BY <2>2, <2>3
<1>6. Overlaid(old, line, n, n, q)
  BY <1>3, <1>4, <1>5 DEF Overlaid
<1> QED
  BY <1>6 DEF q, rest

LEMMA CoverText ==
  ASSUME NEW old \in Seq(Character), NEW line \in Seq(Character), NEW n, n = Len(old),
         NEW m, m = Len(line)
  PROVE  Overlaid(old, line, 0, n, Spliced(old, 0, line, SubSeq(old, m + 1, n)))
<1> DEFINE rest == SubSeq(old, m + 1, n)
           q == Spliced(old, 0, line, rest)
<1>1. m \in Nat /\ n \in Nat /\ 0 \in Nat /\ 0 <= Len(old)
  BY LenProperties
<1>2. /\ rest \in Seq(Character) /\ Len(rest) = (IF m + 1 <= n THEN n - m ELSE 0)
      /\ \A i \in 1 .. n - m : rest[i] = old[m + i]
  <2>1. \A i \in m + 1 .. n : old[i] \in Character
    BY <1>1, ElementOfSeq
  <2>2. m + 1 \in Int /\ n \in Int
    BY <1>1
  <2> DEFINE k == m + 1
  <2>3. k \in Int /\ \A i \in k .. n : old[i] \in Character
    BY <2>1, <2>2
  <2> HIDE DEF k
  <2>4. /\ SubSeq(old, k, n) \in Seq(Character)
        /\ Len(SubSeq(old, k, n)) = IF k <= n THEN n - k + 1 ELSE 0
        /\ \A i \in 1 .. n - k + 1 : SubSeq(old, k, n)[i] = old[k + i - 1]
    BY <2>2, <2>3, SubSeqProperties
  <2>5. k = m + 1 /\ rest = SubSeq(old, k, n)
    BY DEF k
  <2> HIDE DEF rest
  <2> QED
    BY <1>1, <2>4, <2>5
<1> HIDE DEF rest
<1>3. SplicedAs(old, 0, line, rest, q)
  BY <1>1, <1>2, SplicedIs
<1> HIDE DEF q
<1>4. q \in Seq(Character) /\ Len(q) = m + Len(rest) /\ Len(rest) \in Nat
  BY <1>1, <1>2, <1>3 DEF SplicedAs
<1>5. Len(q) = NewLength(n, 0 + Len(line))
  <2>1. NewLength(n, m) = IF n > m THEN n ELSE m
    BY <1>1, Max2 DEF NewLength
  <2>2. 0 + Len(line) = m
    BY <1>1
  <2>3. Len(q) = IF n > m THEN n ELSE m
    BY <1>1, <1>2, <1>4
  <2> QED
    BY <2>1, <2>2, <2>3
<1>6. ASSUME NEW p \in 0 .. Len(q) - 1
      PROVE  q[p + 1] = IF p \in 0 .. 0 + Len(line) - 1 THEN line[p - 0 + 1] ELSE old[p + 1]
  <2>1. p + 1 \in 1 .. Len(q) /\ ~(p + 1 <= 0) /\ p + 1 - 0 = p + 1 /\ p - 0 + 1 = p + 1
    BY <1>4, <1>1
  <2>2. q[p + 1] = IF p + 1 <= 0 + Len(line) THEN line[p + 1] ELSE rest[p + 1 - Len(line)]
    BY <1>3, <2>1 DEF SplicedAs
  <2>3. p \in 0 .. 0 + Len(line) - 1 <=> p + 1 <= 0 + Len(line)
    BY <1>1
  <2>4. CASE p + 1 <= 0 + Len(line)
    BY <2>1, <2>2, <2>3, <2>4
  <2>5. CASE ~(p + 1 <= 0 + Len(line))
    <3>1. p + 1 - m \in 1 .. n - m /\ m + (p + 1 - m) = p + 1
      BY <1>1, <1>2, <1>4, <2>5
    <3>2. rest[p + 1 - m] = old[p + 1]
      BY <1>2, <3>1
    <3> QED
      BY <2>2, <2>3, <2>5, <3>2
  <2> QED
    BY <2>4, <2>5
<1>7. Overlaid(old, line, 0, n, q)
  BY <1>4, <1>5, <1>6 DEF Overlaid
<1> QED
  BY <1>7 DEF q, rest

LEMMA EaseFile ==
  ASSUME NEW s, NEW cur, NEW txt, AtEase(s, cur, txt), ~s.open[cur].fcb.directory,
         NEW g, g = s.open[cur].fcb.first
  PROVE  /\ g \in Block /\ txt \in [Block -> Seq(Character)] /\ txt[g] \in Seq(Character)
         /\ Len(txt[g]) = s.open[cur].fcb.length /\ s.open[cur].fcb.length \in Nat /\ cur # 0
<1>1. PICK w : Filed(s, cur, txt, w)
  BY DEF AtEase
<1>2. /\ g \in w.heads \ w.dirs /\ w.length[g] = s.open[cur].fcb.length /\ w.length[g] \in Nat
      /\ g \in Block /\ cur # 0
  BY <1>1, FileOpen
<1>3. txt \in [Block -> Seq(Character)] /\ \A x \in w.heads \ w.dirs : Len(txt[x]) = w.length[x]
  BY <1>1 DEF Filed, FilesInv, DiscFiles, TextInv
<1> QED
  BY <1>2, <1>3

LEMMA EaseLine ==
  ASSUME NEW s, NEW cur, NEW txt, AtEase(s, cur, txt), ~s.open[cur].fcb.directory,
         NEW g, g = s.open[cur].fcb.first, NEW count \in Nat, count <= s.open[cur].fcb.length,
         NEW line \in Lines \union {<<>>}, line # <<>>,
         NEW t, t = do_write(s, cur, count, Chars(line)), t.broken = "no",
         NEW q, Overlaid(txt[g], line, count, s.open[cur].fcb.length, q)
  PROVE  AtEase(t, cur, Retexted(txt, g, q))
<1>1. PICK w : Filed(s, cur, txt, w) /\ AtRest(w)
  BY DEF AtEase
<1> QED
  BY <1>1, FiledWrite

\* What do_write() is called for, if there is a line.
WrittenIf(s, cur, count, line) == IF line = <<>> THEN s ELSE do_write(s, cur, count, Chars(line))

LEMMA RetextedAgain ==
  ASSUME NEW txt \in [Block -> Seq(Character)], NEW g \in Block, NEW q, NEW r
  PROVE  /\ Retexted(Retexted(txt, g, q), g, r) = Retexted(txt, g, r) /\ Retexted(txt, g, q)[g] = q
         /\ Retexted(txt, g, txt[g]) = txt
BY DEF Retexted

LEMMA EaseCut ==
  ASSUME NEW s, NEW cur, NEW txt, AtEase(s, cur, txt), ~s.open[cur].fcb.directory,
         NEW g, g = s.open[cur].fcb.first, NEW line \in Lines \union {<<>>},
         NEW t, t = WrittenIf(Shortened(s, cur), cur, 0, line), t.broken = "no"
  PROVE  AtEase(t, cur, Retexted(txt, g, Spliced(txt[g], 0, line, <<>>)))
<1> DEFINE u == Shortened(s, cur)
           none == <<>>
           cut == Retexted(txt, g, none)
           q == Spliced(txt[g], 0, line, none)
<1>1. /\ g \in Block /\ txt \in [Block -> Seq(Character)] /\ txt[g] \in Seq(Character) /\ cur # 0
      /\ line \in Seq(Character)
  BY EaseFile, LineIs
<1>2. AtEase(u, cur, cut) /\ u.open[cur].fcb.length = 0
  <2>1. PICK w : Filed(s, cur, txt, w) /\ AtRest(w)
    BY DEF AtEase
  <2> QED
    BY <2>1, FiledCut
<1>3. ~u.open[cur].fcb.directory /\ u.open[cur].fcb.first = g
  <2>1. PICK w : Filed(s, cur, txt, w)
    BY DEF AtEase
  <2>2. Sound(s, cur) /\ s.broken = "no" /\ s.open \in [Fd -> OpenType] /\ cur \in Fd
    BY <2>1 DEF Filed, Sound, TableInv
  <2>3. LET v == Shortened(s, cur)
        IN  /\ Keeps(s, v, cur) /\ v.broken = "no" /\ v.open[cur].topenfile
            /\ v.hard = Cut(s.hard, s.open[cur].fcb.first)
            /\ v.open = [s.open EXCEPT ![cur] = [s.open[cur] EXCEPT !.fcb = [s.open[cur].fcb EXCEPT !.length = 0]]]
    BY <1>1, <2>2, ShortenedTo
  <2> DEFINE e == s.open[cur]
             f == e.fcb
             x == [f EXCEPT !.length = 0]
             y == [e EXCEPT !.fcb = x]
  <2>4. f \in FcbType /\ e \in OpenType
    BY <2>2, Entries
  <2>5. u.open = [s.open EXCEPT ![cur] = y]
    BY <2>3
  <2> HIDE DEF u
  <2>6. u.open[cur] = y
    <3> HIDE DEF y
    <3> QED
      BY <2>2, <2>5
  <2>7. x.directory = f.directory /\ x.first = f.first
    BY <2>4 DEF FcbType
  <2>8. y.fcb = x
    <3> HIDE DEF x
    <3> QED
      BY <2>4 DEF OpenType
  <2> QED
    BY <2>6, <2>7, <2>8
<1>4. Overlaid(none, line, 0, 0, q)
  BY <1>1, CutText
<1>5. Retexted(cut, g, q) = Retexted(txt, g, q) /\ cut[g] = none
  <2> HIDE DEF q, none
  <2>1. /\ Retexted(Retexted(txt, g, none), g, q) = Retexted(txt, g, q)
        /\ Retexted(txt, g, none)[g] = none
    BY <1>1 DEF Retexted
  <2> QED
    BY <2>1
<1>6. t = WrittenIf(u, cur, 0, line)
  OBVIOUS
<1>7. line = none => q = none
  <2>1. ASSUME line = none PROVE Len(q) = 0 /\ q \in Seq(Character)
    <3>1. Len(none) = 0
      OBVIOUS
    <3>2. Len(q) = NewLength(0, 0 + Len(line)) /\ q \in Seq(Character)
      BY <1>4 DEF Overlaid
    <3>3. 0 + Len(line) = 0
      BY <2>1, <3>1
    <3>4. NewLength(0, 0) = 0
      BY Max2 DEF NewLength
    <3> QED
      BY <3>2, <3>3, <3>4
  <2> HIDE DEF q
  <2> QED
    BY <2>1, EmptySeq
<1>8. (line = none <=> line = <<>>) /\ 0 \in Nat /\ 0 <= 0
  OBVIOUS
<1> HIDE DEF u, cut, q, none
<1>9. CASE line = none
  <2>1. t = u /\ AtEase(u, cur, cut)
    BY <1>2, <1>6, <1>8, <1>9 DEF WrittenIf
  <2>2. cut = Retexted(txt, g, q)
    BY <1>7, <1>9 DEF cut
  <2> QED
    BY <2>1, <2>2 DEF q, none
<1>10. CASE line # none
  <2>1. line # <<>> /\ t = do_write(u, cur, 0, Chars(line))
    BY <1>6, <1>8, <1>10 DEF WrittenIf
  <2>2. Overlaid(cut[g], line, 0, u.open[cur].fcb.length, q)
    BY <1>2, <1>4, <1>5
  <2>3. 0 <= u.open[cur].fcb.length /\ g = u.open[cur].fcb.first
    BY <1>2, <1>3, <1>8
  <2>4. AtEase(t, cur, Retexted(cut, g, q))
    BY <1>2, <1>3, <1>8, <2>1, <2>2, <2>3, EaseLine
  <2> QED
    BY <1>5, <2>4 DEF q, none
<1> QED
  BY <1>9, <1>10

LEMMA EaseAdd ==
  ASSUME NEW s, NEW cur, NEW txt, AtEase(s, cur, txt), ~s.open[cur].fcb.directory,
         NEW g, g = s.open[cur].fcb.first, NEW line \in Lines \union {<<>>},
         NEW count, count = s.open[cur].fcb.length,
         NEW t, t = WrittenIf(s, cur, count, line), t.broken = "no"
  PROVE  AtEase(t, cur, Retexted(txt, g, Spliced(txt[g], count, line, <<>>)))
<1> DEFINE none == <<>>
           q == Spliced(txt[g], count, line, none)
<1>1. /\ g \in Block /\ txt \in [Block -> Seq(Character)] /\ txt[g] \in Seq(Character)
      /\ Len(txt[g]) = count /\ count \in Nat /\ line \in Seq(Character)
  BY EaseFile, LineIs
<1>2. Overlaid(txt[g], line, count, count, q)
  BY <1>1, AddText
<1>3. CASE line = <<>>
  <2>1. t = s
    BY <1>3 DEF WrittenIf
  <2>2. q = txt[g]
    BY <1>1, <1>3, ConcatEmptySeq, SubSeqFull, EmptySeq DEF Spliced
  <2> HIDE DEF q
  <2>3. Retexted(txt, g, q) = txt
    BY <1>1, <2>2, RetextedAgain
  <2> QED
    BY <2>1, <2>3 DEF q
<1>4. CASE line # <<>>
  <2>1. t = do_write(s, cur, count, Chars(line)) /\ count <= s.open[cur].fcb.length
    BY <1>1, <1>4 DEF WrittenIf
  <2> HIDE DEF q
  <2>2. Overlaid(txt[g], line, count, s.open[cur].fcb.length, q)
    BY <1>2
  <2>3. AtEase(t, cur, Retexted(txt, g, q))
    BY <1>1, <1>4, <2>1, <2>2, EaseLine
  <2> QED
    BY <2>3 DEF q
<1> QED
  BY <1>3, <1>4

LEMMA EaseCover ==
  ASSUME NEW s, NEW cur, NEW txt, AtEase(s, cur, txt), ~s.open[cur].fcb.directory,
         NEW g, g = s.open[cur].fcb.first, NEW line \in Lines \union {<<>>},
         NEW t, t = WrittenIf(s, cur, 0, line), t.broken = "no"
  PROVE  AtEase(t, cur, Retexted(txt, g,
                  Spliced(txt[g], 0, line, SubSeq(txt[g], Len(line) + 1, Len(txt[g])))))
<1> DEFINE n == Len(txt[g])
           m == Len(line)
           rest == SubSeq(txt[g], m + 1, n)
           q == Spliced(txt[g], 0, line, rest)
<1>1. /\ g \in Block /\ txt \in [Block -> Seq(Character)] /\ txt[g] \in Seq(Character)
      /\ n = s.open[cur].fcb.length /\ n \in Nat /\ line \in Seq(Character)
  BY EaseFile, LineIs
<1>2. Overlaid(txt[g], line, 0, n, q)
  BY <1>1, CoverText
<1>3. CASE line = <<>>
  <2>1. t = s
    BY <1>3 DEF WrittenIf
  <2>2. m + 1 = 1
    BY <1>3
  <2> DEFINE old == txt[g]
             k == m + 1
  <2>3. q = SubSeq(old, 1, 0) \o (line \o SubSeq(old, k, Len(old))) /\ old \in Seq(Character) /\ k = 1
    BY <1>1, <2>2 DEF Spliced
  <2> HIDE DEF q, old, k
  <2>4. SubSeq(old, k, Len(old)) = old
    BY <2>3, SubSeqFull
  <2>5. line \o old = old
    BY <1>3, <2>3, ConcatEmptySeq
  <2>6. SubSeq(old, 1, 0) = <<>>
    BY SubSeqEmpty, SMTT(30)
  <2>7. q = old
    BY <2>3, <2>4, <2>5, <2>6, ConcatEmptySeq
  <2>8. Retexted(txt, g, q) = txt
    BY <1>1, <2>7, RetextedAgain DEF old
  <2> QED
    BY <2>1, <2>8 DEF q
<1>4. CASE line # <<>>
  <2> HIDE DEF q
  <2>1. t = do_write(s, cur, 0, Chars(line)) /\ 0 <= s.open[cur].fcb.length /\ 0 \in Nat
    BY <1>1, <1>4 DEF WrittenIf
  <2>2. Overlaid(txt[g], line, 0, s.open[cur].fcb.length, q)
    BY <1>1, <1>2
  <2>3. AtEase(t, cur, Retexted(txt, g, q))
    BY <1>4, <2>1, <2>2, EaseLine
  <2> QED
    BY <2>3 DEF q
<1> QED
  BY <1>3, <1>4

-----------------------------------------------------------------------------
(* The commands.                                                           *)

Eased == Regular /\ AtEase(State, curdir, text)

\* A command either breaks off or leaves the files at ease.
Lands == broken' = "no" => AtEase(State', curdir', text')

LEMMA LandsOn ==
  ASSUME NEW s, Become(s), s.broken = "no" => AtEase(s, curdir', text')
  PROVE  Lands
<1> SUFFICES ASSUME broken' = "no" PROVE AtEase(State', curdir', text')
  BY DEF Lands
<1>1. AtEase(s, curdir', text')
  BY DEF Become
<1>2. StateFields(s)
  BY <1>1 DEF AtEase, Filed, Sound
<1>3. State' = s
  <2>1. State' = [hard |-> myvhard', open |-> openfilelist', broken |-> broken']
    BY DEF State
  <2> QED
    BY <1>2, <2>1 DEF Become, StateFields
<1> QED
  BY <1>1, <1>3

LEMMA EasedIs ==
  ASSUME Eased
  PROVE  /\ AtEase(State, curdir, text) /\ Sound(State, curdir) /\ State.broken = "no"
         /\ State.open = openfilelist /\ State.hard = myvhard
BY StateIs DEF Eased, Regular, InUse, AtEase, Filed

LEMMA CdDownLands ==
  ASSUME Eased, NEW given \in Name, cd_down(given)
  PROVE  Lands
<1> DEFINE name == Split[given][1]
           ex == Split[given][2]
           o == OpenAs(State, curdir, name, ex)
           s == State
           cur == curdir
           txt == text
           next == IF o.fd = -1 THEN cur ELSE o.fd
<1>1. Become(o.s) /\ curdir' = next /\ text' = text /\ s.open[cur].fcb.directory /\ AtEase(s, cur, txt)
  BY EasedIs DEF cd_down, InDirectory, my_open
<1>2. o = OpenAs(s, cur, name, ex) /\ name \in Given
  BY NameGiven
<1> HIDE DEF o, s, cur, txt, name, ex
<1>3. o.s.broken = "no" => AtEase(o.s, next, txt)
  BY <1>1, <1>2, EaseOpen
<1> HIDE DEF next
<1>4. o.s.broken = "no" => AtEase(o.s, curdir', text')
  BY <1>1, <1>3 DEF txt
<1> QED
  BY <1>1, <1>4, LandsOn

LEMMA OpenLands ==
  ASSUME Eased, NEW given \in Name, open(given)
  PROVE  Lands
<1> DEFINE s == State
           cur == curdir
           txt == text
           name == Split[given][1]
           ex == Split[given][2]
           o == OpenAs(s, cur, name, ex)
           next == IF o.fd = -1 THEN cur ELSE o.fd
           why == "curdir"
<1>1. /\ text' = text /\ s.open[cur].fcb.directory /\ AtEase(s, cur, txt) /\ why # "no" /\ name \in Given
      /\ o.fd = -1 => Become(Break(o.s, why))
      /\ o.fd # -1 => Become(o.s) /\ curdir' = o.fd
  BY EasedIs, NameGiven DEF open, InDirectory, my_open
<1> HIDE DEF s, cur, txt, name, ex, why
<1>2. o.s.broken = "no" => AtEase(o.s, next, txt)
  BY <1>1, EaseOpen
<1>3. StateFields(o.s)
  <2>1. OpenResult(s, o, cur, name, ex)
    BY <1>1, OpenTo DEF AtEase, Filed
  <2> HIDE DEF o
  <2> QED
    BY <2>1 DEF OpenResult
<1> HIDE DEF o
<1>4. CASE o.fd = -1
  <2>1. Break(o.s, why).broken = why
    BY <1>3, Broke
  <2>2. Break(o.s, why).broken # "no" /\ Become(Break(o.s, why))
    BY <1>1, <1>4, <2>1
  <2> QED
    BY <2>2, LandsOn
<1>5. CASE o.fd # -1
  <2>1. o.s.broken = "no" => AtEase(o.s, curdir', text')
    BY <1>1, <1>2, <1>5 DEF txt
  <2> QED
    BY <1>1, <1>5, <2>1, LandsOn
<1> QED
  BY <1>4, <1>5

LEMMA CloseLands ==
  ASSUME Eased, curdir # 0, text' = text,
         Become(my_close(State, curdir).s), curdir' = my_close(State, curdir).fd
  PROVE  Lands
<1> DEFINE s == State
           cur == curdir
           txt == text
           c == my_close(s, cur)
<1>1. AtEase(s, cur, txt) /\ cur # 0 /\ Become(c.s) /\ curdir' = c.fd
  BY EasedIs
<1> HIDE DEF s, cur, txt
<1>2. c.s.broken = "no" => AtEase(c.s, c.fd, txt)
  BY <1>1, EaseClose
<1> HIDE DEF c
<1>3. c.s.broken = "no" => AtEase(c.s, curdir', text')
  BY <1>1, <1>2 DEF txt
<1> QED
  BY <1>1, <1>3, LandsOn

LEMMA CdUpLands ==
  ASSUME Eased, cd_up
  PROVE  Lands
BY CloseLands DEF cd_up

LEMMA InFileNotRoot ==
  ASSUME Eased, InFile
  PROVE  curdir # 0 /\ ~State.open[curdir].fcb.directory
<1>1. ~State.open[curdir].fcb.directory
  BY EasedIs DEF InFile
<1>2. TableInv(State.open, curdir)
  BY EasedIs DEF Sound
<1> QED
  BY <1>1, <1>2 DEF TableInv

LEMMA CloseCommandLands ==
  ASSUME Eased, close
  PROVE  Lands
BY CloseLands, InFileNotRoot DEF close

\* What exit has closed, and cd_root.
LEMMA AllClosed ==
  ASSUME Eased, NEW c, c = CloseAll(State, curdir), c.s.broken = "no"
  PROVE  AtEase(c.s, c.fd, text) /\ c.fd = 0
<1> DEFINE s == State
           cur == curdir
           txt == text
<1>1. AtEase(s, cur, txt) /\ c = CloseAll(s, cur)
  BY EasedIs
<1> HIDE DEF s, cur, txt
<1>2. AtEase(c.s, c.fd, txt) /\ c.fd = 0
  BY <1>1, EaseCloseAll
<1> QED
  BY <1>2 DEF txt

LEMMA CdRootLands ==
  ASSUME Eased, cd_root
  PROVE  Lands
<1> DEFINE c == CloseAll(State, curdir)
<1>1. Become(c.s) /\ curdir' = c.fd /\ text' = text
  BY DEF cd_root
<1>2. c.s.broken = "no" => AtEase(c.s, c.fd, text)
  BY AllClosed
<1> HIDE DEF c
<1>3. c.s.broken = "no" => AtEase(c.s, curdir', text')
  BY <1>1, <1>2
<1> QED
  BY <1>1, <1>3, LandsOn

\* The block and the entry that my_create() and my_mkdir() make.
NewReady(name, isdir, b, fcb) ==
  /\ b \in FreeBlocks(State.hard) /\ NewFcb(fcb, name, isdir, b)
  /\ NewEntry(State, fcb) = NewPut(State, curdir, isdir, b, fcb)
  /\ DotOk(Here[0], curdir)

LEMMA NewMade ==
  ASSUME Eased, RootInv, openfilelist[curdir].fcb.directory, FreeBlocks(myvhard) # {},
         NEW name \in Given, NEW isdir \in BOOLEAN, NEW b, b = findblock(myvhard),
         NEW fcb, fcb = Fcb(name, isdir, b, IF isdir THEN 2 * FCBSIZE ELSE 0)
  PROVE  NewReady(name, isdir, b, fcb)
<1>1. InHere
  BY DEF Eased, Regular, InHere
<1>2. b \in FreeBlocks(State.hard)
  <2> DEFINE M == FreeBlocks(myvhard)
  <2>1. M \subseteq Nat /\ M # {} /\ b = Min(M)
    BY Sizes DEF FreeBlocks, findblock
  <2> HIDE DEF M
  <2>2. b \in M
    BY <2>1, MinFound
  <2> QED
    BY <2>2, StateIs DEF M
<1>3. FcbOk(fcb)
  BY <1>1, NewFcbOk
<1>4. NewFcb(fcb, name, isdir, b)
  BY <1>3 DEF NewFcb
<1>5. fcb.first = b /\ fcb.directory = isdir
  BY DEF Fcb
<1>6. NewEntry(State, fcb) = NewPut(State, curdir, isdir, b, fcb)
  <2> HIDE DEF State
  <2>1. [State EXCEPT !.hard = NewBlock(@, fcb.first, fcb.directory)]
        = OnDisc(State, NewBlock(State.hard, b, isdir))
    BY <1>5 DEF OnDisc
  <2> QED
    BY <2>1 DEF NewEntry, NewPut, Here
<1>7. DotOk(Here[0], curdir)
  <2>1. PICK w : Filed(State, curdir, text, w) /\ AtRest(w)
    BY DEF Eased, AtEase
  <2>2. State.open[curdir].fcb.directory
    BY StateIs
  <2> DEFINE s == State
             cur == curdir
             txt == text
  <2>3. Filed(s, cur, txt, w) /\ AtRest(w) /\ s.open[cur].fcb.directory
    BY <2>1, <2>2
  <2> HIDE DEF s, cur, txt
  <2>4. DotOk(Dir(s, cur)[0], cur)
    BY <2>3, DotFound
  <2> QED
    BY <2>4 DEF s, cur, Here
<1> QED
  BY <1>2, <1>4, <1>6, <1>7 DEF NewReady

LEMMA CreateLands ==
  ASSUME Eased, RootInv, NEW given \in Name, my_create(given)
  PROVE  Lands
<1> DEFINE name == Split[given][1]
           s == State
           cur == curdir
           txt == text
           b == findblock(myvhard)
           dot == Here[0]
           isdir == FALSE
           fcb == Fcb(name, FALSE, b, 0)
           u == NewEntry(State, fcb)
           t == WriteDot(u, cur, dot)
           why == NoRoom
<1>0. name \in Given
  BY NameGiven
<1>1. /\ openfilelist[curdir].fcb.directory /\ curdir' = curdir
      /\ why # "no" => Become(Break(State, why))
      /\ why = "no" => /\ Become(IF u.broken = "no" THEN t ELSE u)
                       /\ text' = [text EXCEPT ![b] = <<>>]
  BY DEF my_create, InDirectory
<1>2. CASE why # "no"
  <2>1. why # "no"
    BY <1>2
  <2> HIDE DEF why
  <2>2. Break(State, why).broken = why
    BY Broke, StateIs
  <2>3. Break(State, why).broken # "no" /\ Become(Break(State, why))
    BY <1>1, <1>2, <2>1, <2>2
  <2> QED
    BY <2>3, LandsOn
<1>3. CASE why = "no"
  <2>0. FreeBlocks(myvhard) # {}
    BY <1>3, RoomFound
  <2>1. isdir \in BOOLEAN /\ ~isdir
    OBVIOUS
  <2>2. fcb = Fcb(name, isdir, b, IF isdir THEN 2 * FCBSIZE ELSE 0)
    OBVIOUS
  <2> HIDE DEF name
  <2>3. AtEase(s, cur, txt) /\ s.open[cur].fcb.directory /\ s = State /\ cur = curdir
    BY <1>1, EasedIs
  <2>4. text' = Retexted(txt, b, <<>>)
    BY <1>1, <1>3 DEF Retexted
  <2>5. b = findblock(myvhard)
    OBVIOUS
  <2> HIDE DEF isdir, fcb, b, dot, why
  <2>6. b \in FreeBlocks(s.hard) /\ NewFcb(fcb, name, isdir, b) /\ u = NewPut(s, cur, isdir, b, fcb) /\ DotOk(dot, cur)
    <3>1. NewReady(name, isdir, b, fcb)
      BY <1>0, <1>1, <2>0, <2>1, <2>2, <2>5, NewMade
    <3> QED
      BY <3>1 DEF dot, NewReady
  <2> HIDE DEF s, cur, txt, u
  <2>7. u.broken = "no" /\ t.broken = "no" => AtEase(t, cur, Retexted(txt, b, <<>>))
    BY <1>0, <1>1, <2>1, <2>3, <2>6, EaseCreate
  <2> HIDE DEF t
  <2>8. CASE u.broken = "no"
    <3>1. Become(t)
      BY <1>1, <1>3, <2>8
    <3>2. t.broken = "no" => AtEase(t, curdir', text')
      BY <1>1, <2>3, <2>4, <2>7, <2>8
    <3> QED
      BY <3>1, <3>2, LandsOn
  <2>9. CASE u.broken # "no"
    <3>1. Become(u)
      BY <1>1, <1>3, <2>9
    <3> QED
      BY <2>9, <3>1, LandsOn
  <2> QED
    BY <2>8, <2>9
<1> QED
  BY <1>2, <1>3

\* my_mkdir() in the root writes the root's length into its own entry.
LandsInSync == Lands /\ (broken' = "no" /\ curdir = 0 => Synced(myvhard', openfilelist'))

LEMMA NoDot ==
  ASSUME NEW name \in Name, ~HasDot(name)
  PROVE  Split[name][1] = name /\ Split[name][2] = ""
<1>1. Split[name] = <<name, "">>
  BY Zenon DEF HasDot
<1>2. \A a, c : a = <<name, c>> => a[1] = name /\ a[2] = c
  OBVIOUS
<1> QED
  BY <1>1, <1>2

LEMMA MkdirLands ==
  ASSUME Eased, RootInv, NEW name \in Name, ~HasDot(name), my_mkdir(name)
  PROVE  LandsInSync
<1> DEFINE s == State
           cur == curdir
           txt == text
           b == findblock(myvhard)
           dot == Here[0]
           isdir == TRUE
           fcb == Fcb(name, TRUE, b, 2 * FCBSIZE)
           u == NewEntry(State, fcb)
           t == FillDirectory(u, name, b)
           why == NoRoom
<1>1. /\ openfilelist[curdir].fcb.directory /\ curdir' = curdir /\ name \in Given /\ text' = text
      /\ Matches(Here, name, "") = {}
      /\ why # "no" => Become(Break(State, why))
      /\ why = "no" => Become(t)
  BY NameGiven DEF my_mkdir, InDirectory, Taken
<1>2. CASE why # "no"
  <2>1. why # "no"
    BY <1>2
  <2> HIDE DEF why
  <2>2. Break(State, why).broken = why
    BY Broke, StateIs
  <2>3. Break(State, why).broken # "no" /\ Become(Break(State, why))
    BY <1>1, <1>2, <2>1, <2>2
  <2>4. broken' # "no"
    BY <2>3 DEF Become
  <2> QED
    BY <2>4 DEF LandsInSync, Lands
<1>3. CASE why = "no"
  <2>0. FreeBlocks(myvhard) # {}
    BY <1>3, RoomFound
  <2>1. isdir \in BOOLEAN /\ isdir
    OBVIOUS
  <2>2. fcb = Fcb(name, isdir, b, IF isdir THEN 2 * FCBSIZE ELSE 0)
    OBVIOUS
  <2>3. /\ AtEase(s, cur, txt) /\ s.open[cur].fcb.directory /\ s = State /\ cur = curdir
        /\ Matches(Dir(s, cur), name, "") = {}
    BY <1>1, EasedIs DEF Here
  <2>5. b = findblock(myvhard)
    OBVIOUS
  <2> HIDE DEF isdir, fcb, b, dot, why
  <2>6. b \in FreeBlocks(s.hard) /\ NewFcb(fcb, name, isdir, b) /\ u = NewPut(s, cur, isdir, b, fcb) /\ DotOk(dot, cur)
    <3>1. NewReady(name, isdir, b, fcb)
      BY <1>1, <2>0, <2>1, <2>2, <2>5, NewMade
    <3> QED
      BY <3>1 DEF dot, NewReady
  <2>7. t = IF u.broken # "no" THEN u ELSE FilledUp(u, cur, name, b, dot)
    <3>1. Split[name][1] = name /\ Split[name][2] = ""
      BY NoDot
    <3> QED
      BY <3>1 DEF FillDirectory, FilledUp, TwoDots, dot, my_open
  <2> HIDE DEF s, cur, txt, u, t
  <2> DEFINE z == FilledUp(u, cur, name, b, dot)
  <2>8. u.broken = "no" /\ z.broken = "no" => EndsAtEase(z, cur, txt)
    BY <1>1, <2>1, <2>3, <2>6, EaseMkdir
  <2> HIDE DEF z
  <2>9. t.broken = "no" => EndsAtEase(t, cur, txt)
    BY <2>7, <2>8 DEF z
  <2>10. Become(t)
    BY <1>1, <1>3
  <2>11. t.broken = "no" => AtEase(t, curdir', text')
    BY <1>1, <2>3, <2>9 DEF EndsAtEase, txt
  <2>12. Lands
    BY <2>10, <2>11, LandsOn
  <2>13. broken' = "no" /\ curdir = 0 => Synced(myvhard', openfilelist')
    BY <2>3, <2>9, <2>10 DEF EndsAtEase, Become
  <2> QED
    BY <2>12, <2>13 DEF LandsInSync
<1> QED
  BY <1>2, <1>3

LEMMA RemovedHere ==
  ASSUME NEW i, NEW first
  PROVE  RemoveEntry(State, i, first) = Removed(State, curdir, i, first)
<1> DEFINE s == State
<1>1. [s EXCEPT !.hard = FreeChain(@, first)] = OnDisc(s, FreeChain(s.hard, first))
  <2> HIDE DEF s
  <2> QED
    BY DEF OnDisc
<1> QED
  BY <1>1 DEF RemoveEntry, Removed, Marked, Here

LEMMA RmLands ==
  ASSUME Eased, NEW given \in Name, my_rm(given)
  PROVE  Lands
<1> DEFINE s == State
           cur == curdir
           txt == text
           name == Split[given][1]
           ex == "x"
           i == Min(Matches(Dir(s, cur), name, ex))
           g == Dir(s, cur)[i].first
           t == Removed(s, cur, i, g)
<1>1. /\ Become(t) /\ curdir' = curdir /\ name \in Given
      /\ Matches(Dir(s, cur), name, ex) # {} /\ text' = Retexted(txt, g, <<>>)
  BY RemovedHere, NameGiven DEF my_rm, Taken, Here, Retexted
<1>2. AtEase(s, cur, txt) /\ s.open[cur].fcb.directory
  BY EasedIs DEF my_rm, InDirectory
<1>3. ex # "" /\ cur = curdir
  OBVIOUS
<1> HIDE DEF s, cur, txt, name, ex
<1>4. t.broken = "no" => AtEase(t, cur, Retexted(txt, g, <<>>))
  BY <1>1, <1>2, <1>3, EaseRm
<1> HIDE DEF t, g
<1>5. t.broken = "no" => AtEase(t, curdir', text')
  BY <1>1, <1>3, <1>4
<1> QED
  BY <1>1, <1>5, LandsOn

LEMMA RmdirLands ==
  ASSUME Eased, NEW name \in Name, ~HasDot(name), my_rmdir(name)
  PROVE  Lands
<1> DEFINE s == State
           cur == curdir
           txt == text
           ex == ""
           i == Min(Matches(Dir(s, cur), name, ex))
           o == OpenAs(s, cur, name, ex)
           r == o.s
           fd == o.fd
           why == "rmdir"
           long == "text2"
           tooLong == r.open[fd].fcb.length = 0 \/ ~Fits(r, fd)
           t == IF fd = -1 THEN Break(r, why)
                ELSE IF tooLong THEN Break(r, long)
                ELSE IF ~IsEmpty(r, fd) THEN Release(r, fd)
                ELSE RemoveEntry(Release(r, fd), i, r.open[fd].fcb.first)
<1>1. /\ Become(t) /\ curdir' = curdir /\ name \in Given /\ text' = text
      /\ Matches(Dir(s, cur), name, ex) # {}
  <2>1. Split[name][1] = name /\ Split[name][2] = ""
    BY NoDot
  <2> QED
    BY <2>1, NameGiven DEF my_rmdir, Taken, Here, my_open
<1>2. AtEase(s, cur, txt) /\ s.open[cur].fcb.directory /\ cur = curdir /\ s = State /\ txt = text
  BY EasedIs DEF my_rmdir, InDirectory
<1>3. OfDirectory(ex) /\ why # "no" /\ long # "no"
  BY DEF OfDirectory
<1> HIDE DEF s, cur, txt, ex, why, long, tooLong
<1>4. PICK w : Filed(s, cur, txt, w) /\ AtRest(w)
  BY <1>2 DEF AtEase
<1>5. OpenResult(s, o, cur, name, ex)
  BY <1>1, <1>2, <1>4, OpenTo DEF Filed
<1>6. /\ StateFields(r)
      /\ fd # -1 => OpenedTo(s, r, cur, fd, i) /\ ~Blocked(s.open, cur, name, ex)
  <2> HIDE DEF o
  <2> QED
    BY <1>5 DEF OpenResult
<1> HIDE DEF o, r, fd
<1>7. CASE fd = -1
  <2>1. Break(r, why).broken = why
    BY <1>6, Broke
  <2>2. t.broken # "no"
    BY <1>3, <1>7, <2>1
  <2> HIDE DEF t
  <2> QED
    BY <1>1, <2>2, LandsOn
<1>8. CASE fd # -1 /\ tooLong
  <2>1. Break(r, long).broken = long
    BY <1>6, Broke
  <2>2. t.broken # "no"
    BY <1>3, <1>8, <2>1
  <2> HIDE DEF t
  <2> QED
    BY <1>1, <2>2, LandsOn
<1>9. CASE fd # -1 /\ ~tooLong
  <2>1. OpenedTo(s, r, cur, fd, i) /\ ~Blocked(s.open, cur, name, ex)
    BY <1>6, <1>9
  <2>2. Release(r, fd) = s
    BY <1>4, <2>1, ReleasedSame
  <2>3. CASE ~IsEmpty(r, fd)
    <3>1. t = s
      BY <1>9, <2>2, <2>3
    <3> HIDE DEF t
    <3>2. AtEase(t, curdir', text')
      BY <1>1, <1>2, <3>1
    <3> QED
      BY <1>1, <3>2, LandsOn
  <2>4. CASE IsEmpty(r, fd)
    <3> DEFINE g == r.open[fd].fcb.first
    <3>1. t = RemoveEntry(State, i, g)
      BY <1>2, <1>9, <2>2, <2>4
    <3> HIDE DEF t, i, g
    <3>2. t = Removed(s, cur, i, g)
      BY <1>2, <3>1, RemovedHere
    <3>3. i = Min(Matches(Dir(s, cur), name, ex)) /\ t = Removed(s, cur, i, r.open[fd].fcb.first)
      BY <3>2 DEF i, g
    <3>4. t.broken = "no" => AtEase(t, cur, txt)
      BY <1>1, <1>2, <1>3, <2>1, <2>4, <3>3, EaseRmdir
    <3>5. t.broken = "no" => AtEase(t, curdir', text')
      BY <1>1, <1>2, <3>4
    <3> QED
      BY <1>1, <3>5, LandsOn
  <2> QED
    BY <2>3, <2>4
<1> QED
  BY <1>7, <1>8, <1>9

LEMMA WriteLands ==
  ASSUME Eased, NEW style \in {"cut", "cover", "add"}, NEW line \in Lines \union {<<>>}, my_write(style, line)
  PROVE  Lands
<1> DEFINE s == State
           cur == curdir
           txt == text
           g == s.open[cur].fcb.first
           length == s.open[cur].fcb.length
           old == txt[g]
           u == IF style = "cut"
                THEN [s EXCEPT !.hard = Cut(@, g), !.open[cur].fcb.length = 0]
                ELSE s
           count == IF style = "add" THEN length ELSE 0
           rest == IF style = "cover" THEN SubSeq(old, count + Len(line) + 1, Len(old)) ELSE <<>>
           t == IF line = <<>> THEN u ELSE do_write(u, cur, count, Chars(line))
           q == SubSeq(old, 1, count) \o (line \o rest)
<1>1. Become(t) /\ curdir' = curdir /\ text' = [txt EXCEPT ![g] = q]
  <2>1. s.open[cur].fcb = openfilelist[curdir].fcb
    BY StateIs, SMTT(30)
  <2>2. ~dotted
    BY DEF Eased, Regular
  <2> QED
    BY <2>1, <2>2 DEF my_write
<1>2. AtEase(s, cur, txt) /\ ~s.open[cur].fcb.directory /\ cur = curdir
  BY EasedIs, InFileNotRoot DEF my_write
<1>3. t = WrittenIf(u, cur, count, line) /\ q = Spliced(old, count, line, rest)
  BY DEF WrittenIf, Spliced
<1> HIDE DEF s, cur, txt, u, count, rest, t, q
<1>4. text' = Retexted(txt, g, q)
  BY <1>1 DEF Retexted
<1>5. t.broken = "no" => AtEase(t, cur, Retexted(txt, g, q))
  <2>1. CASE style = "cut"
    <3>1. u = Shortened(s, cur)
      BY <2>1 DEF u, Shortened
    <3>2. count = 0 /\ rest = <<>>
      BY <2>1 DEF count, rest
    <3>3. t = WrittenIf(Shortened(s, cur), cur, 0, line) /\ q = Spliced(txt[g], 0, line, <<>>)
      BY <1>3, <3>1, <3>2
    <3> DEFINE k == g
    <3>4. k = s.open[cur].fcb.first /\ q = Spliced(txt[k], 0, line, <<>>)
      BY <3>3
    <3> HIDE DEF k
    <3>5. t.broken = "no" => AtEase(t, cur, Retexted(txt, k, Spliced(txt[k], 0, line, <<>>)))
      BY <1>2, <3>3, <3>4, EaseCut
    <3> QED
      BY <3>4, <3>5 DEF k
  <2>2. CASE style = "add"
    <3>1. u = s /\ count = length /\ rest = <<>>
      BY <2>2 DEF u, count, rest
    <3> DEFINE k == g
               n == length
    <3>2. t = WrittenIf(s, cur, n, line) /\ q = Spliced(txt[k], n, line, <<>>)
      BY <1>3, <3>1
    <3>3. k = s.open[cur].fcb.first /\ n = s.open[cur].fcb.length
      OBVIOUS
    <3> HIDE DEF k, n
    <3>4. t.broken = "no" => AtEase(t, cur, Retexted(txt, k, Spliced(txt[k], n, line, <<>>)))
      BY <1>2, <3>2, <3>3, EaseAdd
    <3> QED
      BY <3>2, <3>4 DEF k
  <2>3. CASE style = "cover"
    <3>1. u = s /\ count = 0
      BY <2>3 DEF u, count
    <3>2. rest = SubSeq(txt[g], Len(line) + 1, Len(txt[g]))
      <4>1. line \in Seq(Character)
        BY LineIs
      <4>2. 0 + Len(line) + 1 = Len(line) + 1
        BY <4>1, LenProperties
      <4> QED
        BY <2>3, <3>1, <4>2 DEF rest
    <3> DEFINE k == g
    <3>3. t = WrittenIf(s, cur, 0, line) /\ q = Spliced(txt[k], 0, line, SubSeq(txt[k], Len(line) + 1, Len(txt[k])))
      BY <1>3, <3>1, <3>2
    <3>4. k = s.open[cur].fcb.first
      OBVIOUS
    <3> HIDE DEF k
    <3>5. t.broken = "no" => AtEase(t, cur, Retexted(txt, k,
                               Spliced(txt[k], 0, line, SubSeq(txt[k], Len(line) + 1, Len(txt[k])))))
      BY <1>2, <3>3, <3>4, EaseCover
    <3> QED
      BY <3>3, <3>5 DEF k
  <2> QED
    BY <2>1, <2>2, <2>3
<1> HIDE DEF g
<1>6. t.broken = "no" => AtEase(t, curdir', text')
  BY <1>1, <1>2, <1>4, <1>5
<1> QED
  BY <1>1, <1>6, LandsOn

-----------------------------------------------------------------------------
(* The disc's file: what exit saves, startsys() finds.                     *)

RootFcb(h) == h.block[Root][0][2]

\* startsys() finds the files at rest.
ImageInv ==
  \E w : AtRest(w) /\ FilesInv(myfilesys.image, StartTable(RootFcb(myfilesys.image)), 0, myfilesys.text, w)

ImageGood == ~myfilesys.dotted => ImageInv

LEMMA ImageStays == ASSUME ImageGood, UNCHANGED myfilesys PROVE ImageGood'
BY DEF ImageGood, ImageInv

LEMMA StartTableIs ==
  ASSUME NEW h, DiscInv(h)
  PROVE  LET o == StartTable(RootFcb(h))
         IN  /\ TableInv(o, 0) /\ o[0].fcb = RootFcb(h) /\ o[0].fcb.first = Root /\ o[0].topenfile
             /\ \A fd \in Fd \ {0} : o[fd] = Closed /\ ~o[fd].topenfile
<1> DEFINE u == h.block[Root][0]
           root == u[2]
           o == StartTable(root)
<1>1. UnitOk(u) /\ IsDot(u)
  BY Places DEF DiscInv, UnitsOk
<1>2. FcbOk(root) /\ root.first = Root /\ root.directory /\ root.filename = "."
  BY <1>1 DEF UnitOk, IsDot
<1>3. root = RootFcb(h)
  BY DEF RootFcb
<1> HIDE DEF root
<1>4. TableInv(o, 0) /\ o[0].fcb = root
  BY <1>2, StartsOk
<1>5. \A fd \in Fd \ {0} : o[fd] = Closed
  BY DEF StartTable
<1> HIDE DEF o
<1>6. o[0].topenfile /\ o[0].fcb.first = Root
  BY <1>4 DEF TableInv
<1>7. \A fd \in Fd \ {0} : ~o[fd].topenfile
  BY <1>5, ClosedOk
<1> QED
  BY <1>3, <1>4, <1>5, <1>6, <1>7 DEF o

LEMMA OpenRoot ==
  ASSUME NEW h, DiscInv(h), NEW o, TableInv(o, 0), NEW w, OpenInv(h, o, 0, w), w.above[Root] = {},
         Synced(h, o), NEW p, p = StartTable(RootFcb(h))
  PROVE  OpenInv(h, p, 0, w)
<1>1. /\ TableInv(p, 0) /\ p[0].fcb = RootFcb(h) /\ p[0].fcb.first = Root /\ p[0].topenfile
      /\ \A fd \in Fd \ {0} : p[fd] = Closed /\ ~p[fd].topenfile
  BY StartTableIs
<1>2. /\ o[0].topenfile /\ o[0].fcb.first = Root /\ 0 \in Fd
  BY Places DEF TableInv
<1>3. OpenHead(h, w, o[0].fcb) /\ OpenAbove(o, 0) = {} /\ ClosedLengths(h, o, w)
  BY <1>2 DEF OpenInv
<1>4. p[0].fcb.length = o[0].fcb.length
  BY <1>1 DEF Synced, RootFcb
<1>5. OpenHead(h, w, p[0].fcb)
  BY <1>1, <1>2, <1>3, <1>4 DEF OpenHead
<1>6. \A fd \in Fd : ~o[fd].topenfile \/ fd = 0
  BY <1>3 DEF OpenAbove
<1>7. \A g : IsOpen(o, g) <=> IsOpen(p, g)
  BY <1>1, <1>2, <1>6 DEF IsOpen
<1>8. ClosedLengths(h, p, w)
  BY <1>3, <1>7 DEF ClosedLengths
<1>9. OpenAbove(p, 0) = w.above[p[0].fcb.first]
  BY <1>1 DEF OpenAbove
<1>10. \A fd \in Fd : IF p[fd].topenfile THEN OpenHead(h, w, p[fd].fcb) ELSE p[fd] = Closed
  BY <1>1, <1>5
<1>11. \A fd \in Fd \ {0} : ~p[fd].topenfile
  BY <1>1
<1> HIDE DEF OpenHead
<1> QED
  BY <1>8, <1>9, <1>10, <1>11 DEF OpenInv

LEMMA ExitSaves ==
  ASSUME Eased, RootInv, RootIsUpToDate, ImageGood, my_exitsys
  PROVE  ImageGood' /\ ~Regular'
<1> DEFINE c == CloseAll(State, curdir)
           h == c.s.hard
           o == c.s.open
<1>1. ClosedTo(State, c)
  BY EasedIs, CloseAllTo
<1>2. Synced(State.hard, State.open)
  BY StateIs DEF RootIsUpToDate, Synced, Eased, Regular
<1>3. c.s.broken = "no" => AtEase(c.s, c.fd, text) /\ c.fd = 0
  BY AllClosed
<1>4. \/ c.s.broken = "no" /\ myfilesys' = [image |-> c.s.hard, text |-> text, dotted |-> dotted] /\ Gone
      \/ c.s.broken # "no" /\ Become(c.s) /\ UNCHANGED myfilesys
  BY DEF my_exitsys
<1> HIDE DEF c
<1>5. CASE c.s.broken = "no" /\ myfilesys' = [image |-> c.s.hard, text |-> text, dotted |-> dotted] /\ Gone
  <2>1. PICK w : Filed(c.s, 0, text, w) /\ AtRest(w)
    BY <1>3, <1>5 DEF AtEase
  <2>2. DiscInv(h) /\ TableInv(o, 0) /\ Synced(h, o)
    BY <1>1, <1>2, <1>5, <2>1 DEF ClosedTo, Filed, Sound
  <2>3. DiscFiles(h, text, w) /\ OpenInv(h, o, 0, w) /\ w.above[Root] = {}
    BY <2>1 DEF Filed, FilesInv, DiscFiles, AboveInv
  <2> HIDE DEF h, o
  <2>4. OpenInv(h, StartTable(RootFcb(h)), 0, w)
    BY <2>2, <2>3, OpenRoot
  <2>5. FilesInv(h, StartTable(RootFcb(h)), 0, text, w)
    BY <2>3, <2>4 DEF FilesInv
  <2>6. myfilesys'.image = h /\ myfilesys'.text = text
    BY <1>5 DEF h
  <2>7. ImageInv'
    BY <2>1, <2>5, <2>6 DEF ImageInv
  <2>8. ~Regular'
    BY <1>5 DEF Gone, InUse, Regular
  <2> QED
    BY <2>7, <2>8 DEF ImageGood
<1>6. ASSUME c.s.broken # "no" /\ Become(c.s) /\ UNCHANGED myfilesys
      PROVE  ImageGood' /\ ~Regular'
  <2>1. ~Regular'
    BY <1>6 DEF Become, InUse, Regular
  <2>2. ImageGood'
    BY <1>6, ImageStays
  <2> QED
    BY <2>1, <2>2
<1> QED
  BY <1>4, <1>5, <1>6

LEMMA ExitDotted ==
  ASSUME ImageGood, dotted, my_exitsys
  PROVE  ImageGood' /\ ~Regular'
<1> DEFINE c == CloseAll(State, curdir)
<1>1. \/ myfilesys' = [image |-> c.s.hard, text |-> text, dotted |-> dotted] /\ Gone
      \/ c.s.broken # "no" /\ Become(c.s) /\ UNCHANGED myfilesys
  BY DEF my_exitsys
<1> HIDE DEF c
<1>2. CASE myfilesys' = [image |-> c.s.hard, text |-> text, dotted |-> dotted] /\ Gone
  BY <1>2 DEF Gone, Regular, InUse, ImageGood
<1>3. CASE c.s.broken # "no" /\ Become(c.s) /\ UNCHANGED myfilesys
  BY <1>3, ImageStays DEF Become, Regular, InUse
<1> QED
  BY <1>1, <1>2, <1>3

LEMMA StartLands ==
  ASSUME RootInv, ImageGood, startsys
  PROVE  Regular' => AtEase(State', curdir', text')
<1> SUFFICES ASSUME Regular' PROVE AtEase(State', curdir', text')
  OBVIOUS
<1> DEFINE h == myfilesys.image
           o == StartTable(RootFcb(h))
           txt == myfilesys.text
<1>1. PICK w : AtRest(w) /\ FilesInv(h, o, 0, txt, w)
  BY DEF ImageGood, ImageInv, startsys, Regular
<1>2. /\ myvhard' = h /\ curdir' = 0 /\ openfilelist' = o /\ text' = txt
  BY DEF startsys, StartTable, RootFcb
<1>3. DiscInv(h)
  BY DEF RootInv
<1> HIDE DEF h
<1>4. TableInv(o, 0)
  BY <1>3, StartTableIs
<1> HIDE DEF o, txt
<1> DEFINE s == State'
<1>5. s = [hard |-> h, open |-> o, broken |-> broken'] /\ broken' = "no"
  BY <1>2 DEF State, InUse, Regular
<1> HIDE DEF s
<1>6. s.hard = h /\ s.open = o /\ s.broken = "no" /\ StateFields(s)
  BY <1>5 DEF StateFields
<1>7. Filed(s, 0, txt, w)
  BY <1>1, <1>3, <1>4, <1>6 DEF Filed, Sound
<1>8. AtEase(s, 0, txt)
  BY <1>1, <1>7 DEF AtEase
<1> QED
  BY <1>2, <1>8 DEF s

-----------------------------------------------------------------------------
(* The files of a disc as my_format() makes it: the root directory alone.  *)

LEMMA FormatFats ==
  /\ my_format.fat2 = my_format.fat1 /\ my_format.fat1[Root] = Root + 1
  /\ my_format.fat1[Root + 1] = END
  /\ \A b \in Block : b >= FirstData => my_format.fat1[b] = FREE
<1> DEFINE fat == [b \in Block |-> CASE b = Root -> Root + 1
                                     [] b \in FirstData .. Blocks - 1 -> FREE
                                     [] OTHER -> END]
<1>1. my_format.fat1 = fat /\ my_format.fat2 = fat
  BY DEF my_format
<1>2. /\ Root \in Block /\ Root + 1 \in Block /\ Root + 1 # Root /\ Root + 1 \notin FirstData .. Blocks - 1
      /\ Root \notin FirstData .. Blocks - 1
  BY Sizes DEF Block
<1>3. fat[Root] = Root + 1
  BY <1>2
<1>5. fat[Root + 1] = END
  BY <1>2
<1>4. ASSUME NEW b \in Block, b >= FirstData PROVE fat[b] = FREE
  <2>1. b \in FirstData .. Blocks - 1 /\ b # Root
    BY <1>4, Sizes DEF Block
  <2> QED
    BY <2>1
<1> HIDE DEF fat
<1> QED
  BY <1>1, <1>3, <1>4, <1>5

Parts(fcb) == {<<"fcb", fcb, k>> : k \in 1 .. FCBSIZE}

LEMMA PartsOf ==
  ASSUME NEW fcb
  PROVE  /\ Units(fcb) \in Seq(Parts(fcb)) /\ Len(Units(fcb)) = FCBSIZE /\ Units(fcb)[1] = <<"fcb", fcb, 1>>
         /\ \A u \in Parts(fcb) : u[2] = fcb
<1> DEFINE u == Units(fcb)
<1>1. FCBSIZE \in Nat /\ FCBSIZE > 0
  BY Sizes
<1>2. u = [k \in 1 .. FCBSIZE |-> <<"fcb", fcb, k>>]
  BY DEF Units
<1> HIDE DEF u
<1>3. u[1] = <<"fcb", fcb, 1>>
  BY <1>1, <1>2
<1>4. \A k \in 1 .. FCBSIZE : <<"fcb", fcb, k>> \in Parts(fcb)
  BY DEF Parts
<1>5. u \in [1 .. FCBSIZE -> Parts(fcb)]
  BY <1>2, <1>4
<1>6. u \in Seq(Parts(fcb)) /\ Len(u) = FCBSIZE
  BY <1>1, <1>5
<1>7. \A v \in Parts(fcb) : v[2] = fcb
  BY DEF Parts
<1> QED
  BY <1>3, <1>6, <1>7 DEF u

LEMMA FormatUnits ==
  ASSUME NEW one, one = Fcb(".", TRUE, Root, 2 * FCBSIZE),
         NEW other, other = Fcb("..", TRUE, Root, 2 * FCBSIZE)
  PROVE  /\ my_format.block[Root][0] = <<"fcb", one, 1>>
         /\ \A b \in Block, j \in Unit :
              \/ my_format.block[b][j] = Zero
              \/ my_format.block[b][j][2] \in {one, other}
<1> DEFINE u1 == Units(one)
           u2 == Units(other)
           units == u1 \o u2
           block == [b \in Block |-> [j \in Unit |->
                       IF b = Root /\ j + 1 \in DOMAIN units THEN units[j + 1] ELSE Zero]]
           first == <<"fcb", one, 1>>
           S == Parts(one) \union Parts(other)
<1>1. my_format.block = block
  BY DEF my_format
<1>2. FCBSIZE \in Nat /\ FCBSIZE > 0 /\ 0 \in Unit /\ Root \in Block
  BY Sizes, Places
<1>3. /\ u1 \in Seq(Parts(one)) /\ Len(u1) = FCBSIZE /\ u1[1] = first
      /\ \A u \in Parts(one) : u[2] = one
  BY PartsOf
<1>4. u2 \in Seq(Parts(other)) /\ \A u \in Parts(other) : u[2] = other
  BY PartsOf
<1> HIDE DEF u1, u2, first
<1>5. u1 \in Seq(S) /\ u2 \in Seq(S)
  BY <1>3, <1>4, SeqMonotonic
<1>6. \A u \in S : u[2] \in {one, other}
  BY <1>3, <1>4
<1> HIDE DEF S
<1>7. /\ units \in Seq(S) /\ Len(units) = Len(u1) + Len(u2)
      /\ \A k \in 1 .. Len(u1) + Len(u2) : units[k] = IF k <= Len(u1) THEN u1[k] ELSE u2[k - Len(u1)]
  BY <1>5, ConcatProperties, Zenon
<1>8. Len(u2) \in Nat
  BY <1>5, LenProperties
<1> HIDE DEF units
<1>9. DOMAIN units = 1 .. Len(units) /\ \A k \in DOMAIN units : units[k] \in S
  BY <1>7, LenProperties, ElementOfSeq
<1>10. 1 \in DOMAIN units /\ units[1] = u1[1]
  BY <1>2, <1>3, <1>7, <1>8, <1>9
<1>11. 0 + 1 \in DOMAIN units
  BY <1>10
<1>12. block[Root][0] = units[1]
  BY <1>2, <1>11
<1>13. \A b \in Block, j \in Unit : block[b][j] = Zero \/ block[b][j][2] \in {one, other}
  BY <1>6, <1>9
<1> HIDE DEF block
<1> QED
  BY <1>1, <1>3, <1>10, <1>12, <1>13 DEF first

LEMMA FormatNames ==
  /\ RootFcb(my_format).length = 2 * FCBSIZE
  /\ \A b \in Block, j \in Unit : ~Live(my_format.block[b][j])
<1> DEFINE yes == TRUE
           two == 2 * FCBSIZE
           one == Fcb(".", yes, Root, two)
           other == Fcb("..", yes, Root, two)
<1>1. /\ "." \in Given \union Dots \union {""} /\ ".." \in Given \union Dots \union {""}
      /\ yes \in BOOLEAN /\ Root \in Block /\ two \in Nat
  BY Sizes, Places DEF Dots
<1>2. /\ my_format.block[Root][0] = <<"fcb", one, 1>>
      /\ \A b \in Block, j \in Unit :
           \/ my_format.block[b][j] = Zero
           \/ my_format.block[b][j][2] \in {one, other}
  <2>1. one = Fcb(".", TRUE, Root, 2 * FCBSIZE) /\ other = Fcb("..", TRUE, Root, 2 * FCBSIZE)
    OBVIOUS
  <2> HIDE DEF one, other
  <2> QED
    BY <2>1, FormatUnits
<1> HIDE DEF yes, two
<1>3. FcbWith(one, ".", yes, Root, two) /\ FcbWith(other, "..", yes, Root, two)
  BY <1>1, FcbMade
<1> HIDE DEF one, other
<1>4. one.filename = "." /\ other.filename = ".." /\ one.length = two
  BY <1>3 DEF FcbWith
<1>5. Zero[1] # "fcb"
  BY DEF Zero
<1>6. ASSUME NEW b \in Block, NEW j \in Unit PROVE ~Live(my_format.block[b][j])
  BY <1>2, <1>4, <1>5, Names DEF Live
<1>7. my_format.block[Root][0][2] = one
  BY <1>2
<1>8. two = 2 * FCBSIZE
  BY DEF two
<1> QED
  BY <1>4, <1>6, <1>7, <1>8 DEF RootFcb

RootBlocks == <<Root, Root + 1>>

LEMMA FormatChain ==
  /\ OneChain(my_format, Root) /\ Chain(my_format, Root) = RootBlocks
  /\ ToSet(RootBlocks) = {Root, Root + 1} /\ Room(my_format, Root) = 2 * BLOCKSIZE
<1> DEFINE h == my_format
<1>1. RootBlocks \in Seq(Block) /\ Len(RootBlocks) = 2 /\ RootBlocks[1] = Root /\ RootBlocks[2] = Root + 1
  BY Sizes DEF RootBlocks, Block
<1>2. h.fat1[Root] = Root + 1 /\ h.fat1[Root + 1] = END
  BY FormatFats
<1> HIDE DEF h
<1>3. IsChain(h.fat1, RootBlocks, Root)
  <2> HIDE DEF RootBlocks
  <2>1. \A i \in 1 .. 2 : RootBlocks[i] >= Root
    BY <1>1, Sizes
  <2>2. \A i, j \in 1 .. 2 : RootBlocks[i] = RootBlocks[j] => i = j
    BY <1>1, Sizes
  <2>3. \A i \in 1 .. 2 - 1 : h.fat1[RootBlocks[i]] = RootBlocks[i + 1]
    BY <1>1, <1>2
  <2> QED
    BY <1>1, <1>2, <2>1, <2>2, <2>3 DEF IsChain
<1>4. Chain(h, Root) = RootBlocks
  BY <1>3, ChainIs
<1>5. OneChain(h, Root)
  BY <1>3, <1>4 DEF OneChain
<1>6. ToSet(RootBlocks) = {Root, Root + 1}
  <2>1. ToSet(RootBlocks) = {RootBlocks[i] : i \in 1 .. Len(RootBlocks)}
    BY <1>1, ToSetOf
  <2> HIDE DEF RootBlocks
  <2>2. 1 .. Len(RootBlocks) = {1, 2}
    BY <1>1
  <2> QED
    BY <1>1, <2>1, <2>2
<1>7. Room(h, Root) = 2 * BLOCKSIZE
  BY <1>1, <1>4 DEF Room
<1> QED
  BY <1>4, <1>5, <1>6, <1>7 DEF h

LEMMA FormatFilled == Filled(my_format, Root)
<1> DEFINE h == my_format
<1>1. Chain(h, Root)[1] = Root
  BY FormatChain DEF RootBlocks
<1>2. IsDot(h.block[Root][0]) /\ IsDotDot(h.block[Root][FCBSIZE])
  BY Formatted DEF DiscInv
<1> HIDE DEF h
<1>3. ASSUME NEW p \in Nat, p < BLOCKSIZE PROVE Cell(h, Root, p) = h.block[Root][p]
  <2>1. p \div BLOCKSIZE = 0 /\ p % BLOCKSIZE = p
    BY <1>3, Sizes, SmallQuotient
  <2> QED
    BY <1>1, <2>1 DEF Cell
<1>4. 0 < BLOCKSIZE /\ FCBSIZE < BLOCKSIZE /\ 0 * FCBSIZE = 0 /\ 1 * FCBSIZE = FCBSIZE /\ FCBSIZE \in Nat
  BY Sizes, Times
<1>5. Cell(h, Root, 0 * FCBSIZE) = h.block[Root][0] /\ Cell(h, Root, 1 * FCBSIZE) = h.block[Root][FCBSIZE]
  BY <1>3, <1>4
<1>6. Entry(h, Root, 0).free = 1 /\ Entry(h, Root, 1).free = 1
  BY <1>2, <1>5 DEF Entry, EntryOf, IsDot, IsDotDot
<1> QED
  BY <1>6 DEF Filled, h

\* The tree of a new disc.
RootOnly ==
  [heads |-> {Root}, dirs |-> {Root}, up |-> [b \in Block |-> Root], at |-> [b \in Block |-> 0],
   length |-> [b \in Block |-> 2 * FCBSIZE], above |-> [b \in Block |-> {}],
   depth |-> [b \in Block |-> 0], orphans |-> {}, holes |-> {}, raw |-> {}]

LEMMA RootOnlyIs ==
  /\ WitnessType(RootOnly) /\ AtRest(RootOnly) /\ AboveInv(RootOnly)
  /\ RootOnly.heads = {Root} /\ RootOnly.dirs = {Root} /\ Heads(RootOnly) = {Root}
  /\ RootOnly.length[Root] = 2 * FCBSIZE /\ RootOnly.above[Root] = {}
<1> DEFINE w == RootOnly
<1>1. /\ w.heads = {Root} /\ w.dirs = {Root} /\ w.up = [b \in Block |-> Root]
      /\ w.at = [b \in Block |-> 0] /\ w.length = [b \in Block |-> 2 * FCBSIZE]
      /\ w.above = [b \in Block |-> {}] /\ w.depth = [b \in Block |-> 0]
      /\ w.orphans = {} /\ w.holes = {} /\ w.raw = {}
  BY DEF RootOnly
<1>2. Root \in Block /\ 2 * FCBSIZE \in Nat
  BY Places, Sizes
<1> HIDE DEF w
<1>3. WitnessType(w)
  BY <1>1, <1>2 DEF WitnessType
<1>4. Cardinality({}) = 0
  BY FS_EmptySet
<1>5. AboveInv(w)
  BY <1>1, <1>2, <1>4 DEF AboveInv
<1>6. AtRest(w) /\ Heads(w) = {Root} /\ w.length[Root] = 2 * FCBSIZE /\ w.above[Root] = {}
  BY <1>1, <1>2 DEF AtRest, Heads
<1> QED
  BY <1>1, <1>3, <1>5, <1>6 DEF w

LEMMA FormatDisc == DiscFiles(my_format, NoText, RootOnly)
<1> DEFINE h == my_format
           w == RootOnly
<1>1. /\ w.heads = {Root} /\ w.dirs = {Root} /\ Heads(w) = {Root} /\ w.length[Root] = 2 * FCBSIZE
      /\ WitnessType(w) /\ AboveInv(w)
  BY RootOnlyIs
<1>2. /\ OneChain(h, Root) /\ ToSet(Chain(h, Root)) = {Root, Root + 1} /\ Room(h, Root) = 2 * BLOCKSIZE
  BY FormatChain
<1>3. /\ h.fat2 = h.fat1 /\ \A b \in Block : b >= FirstData => h.fat1[b] = FREE
  BY FormatFats
<1>4. \A b \in Block, j \in Unit : ~Live(h.block[b][j])
  BY FormatNames
<1> HIDE DEF h, w
<1>5. ChainsInv(h, Heads(w))
  <2>1. \A b \in Block : b >= Root /\ h.fat1[b] # FREE => b \in {Root, Root + 1}
    BY <1>3, Sizes DEF Block
  <2> QED
    BY <1>1, <1>2, <2>1 DEF ChainsInv, OneChain
<1>6. LagInv(h, w)
  BY <1>3 DEF LagInv
<1>7. UnitsInv(h, w)
  <2>1. ASSUME NEW p \in 0 .. Room(h, Root) - 1 PROVE ~Live(Cell(h, Root, p))
    <3>1. p \in Nat /\ p % BLOCKSIZE \in Unit /\ Chain(h, Root)[p \div BLOCKSIZE + 1] \in ToSet(Chain(h, Root))
      BY <1>2, <2>1, RoomFacts
    <3>2. Chain(h, Root)[p \div BLOCKSIZE + 1] \in Block
      BY <1>2, <3>1, ChainFacts
    <3> QED
      BY <1>4, <3>1, <3>2 DEF Cell
  <2> QED
    BY <1>1, <1>4, <2>1 DEF UnitsInv
<1>8. PlacesInv(h, w) /\ FilledInv(h, w)
  BY <1>1 DEF PlacesInv, FilledInv
<1>9. SizesInv(h, w)
  <2>1. 2 \in Nat /\ 2 * FCBSIZE <= 2 * BLOCKSIZE
    BY Sizes
  <2> QED
    BY <1>1, <1>2, <2>1 DEF SizesInv
<1>10. TextInv(h, NoText, w)
  <2>1. <<>> \in Seq(Character)
    BY EmptySeq
  <2>2. NoText \in [Block -> Seq(Character)]
    BY <2>1 DEF NoText
  <2> QED
    BY <1>1, <2>2 DEF TextInv
<1>11. DiscFiles(h, NoText, w)
  BY <1>1, <1>5, <1>6, <1>7, <1>8, <1>9, <1>10 DEF DiscFiles
<1> QED
  BY <1>11 DEF h, w

LEMMA FormatOpen == OpenInv(my_format, StartTable(RootFcb(my_format)), 0, RootOnly)
<1> DEFINE h == my_format
           w == RootOnly
           o == StartTable(RootFcb(h))
<1>1. /\ w.heads = {Root} /\ w.dirs = {Root} /\ w.length[Root] = 2 * FCBSIZE /\ w.above[Root] = {}
  BY RootOnlyIs
<1>2. /\ TableInv(o, 0) /\ o[0].fcb = RootFcb(h) /\ o[0].fcb.first = Root /\ o[0].topenfile
      /\ \A fd \in Fd \ {0} : o[fd] = Closed /\ ~o[fd].topenfile
  BY Formatted, StartTableIs
<1>3. RootFcb(h).length = 2 * FCBSIZE /\ Filled(h, Root)
  BY FormatNames, FormatFilled
<1> HIDE DEF h, w, o
<1>4. OpenHead(h, w, o[0].fcb)
  BY <1>1, <1>2, <1>3 DEF OpenHead
<1>5. OpenAbove(o, 0) = {}
  BY <1>2 DEF OpenAbove
<1>6. ClosedLengths(h, o, w)
  BY <1>1 DEF ClosedLengths
<1>7. \A fd \in Fd : IF o[fd].topenfile THEN OpenHead(h, w, o[fd].fcb) ELSE o[fd] = Closed
  BY <1>2, <1>4
<1> HIDE DEF OpenHead
<1>8. OpenInv(h, o, 0, w)
  BY <1>1, <1>2, <1>5, <1>6, <1>7 DEF OpenInv
<1> QED
  BY <1>8 DEF h, w, o

LEMMA FormatFiles ==
  AtRest(RootOnly) /\ FilesInv(my_format, StartTable(RootFcb(my_format)), 0, NoText, RootOnly)
BY RootOnlyIs, FormatDisc, FormatOpen DEF FilesInv

LEMMA InitImage == Init => ImageInv
<1> SUFFICES ASSUME Init PROVE ImageInv
  OBVIOUS
<1>1. myfilesys.image = my_format /\ myfilesys.text = NoText
  BY DEF Init
<1> HIDE DEF FilesInv, AtRest
<1> QED
  BY <1>1, FormatFiles DEF ImageInv

-----------------------------------------------------------------------------
(* The invariant of the files.                                             *)

FilesGood ==
  /\ RootInv /\ RootIsUpToDate /\ ImageGood
  /\ Regular => AtEase(State, curdir, text)

LEMMA InitGood == Init => FilesGood
<1> SUFFICES ASSUME Init PROVE FilesGood
  OBVIOUS
<1>1. RootInv /\ ImageGood
  BY InitOk, InitImage DEF ImageGood
<1>2. ~Regular
  BY DEF Init, InUse, Regular
<1> QED
  BY <1>1, <1>2 DEF FilesGood, RootIsUpToDate

\* What a command has to show while no directory's name has had a '.'.
LandsWell ==
  ~dotted' => Lands /\ (Goes \/ (broken' = "no" => Synced(myvhard', openfilelist')))

LEMMA CommandGood ==
  ASSUME FilesGood, Command, RootInv', dotted => dotted', LandsWell
  PROVE  FilesGood'
<1>1. ImageGood'
  BY ImageStays DEF FilesGood, Command
<1>2. CASE dotted'
  BY <1>1, <1>2 DEF FilesGood, RootIsUpToDate, Regular
<1>3. CASE ~dotted'
  <2>1. Lands /\ (Goes \/ (broken' = "no" => Synced(myvhard', openfilelist')))
    BY <1>3 DEF LandsWell
  <2>2. InSync
    BY <1>3 DEF InSync, FilesGood, RootIsUpToDate, Regular, Synced
  <2>3. InUse' => Synced(myvhard', openfilelist')
    BY <2>1, <2>2 DEF Goes, InSync, InUse
  <2>4. RootIsUpToDate'
    BY <2>3 DEF RootIsUpToDate, Regular, Synced
  <2>5. Regular' => AtEase(State', curdir', text')
    BY <2>1 DEF Lands, Regular, InUse
  <2> QED
    BY <1>1, <2>4, <2>5 DEF FilesGood
<1> QED
  BY <1>2, <1>3

LEMMA InCommand ==
  ASSUME FilesGood, Command
  PROVE  RootInv /\ (~dotted => Eased)
BY DEF FilesGood, Command, InUse, Regular, Eased

LEMMA GoesWell ==
  ASSUME FilesGood, Command, Goes, UNCHANGED dotted, ~dotted => Lands
  PROVE  FilesGood'
<1>1. RootInv'
  BY DEF Goes
<1>2. LandsWell
  BY DEF LandsWell
<1> QED
  BY <1>1, <1>2, CommandGood

LEMMA DirCommandsGood ==
  ASSUME FilesGood, NEW n \in Name, my_mkdir(n) \/ my_rmdir(n)
  PROVE  FilesGood'
<1>1. Command /\ dotted' = (dotted \/ HasDot(n))
  BY DEF my_mkdir, my_rmdir, InDirectory
<1>2. RootInv /\ (~dotted => Eased)
  BY <1>1, InCommand
<1>3. (dotted => dotted') /\ (~dotted' => ~dotted /\ ~HasDot(n))
  BY <1>1
<1>4. CASE my_mkdir(n)
  <2>1. RootInv' /\ (curdir # 0 => Goes)
    BY <1>2, <1>4, MkdirKeeps
  <2>2. ~dotted' => Lands /\ (broken' = "no" /\ curdir = 0 => Synced(myvhard', openfilelist'))
    BY <1>2, <1>3, <1>4, MkdirLands DEF LandsInSync
  <2>3. LandsWell
    BY <2>1, <2>2 DEF LandsWell
  <2> QED
    BY <1>1, <1>3, <2>1, <2>3, CommandGood
<1>5. CASE my_rmdir(n)
  <2>1. Goes
    BY <1>2, <1>5, RmdirKeeps
  <2>2. ~dotted' => Lands
    BY <1>2, <1>3, <1>5, RmdirLands
  <2>3. LandsWell /\ RootInv'
    BY <2>1, <2>2 DEF LandsWell, Goes
  <2> QED
    BY <1>1, <1>3, <2>3, CommandGood
<1> QED
  BY <1>4, <1>5

LEMMA FileCommandsGood ==
  ASSUME FilesGood, NEW n \in Name, cd_down(n) \/ open(n) \/ my_create(n) \/ my_rm(n)
  PROVE  FilesGood'
<1>1. Command /\ UNCHANGED dotted
  BY DEF cd_down, open, my_create, my_rm, InDirectory
<1>2. RootInv /\ (~dotted => Eased)
  BY <1>1, InCommand
<1>3. CASE cd_down(n)
  BY <1>1, <1>2, <1>3, CdDownLands, CdDownKeeps, GoesWell
<1>4. CASE open(n)
  BY <1>1, <1>2, <1>4, OpenLands, OpenCommandKeeps, GoesWell
<1>5. CASE my_create(n)
  BY <1>1, <1>2, <1>5, CreateLands, CreateKeeps, GoesWell
<1>6. CASE my_rm(n)
  BY <1>1, <1>2, <1>6, RmLands, RmKeeps, GoesWell
<1> QED
  BY <1>3, <1>4, <1>5, <1>6

LEMMA TooLongLands ==
  ASSUME ReadTooLong
  PROVE  Lands
<1> DEFINE why == "text"
<1>1. why # "no" /\ Become(Break(State, why))
  BY DEF ReadTooLong
<1> HIDE DEF why
<1>2. Break(State, why).broken = why
  BY Broke, StateIs
<1> QED
  BY <1>1, <1>2 DEF Become, Lands

LEMMA OtherCommandsGood ==
  ASSUME FilesGood,
         cd_up \/ cd_root \/ close \/ ReadTooLong
         \/ \E style \in {"cut", "cover", "add"}, line \in Lines \union {<<>>} : my_write(style, line)
  PROVE  FilesGood'
<1>1. Command /\ UNCHANGED dotted
  BY ZenonT(40) DEF cd_up, cd_root, close, ReadTooLong, my_write, InDirectory, InFile
<1>2. RootInv /\ (~dotted => Eased)
  BY <1>1, InCommand
<1>3. CASE cd_up
  BY <1>1, <1>2, <1>3, CdUpLands, CdUpKeeps, GoesWell
<1>4. CASE cd_root
  BY <1>1, <1>2, <1>4, CdRootLands, CdRootKeeps, GoesWell
<1>5. CASE close
  BY <1>1, <1>2, <1>5, CloseCommandLands, CloseCommandKeeps, GoesWell
<1>6. CASE ReadTooLong
  BY <1>1, <1>2, <1>6, TooLongLands, ReadTooLongKeeps, GoesWell
<1>7. ASSUME NEW style \in {"cut", "cover", "add"}, NEW line \in Lines \union {<<>>}, my_write(style, line)
      PROVE  FilesGood'
  BY <1>1, <1>2, <1>7, WriteLands, WriteKeeps, GoesWell
<1> QED
  BY <1>3, <1>4, <1>5, <1>6, <1>7, SMTT(30)

LEMMA StartAndStopGood ==
  ASSUME FilesGood, startsys \/ Kill \/ my_exitsys
  PROVE  FilesGood'
<1>1. RootInv /\ RootIsUpToDate /\ ImageGood
  BY DEF FilesGood
<1>2. Goes
  BY <1>1, StartKeeps, KillKeeps, ExitKeeps
<1>3. RootInv'
  BY <1>2 DEF Goes
<1>4. CASE startsys
  <2>1. Regular' => AtEase(State', curdir', text')
    BY <1>1, <1>4, StartLands
  <2>2. ImageGood'
    BY <1>1, <1>4, ImageStays DEF startsys
  <2>3. InSync
    BY <1>4 DEF startsys, InSync, InUse
  <2>4. RootIsUpToDate'
    BY <1>2, <2>3 DEF Goes, InSync, RootIsUpToDate, Regular, Synced
  <2> QED
    BY <1>3, <2>1, <2>2, <2>4 DEF FilesGood
<1>5. CASE Kill
  <2>1. ~Regular' /\ UNCHANGED myfilesys
    BY <1>5 DEF Kill, Gone, InUse, Regular
  <2>2. ImageGood'
    BY <1>1, <2>1, ImageStays
  <2> QED
    BY <1>3, <2>1, <2>2 DEF FilesGood, RootIsUpToDate
<1>6. CASE my_exitsys
  <2>1. ImageGood' /\ ~Regular'
    <3>1. CASE dotted
      BY <1>1, <1>6, <3>1, ExitDotted
    <3>2. CASE ~dotted
      <4>1. Eased
        BY <1>6, <3>2 DEF my_exitsys, InUse, Regular, Eased, FilesGood
      <4> QED
        BY <1>1, <1>6, <4>1, ExitSaves
    <3> QED
      BY <3>1, <3>2
  <2> QED
    BY <1>3, <2>1 DEF FilesGood, RootIsUpToDate
<1> QED
  BY <1>4, <1>5, <1>6

LEMMA StutterGood ==
  ASSUME FilesGood, UNCHANGED vars
  PROVE  FilesGood'
<1>1. RootInv'
  BY StutterKeeps DEF FilesGood
<1>2. /\ myfilesys' = myfilesys /\ dotted' = dotted /\ InUse' = InUse /\ State' = State
      /\ curdir' = curdir /\ text' = text /\ myvhard' = myvhard /\ openfilelist' = openfilelist
  BY DEF vars, InUse, State
<1>3. RootIsUpToDate' /\ ImageGood'
  BY <1>2 DEF FilesGood, RootIsUpToDate, Regular, ImageGood, ImageInv
<1> QED
  BY <1>1, <1>2, <1>3 DEF FilesGood, Regular

\* After any commands, exits, kills and restarts, until a directory is made or
\* removed under a name with a '.', there is a tree of files and directories on
\* the disc, each with its entry and its blocks, that the table of open files
\* and the ghost text agree with; and one on the disc's file.
THEOREM FilesStayGood == Spec => []FilesGood
<1>1. ASSUME FilesGood, Next PROVE FilesGood'
  BY <1>1, DirCommandsGood, FileCommandsGood, OtherCommandsGood, StartAndStopGood DEF Next
<1>2. FilesGood /\ [Next]_vars => FilesGood'
  BY <1>1, StutterGood
<1> QED
  BY <1>2, InitGood, PTL DEF Spec

\* Until then the length in the root's own entry is up to date after every
\* command, so that a restart sees every entry of the root directory.
THEOREM RootIsUpToDateAlways == Spec => []RootIsUpToDate
<1>1. FilesGood => RootIsUpToDate
  BY DEF FilesGood
<1> QED
  BY <1>1, FilesStayGood, PTL

-----------------------------------------------------------------------------
(* The tree that is found from the root is the tree of the invariant.      *)

Settled(w) ==
  /\ Regular /\ AtRest(w) /\ DiscInv(myvhard) /\ TableInv(openfilelist, curdir)
  /\ DiscFiles(myvhard, text, w) /\ OpenInv(myvhard, openfilelist, curdir, w)
  /\ Filed(State, curdir, text, w)

LEMMA GoodSettles ==
  ASSUME FilesGood, Regular
  PROVE  \E w : Settled(w)
<1>1. PICK w : Filed(State, curdir, text, w) /\ AtRest(w)
  BY DEF FilesGood, AtEase
<1>2. State.hard = myvhard /\ State.open = openfilelist
  BY StateIs
<1>3. DiscInv(myvhard) /\ TableInv(openfilelist, curdir)
  BY DEF FilesGood, RootInv, Regular
<1>4. FilesInv(myvhard, openfilelist, curdir, text, w)
  BY <1>1, <1>2 DEF Filed
<1>5. Settled(w)
  BY <1>1, <1>3, <1>4 DEF Settled, FilesInv
<1> QED
  BY <1>5

\* The FCB that the tree has of the file that begins in block g.
HeadFcb(w, g) == IF g = Root THEN openfilelist[0].fcb ELSE Entry(myvhard, w.up[g], w.at[g])

LEMMA HeadFcbIs ==
  ASSUME NEW w, Settled(w), NEW g \in w.heads
  PROVE  /\ HeadFcb(w, g).first = g /\ (HeadFcb(w, g).directory <=> g \in w.dirs)
         /\ OneChain(myvhard, g)
<1>1. /\ TableInv(openfilelist, curdir) /\ PlacesInv(myvhard, w) /\ WitnessType(w)
      /\ ChainsInv(myvhard, Heads(w))
  BY DEF Settled, DiscFiles
<1>2. OneChain(myvhard, g)
  BY <1>1, ChainsFacts DEF Heads
<1>3. CASE g = Root
  BY <1>1, <1>2, <1>3 DEF HeadFcb, TableInv, WitnessType
<1>4. CASE g # Root
  <2>1. EntryIs(Entry(myvhard, w.up[g], w.at[g]), g, g \in w.dirs)
    BY <1>1, <1>4 DEF PlacesInv
  <2>2. HeadFcb(w, g) = Entry(myvhard, w.up[g], w.at[g])
    BY <1>4 DEF HeadFcb
  <2> QED
    BY <1>2, <2>1, <2>2 DEF EntryIs
<1> QED
  BY <1>3, <1>4

LEMMA CurrentIs ==
  ASSUME NEW w, Settled(w), NEW g \in w.heads
  PROVE  Current(HeadFcb(w, g)).length = w.length[g]
<1> DEFINE f == HeadFcb(w, g)
           S == {fd \in Fd : openfilelist[fd].topenfile /\ openfilelist[fd].fcb.first = f.first}
<1>1. f.first = g
  BY HeadFcbIs
<1>2. OpenInv(myvhard, openfilelist, curdir, w) /\ TableInv(openfilelist, curdir)
  BY DEF Settled
<1>3. Current(f) = IF S = {} THEN f ELSE openfilelist[Min(S)].fcb
  BY DEF Current
<1>4. CASE S = {}
  <2>1. ~IsOpen(openfilelist, g)
    BY <1>1, <1>4 DEF IsOpen
  <2>2. g # Root
    BY <1>2, <2>1, Places DEF TableInv, IsOpen
  <2>3. Entry(myvhard, w.up[g], w.at[g]).length = w.length[g]
    BY <1>2, <2>1, <2>2 DEF OpenInv, ClosedLengths
  <2>4. f = Entry(myvhard, w.up[g], w.at[g])
    BY <2>2 DEF HeadFcb
  <2> HIDE DEF f, S
  <2> QED
    BY <1>3, <1>4, <2>3, <2>4 DEF f
<1>5. CASE S # {}
  <2>1. S \subseteq Nat
    BY DEF Fd
  <2>2. Min(S) \in S
    <3> HIDE DEF S
    <3> QED
      BY <1>5, <2>1, MinFound
  <2> DEFINE fd == Min(S)
  <2>3. fd \in Fd /\ openfilelist[fd].topenfile /\ openfilelist[fd].fcb.first = g
    BY <1>1, <2>2
  <2> HIDE DEF fd, f
  <2>4. OpenHead(myvhard, w, openfilelist[fd].fcb)
    BY <1>2, <2>3 DEF OpenInv
  <2>5. w.length[g] = openfilelist[fd].fcb.length
    BY <2>3, <2>4 DEF OpenHead
  <2>6. Current(f) = openfilelist[fd].fcb
    BY <1>3, <1>5 DEF fd
  <2> QED
    BY <2>5, <2>6 DEF f
<1> QED
  BY <1>4, <1>5

\* A directory's FCBs, whether it is open or not.
Lists(h, w, d) ==
  \E m \in Nat :
    /\ Listing(h, d, w.length[d]) = [j \in 0 .. m - 1 |-> Entry(h, d, j)]
    /\ \A i \in 0 .. m - 1 : i \in Nat /\ (i + 1) * FCBSIZE <= Room(h, d)
    /\ \A i \in Nat : (i + 1) * FCBSIZE <= w.length[d] => i \in 0 .. m - 1

LEMMA DirLists ==
  ASSUME NEW h, NEW txt, NEW w, DiscFiles(h, txt, w), NEW d \in w.dirs
  PROVE  Lists(h, w, d)
<1>1. WitnessType(w) /\ ChainsInv(h, Heads(w)) /\ SizesInv(h, w)
  BY DEF DiscFiles
<1>2. d \in Heads(w) /\ w.length[d] \in Nat
  BY <1>1 DEF WitnessType, Heads
<1>3. OneChain(h, d)
  BY <1>1, <1>2, ChainsFacts
<1>4. Room(h, d) \in Nat
  BY <1>3, RoomFacts
<1>5. w.length[d] <= Room(h, d) /\ \E m \in Nat : m >= 2 /\ w.length[d] = m * FCBSIZE
  BY <1>1 DEF SizesInv
<1>6. PICK m \in Nat : w.length[d] = m * FCBSIZE
  BY <1>5
<1>7. Listing(h, d, w.length[d]) = [j \in 0 .. m - 1 |-> Entry(h, d, j)]
  BY <1>2, <1>3, <1>5, <1>6, DirIs
<1>8. ASSUME NEW i \in 0 .. m - 1 PROVE i \in Nat /\ (i + 1) * FCBSIZE <= Room(h, d)
  <2>1. i \in Nat /\ i + 1 \in Nat /\ i + 1 <= m /\ FCBSIZE \in Nat
    BY Sizes
  <2>2. (i + 1) * FCBSIZE <= m * FCBSIZE /\ (i + 1) * FCBSIZE \in Nat /\ m * FCBSIZE \in Nat
    BY <2>1, Times
  <2> QED
    BY <1>4, <1>5, <1>6, <2>1, <2>2
<1>9. \A i \in Nat : (i + 1) * FCBSIZE <= m * FCBSIZE => i \in 0 .. m - 1
  BY PlaceInDir
<1> QED
  BY <1>6, <1>7, <1>8, <1>9 DEF Lists

LEMMA EntryFcb ==
  ASSUME NEW h, DiscInv(h), NEW d, OneChain(h, d), NEW i \in Nat, (i + 1) * FCBSIZE <= Room(h, d)
  PROVE  FcbOk(Entry(h, d, i))
<1> DEFINE p == i * FCBSIZE
<1>1. Room(h, d) \in Nat
  BY RoomFacts
<1>2. p \in Nat /\ (i + 1) * FCBSIZE = p + FCBSIZE /\ FCBSIZE \in Nat /\ FCBSIZE > 0
  BY Sizes, SlotPlaces
<1>3. p \in 0 .. Room(h, d) - 1
  BY <1>1, <1>2
<1> HIDE DEF p
<1>4. p % BLOCKSIZE \in Unit /\ Chain(h, d)[p \div BLOCKSIZE + 1] \in ToSet(Chain(h, d))
  BY <1>3, RoomFacts
<1>5. Chain(h, d)[p \div BLOCKSIZE + 1] \in Block
  BY <1>4, ChainFacts
<1>6. UnitOk(Cell(h, d, p))
  BY <1>4, <1>5 DEF DiscInv, UnitsOk, Cell
<1>7. FcbOk(EntryOf(Cell(h, d, p)))
  BY <1>6, NoFcbOk DEF EntryOf, UnitOk
<1> QED
  BY <1>7 DEF Entry, p

UserEntries(dir) == {i \in DOMAIN dir : dir[i].free = 1 /\ dir[i].filename \notin {".", ".."}}

ChildHeads(w, d) == {g \in w.heads \ {Root} : w.up[g] = d}

LEMMA NamedFcb ==
  ASSUME NEW f, FcbOk(f), f.free # 0, f.filename \notin Dots
  PROVE  f.filename \in Given
<1>1. f \in FcbType /\ (f.filename = "" => f.free = 0)
  BY DEF FcbOk
<1>2. f.filename \in Given \union Dots \union {""}
  BY <1>1 DEF FcbType
<1>3. f.filename # ""
  BY <1>1
<1> QED
  BY <1>2, <1>3

LEMMA UserEntriesAre ==
  ASSUME NEW w, Settled(w), NEW d \in w.dirs, NEW dir, dir = Listing(myvhard, d, w.length[d])
  PROVE  {dir[i] : i \in UserEntries(dir)} = {HeadFcb(w, g) : g \in ChildHeads(w, d)}
<1> DEFINE h == myvhard
<1>1. DiscFiles(h, text, w) /\ AtRest(w) /\ DiscInv(h)
  BY DEF Settled
<1>2. PlacesInv(h, w) /\ w.holes = {} /\ w.dirs \subseteq w.heads
  BY <1>1 DEF DiscFiles, AtRest, WitnessType
<1>3. OneChain(h, d)
  BY <1>2, HeadFcbIs
<1>4. Lists(h, w, d)
  BY <1>1, DirLists
<1> HIDE DEF h
<1>5. PICK m \in Nat :
        /\ dir = [j \in 0 .. m - 1 |-> Entry(h, d, j)]
        /\ \A i \in 0 .. m - 1 : i \in Nat /\ (i + 1) * FCBSIZE <= Room(h, d)
        /\ \A i \in Nat : (i + 1) * FCBSIZE <= w.length[d] => i \in 0 .. m - 1
  BY <1>4 DEF Lists, h
<1>6. ASSUME NEW i \in UserEntries(dir) PROVE \E g \in ChildHeads(w, d) : dir[i] = HeadFcb(w, g)
  <2>1. i \in 0 .. m - 1 /\ dir[i] = Entry(h, d, i) /\ dir[i].free = 1 /\ dir[i].filename \notin {".", ".."}
    BY <1>5, <1>6 DEF UserEntries
  <2>2. i \in Nat /\ (i + 1) * FCBSIZE <= Room(h, d)
    BY <1>5, <2>1
  <2>3. FcbOk(Entry(h, d, i))
    BY <1>1, <1>3, <2>2, EntryFcb
  <2>4. Entry(h, d, i).filename \in Given
    <3>1. Entry(h, d, i).free # 0
      BY <2>1
    <3>2. Entry(h, d, i).filename \notin Dots
      BY <2>1 DEF Dots
    <3> QED
      BY <2>3, <3>1, <3>2, NamedFcb
  <2>5. PlacedAt(h, w, d, i)
    BY <1>1, <1>2, <2>2, <2>4, EntryPlaced
  <2> DEFINE g == Entry(h, d, i).first
  <2>6. g \in w.heads \ {Root} /\ w.up[g] = d /\ w.at[g] = i
    BY <2>5 DEF PlacedAt
  <2> HIDE DEF g
  <2>7. g \in ChildHeads(w, d)
    BY <2>6 DEF ChildHeads
  <2>8. HeadFcb(w, g) = Entry(h, d, i)
    BY <2>6 DEF HeadFcb, h
  <2> QED
    BY <2>1, <2>7, <2>8
<1>7. ASSUME NEW g \in ChildHeads(w, d) PROVE \E i \in UserEntries(dir) : dir[i] = HeadFcb(w, g)
  <2>1. g \in w.heads \ {Root} /\ w.up[g] = d
    BY <1>7 DEF ChildHeads
  <2> DEFINE i == w.at[g]
  <2>2. /\ (i + 1) * FCBSIZE <= w.length[d] /\ EntryIs(Entry(h, d, i), g, g \in w.dirs)
    BY <1>2, <2>1 DEF PlacesInv
  <2>3. i \in Nat
    BY <1>1, <2>1 DEF DiscFiles, WitnessType
  <2>4. HeadFcb(w, g) = Entry(h, d, i)
    BY <2>1 DEF HeadFcb, h
  <2> HIDE DEF i
  <2>5. i \in 0 .. m - 1
    BY <1>5, <2>2, <2>3
  <2>6. dir[i] = Entry(h, d, i) /\ i \in DOMAIN dir
    BY <1>5, <2>5
  <2>7. dir[i].free = 1 /\ dir[i].filename \in Given
    BY <2>2, <2>6 DEF EntryIs
  <2>8. i \in UserEntries(dir)
    BY <2>6, <2>7, Names DEF UserEntries
  <2> QED
    BY <2>4, <2>6, <2>8
<1> QED
  BY <1>6, <1>7

LEMMA ChildrenAre ==
  ASSUME NEW w, Settled(w), NEW d \in w.dirs
  PROVE  Children(myvhard, HeadFcb(w, d)) = {HeadFcb(w, g) : g \in ChildHeads(w, d)}
<1> DEFINE f == HeadFcb(w, d)
           dir == Listing(myvhard, d, w.length[d])
<1>1. d \in w.heads
  BY DEF Settled, DiscFiles, WitnessType
<1>2. f.first = d /\ Current(f).length = w.length[d]
  BY <1>1, HeadFcbIs, CurrentIs
<1> HIDE DEF f
<1>3. dir = Listing(myvhard, f.first, Current(f).length)
  BY <1>2
<1>4. Children(myvhard, f) = {dir[i] : i \in UserEntries(dir)}
  BY <1>3 DEF Children, UserEntries
<1> HIDE DEF dir
<1>5. {dir[i] : i \in UserEntries(dir)} = {HeadFcb(w, g) : g \in ChildHeads(w, d)}
  BY UserEntriesAre, SMTT(30) DEF dir
<1> QED
  BY <1>4, <1>5 DEF f

\* One more level of the tree.
NextLevel(h, p) == p \union UNION {Children(h, f) : f \in {f \in p : f.directory}}

LEMMA TreeFound ==
  ASSUME NEW h, NEW root
  PROVE  \E c : /\ c[0] = {root}
                /\ \A k \in 1 .. MAXOPENFILE : c[k] = NextLevel(h, c[k - 1])
                /\ TreeOf(h, root) = c[MAXOPENFILE]
<1> DEFINE start == {root}
           Is(f, m) == f = [k \in 0 .. m |-> IF k = 0 THEN start ELSE NextLevel(h, f[k - 1])]
           S == {m \in 0 .. MAXOPENFILE : \E f : Is(f, m)}
<1> HIDE DEF start
<1>1. 0 \in S
  <2>1. Is([k \in 0 .. 0 |-> start], 0)
    OBVIOUS
  <2> HIDE DEF Is
  <2> QED
    BY <2>1, Sizes
<1>2. ASSUME NEW m \in 1 .. MAXOPENFILE, m - 1 \in S PROVE m \in S
  <2>1. PICK f : Is(f, m - 1)
    BY <1>2
  <2> DEFINE g == [k \in 0 .. m |-> IF k = m THEN NextLevel(h, f[m - 1]) ELSE f[k]]
  <2>2. ASSUME NEW k \in 0 .. m
        PROVE  g[k] = IF k = 0 THEN start ELSE NextLevel(h, g[k - 1])
    <3>1. CASE k = m
      BY <3>1
    <3>2. CASE k # m
      <4>1. k \in 0 .. m - 1
        BY <3>2
      <4>2. f[k] = IF k = 0 THEN start ELSE NextLevel(h, f[k - 1])
        BY <2>1, <4>1
      <4> QED
        BY <3>2, <4>1, <4>2
    <3> QED
      BY <3>1, <3>2
  <2>3. Is(g, m)
    <3>1. g = [k \in 0 .. m |-> g[k]]
      OBVIOUS
    <3> HIDE DEF g
    <3> QED
      BY <2>2, <3>1
  <2> HIDE DEF Is, g
  <2> QED
    BY <2>3
<1>3. \E f : Is(f, MAXOPENFILE)
  <2>1. MAXOPENFILE \in Nat /\ MAXOPENFILE \in 0 .. MAXOPENFILE
    BY Sizes
  <2> HIDE DEF S
  <2>2. MAXOPENFILE \in S
    BY <1>1, <1>2, <2>1, Induction
  <2> QED
    BY <2>2 DEF S
<1> DEFINE c == CHOOSE f : Is(f, MAXOPENFILE)
<1>4. Is(c, MAXOPENFILE)
  BY <1>3, Zenon
<1>5. TreeOf(h, root) = c[MAXOPENFILE]
  BY Zenon DEF TreeOf, NextLevel, start
<1> HIDE DEF c
<1>6. c[0] = start /\ \A k \in 1 .. MAXOPENFILE : c[k] = NextLevel(h, c[k - 1])
  <2>1. \A k \in 0 .. MAXOPENFILE : c[k] = IF k = 0 THEN start ELSE NextLevel(h, c[k - 1])
    BY <1>4, Zenon
  <2>2. 0 \in 0 .. MAXOPENFILE /\ \A k \in 1 .. MAXOPENFILE : k \in 0 .. MAXOPENFILE /\ k # 0
    BY Sizes
  <2> QED
    BY <2>1, <2>2, Zenon
<1> QED
  BY <1>5, <1>6 DEF start

\* The first levels: nothing but files and directories of the tree, and all
\* that are not deeper.
Levels(w, p, n) ==
  /\ p \subseteq {HeadFcb(w, g) : g \in w.heads}
  /\ \A g \in w.heads : w.depth[g] <= n => HeadFcb(w, g) \in p

LEMMA LevelsGoOn ==
  ASSUME NEW w, Settled(w), NEW n \in Nat, NEW p, Levels(w, p, n)
  PROVE  Levels(w, NextLevel(myvhard, p), n + 1)
<1> DEFINE q == NextLevel(myvhard, p)
<1>1. WitnessType(w) /\ AboveInv(w) /\ PlacesInv(myvhard, w)
  BY DEF Settled, DiscFiles
<1>2. w.dirs \subseteq w.heads /\ Root \in w.heads /\ w.heads \subseteq Block
  BY <1>1 DEF WitnessType
<1>3. ASSUME NEW f \in q PROVE f \in {HeadFcb(w, g) : g \in w.heads}
  <2>1. CASE f \in p
    BY <2>1 DEF Levels
  <2>2. CASE f \notin p
    <3>1. PICK e \in p : e.directory /\ f \in Children(myvhard, e)
      BY <1>3, <2>2 DEF NextLevel
    <3>2. PICK d \in w.heads : e = HeadFcb(w, d)
      BY DEF Levels
    <3>3. d \in w.dirs
      BY <3>1, <3>2, HeadFcbIs
    <3>4. f \in {HeadFcb(w, g) : g \in ChildHeads(w, d)}
      BY <3>1, <3>2, <3>3, ChildrenAre
    <3> QED
      BY <3>4 DEF ChildHeads
  <2> QED
    BY <2>1, <2>2
<1>4. ASSUME NEW g \in w.heads, w.depth[g] <= n + 1 PROVE HeadFcb(w, g) \in q
  <2>1. CASE w.depth[g] <= n
    BY <2>1 DEF Levels, NextLevel
  <2>2. CASE ~(w.depth[g] <= n) /\ g = Root
    <3>1. w.depth[Root] = 0
      <4>1. w.depth[Root] = Cardinality(w.above[Root]) /\ w.above[Root] = {}
        BY <1>1, <1>2 DEF AboveInv
      <4> QED
        BY <4>1, FS_EmptySet
    <3> QED
      BY <2>2, <3>1
  <2>3. CASE ~(w.depth[g] <= n) /\ g # Root
    <3> DEFINE d == w.up[g]
    <3>1. d \in w.dirs /\ d \in w.heads
      BY <1>1, <1>2, <2>3 DEF PlacesInv
    <3>2. d \in w.above[g]
      BY <1>1, <2>3 DEF AboveInv
    <3>3. w.depth[d] < w.depth[g]
      BY <1>1, <3>2 DEF AboveInv
    <3> HIDE DEF d
    <3>4. w.depth[d] \in Nat /\ w.depth[g] \in Nat
      BY <1>1, <1>2, <3>1 DEF WitnessType
    <3>5. w.depth[d] <= n
      BY <1>4, <3>3, <3>4
    <3>6. HeadFcb(w, d) \in p
      BY <3>1, <3>5 DEF Levels
    <3>7. HeadFcb(w, d).directory
      BY <3>1, HeadFcbIs
    <3>8. g \in ChildHeads(w, d)
      BY <2>3 DEF ChildHeads, d
    <3>9. HeadFcb(w, g) \in Children(myvhard, HeadFcb(w, d))
      BY <3>1, <3>8, ChildrenAre
    <3> QED
      BY <3>6, <3>7, <3>9 DEF NextLevel
  <2> QED
    BY <2>1, <2>2, <2>3
<1> HIDE DEF q
<1>5. Levels(w, q, n + 1)
  BY <1>3, <1>4 DEF Levels
<1> QED
  BY <1>5 DEF q

LEMMA TreeIs ==
  ASSUME NEW w, Settled(w)
  PROVE  Tree = {HeadFcb(w, g) : g \in w.heads}
<1> DEFINE root == openfilelist[0].fcb
<1>1. WitnessType(w) /\ AboveInv(w)
  BY DEF Settled, DiscFiles
<1>2. Root \in w.heads /\ root = HeadFcb(w, Root) /\ w.heads \subseteq Block
  BY <1>1 DEF WitnessType, HeadFcb
<1>11. Tree = TreeOf(myvhard, root)
  BY DEF Tree
<1> HIDE DEF root
<1>3. PICK c : /\ c[0] = {root}
               /\ \A k \in 1 .. MAXOPENFILE : c[k] = NextLevel(myvhard, c[k - 1])
               /\ TreeOf(myvhard, root) = c[MAXOPENFILE]
  BY TreeFound, ZenonT(40)
<1>4. Levels(w, c[0], 0)
  <2>1. c[0] \subseteq {HeadFcb(w, g) : g \in w.heads}
    BY <1>2, <1>3
  <2>2. ASSUME NEW g \in w.heads, w.depth[g] <= 0 PROVE HeadFcb(w, g) \in c[0]
    <3>1. CASE g = Root
      BY <1>2, <1>3, <3>1
    <3>2. CASE g # Root
      <4>1. w.up[g] \in w.above[g]
        BY <1>1, <3>2 DEF AboveInv
      <4>2. w.up[g] \in w.dirs /\ w.depth[w.up[g]] < w.depth[g]
        BY <1>1, <4>1 DEF AboveInv
      <4>3. w.depth[w.up[g]] \in Nat /\ w.depth[g] \in Nat
        BY <1>1, <1>2, <4>2 DEF WitnessType
      <4> QED
        BY <2>2, <4>2, <4>3
    <3> QED
      BY <3>1, <3>2
  <2> QED
    BY <2>1, <2>2 DEF Levels
<1> DEFINE S == {k \in 0 .. MAXOPENFILE : Levels(w, c[k], k)}
<1>5. MAXOPENFILE \in Nat /\ 0 \in 0 .. MAXOPENFILE
  BY Sizes
<1>6. 0 \in S
  BY <1>4, <1>5
<1>7. ASSUME NEW k \in 1 .. MAXOPENFILE, k - 1 \in S PROVE k \in S
  <2>1. k - 1 \in Nat /\ Levels(w, c[k - 1], k - 1) /\ (k - 1) + 1 = k
    BY <1>7
  <2>2. Levels(w, NextLevel(myvhard, c[k - 1]), (k - 1) + 1)
    BY <2>1, LevelsGoOn
  <2>3. Levels(w, c[k], k)
    BY <1>3, <2>1, <2>2
  <2> QED
    BY <2>3
<1>8. MAXOPENFILE \in S
  <2> HIDE DEF S
  <2>1. \A k \in 0 .. MAXOPENFILE : k \in S
    BY <1>5, <1>6, <1>7, Induction
  <2> QED
    BY <1>5, <2>1
<1>9. Levels(w, Tree, MAXOPENFILE)
  BY <1>3, <1>8, <1>11
<1>10. \A g \in w.heads : w.depth[g] <= MAXOPENFILE
  <2>1. w.depth[Root] = 0
    <3>1. w.depth[Root] = Cardinality(w.above[Root]) /\ w.above[Root] = {}
      BY <1>1, <1>2 DEF AboveInv
    <3> QED
      BY <3>1, FS_EmptySet
  <2> QED
    BY <1>1, <1>5, <2>1 DEF AboveInv
<1> QED
  BY <1>9, <1>10 DEF Levels

-----------------------------------------------------------------------------
(* What the invariant says of the files.                                   *)

LEMMA OwnersFound ==
  ASSUME FilesGood, Regular
  PROVE  /\ \A f, g \in Tree : f.first /= g.first => BlocksOf(f) \intersect BlocksOf(g) = {}
         /\ UNION {BlocksOf(f) : f \in Tree} = {b \in Block : b >= Root /\ myvhard.fat1[b] /= FREE}
<1>1. PICK w : Settled(w)
  BY GoodSettles
<1>2. ChainsInv(myvhard, Heads(w)) /\ w.orphans = {}
  BY <1>1 DEF Settled, DiscFiles, AtRest
<1>3. Heads(w) = w.heads
  BY <1>2 DEF Heads
<1>4. Tree = {HeadFcb(w, g) : g \in w.heads}
  BY <1>1, TreeIs
<1>5. \A g \in w.heads : HeadFcb(w, g).first = g
  BY <1>1, HeadFcbIs
<1>6. \A g \in w.heads : BlocksOf(HeadFcb(w, g)) = ToSet(Chain(myvhard, g))
  BY <1>5 DEF BlocksOf
<1>7. /\ \A g \in w.heads : \A b \in ToSet(Chain(myvhard, g)) : b \in Block /\ b >= Root /\ myvhard.fat1[b] # FREE
      /\ \A g, x \in w.heads : \A b \in ToSet(Chain(myvhard, g)) : b \in ToSet(Chain(myvhard, x)) => g = x
      /\ \A b \in Block : b >= Root /\ myvhard.fat1[b] # FREE =>
           \E g \in w.heads : b \in ToSet(Chain(myvhard, g))
  BY <1>2, <1>3, ChainsFacts
<1>8. ASSUME NEW f \in Tree, NEW e \in Tree, f.first /= e.first
      PROVE  BlocksOf(f) \intersect BlocksOf(e) = {}
  <2>1. PICK g \in w.heads : f = HeadFcb(w, g)
    BY <1>4
  <2>2. PICK x \in w.heads : e = HeadFcb(w, x)
    BY <1>4
  <2>3. g # x
    BY <1>8, <2>1, <2>2
  <2>4. BlocksOf(f) = ToSet(Chain(myvhard, g)) /\ BlocksOf(e) = ToSet(Chain(myvhard, x))
    BY <1>6, <2>1, <2>2
  <2> QED
    BY <1>7, <2>3, <2>4
<1>9. ASSUME NEW b
      PROVE  b \in UNION {BlocksOf(f) : f \in Tree} <=> b \in Block /\ b >= Root /\ myvhard.fat1[b] # FREE
  <2>1. b \in UNION {BlocksOf(f) : f \in Tree} <=> \E g \in w.heads : b \in ToSet(Chain(myvhard, g))
    BY <1>4, <1>6
  <2> QED
    BY <1>7, <2>1
<1> QED
  BY <1>8, <1>9

\* After any commands, exits, kills and restarts every block that is not free
\* belongs to one file or directory that can be reached, and to one only.
THEOREM OneOwnerAlways == Spec => []OneOwner
<1>1. FilesGood => OneOwner
  BY OwnersFound DEF OneOwner
<1> QED
  BY <1>1, FilesStayGood, PTL

LEMMA TextRead ==
  ASSUME NEW w, Settled(w), NEW g \in w.heads \ w.dirs
  PROVE  do_read(myvhard, g, w.length[g]) = Chars(text[g])
<1> DEFINE h == myvhard
           n == w.length[g]
           line == text[g]
<1>1. TextInv(h, text, w) /\ WitnessType(w)
  BY DEF Settled, DiscFiles
<1>2. g \in Block /\ n \in Nat
  BY <1>1 DEF WitnessType
<1>3. /\ line \in Seq(Character) /\ Len(line) = n /\ n <= Room(h, g)
      /\ \A p \in 0 .. n - 1 : Cell(h, g, p) = <<"char", line[p + 1], 0>>
  BY <1>1, <1>2 DEF TextInv
<1>4. OneChain(h, g)
  BY HeadFcbIs
<1> HIDE DEF h, n, line
<1>5. do_read(h, g, n) = [k \in 1 .. n |-> Cell(h, g, k - 1)]
  BY <1>2, <1>3, <1>4, ReadIs
<1>6. DOMAIN line = 1 .. n
  BY <1>3, LenProperties
<1>7. Chars(line) = [k \in 1 .. n |-> <<"char", line[k], 0>>]
  BY <1>6 DEF Chars
<1>8. ASSUME NEW k \in 1 .. n PROVE Cell(h, g, k - 1) = <<"char", line[k], 0>>
  <2>1. k - 1 \in 0 .. n - 1 /\ (k - 1) + 1 = k
    BY <1>2
  <2>2. Cell(h, g, k - 1) = <<"char", line[(k - 1) + 1], 0>>
    BY <1>3, <2>1
  <2> QED
    BY <2>1, <2>2
<1>9. do_read(h, g, n) = Chars(line)
  BY <1>5, <1>7, <1>8
<1> QED
  BY <1>9 DEF h, n, line

LEMMA FilesRead ==
  ASSUME FilesGood, Regular, NEW f \in Tree, ~f.directory
  PROVE  do_read(myvhard, f.first, Current(f).length) = Chars(text[f.first])
<1>1. PICK w : Settled(w)
  BY GoodSettles
<1>2. PICK g \in w.heads : f = HeadFcb(w, g)
  BY <1>1, TreeIs
<1>3. f.first = g /\ g \notin w.dirs
  BY <1>1, <1>2, HeadFcbIs
<1>4. Current(f).length = w.length[g]
  BY <1>1, <1>2, CurrentIs
<1>5. do_read(myvhard, g, w.length[g]) = Chars(text[g])
  BY <1>1, <1>3, TextRead
<1> QED
  BY <1>3, <1>4, <1>5

\* Each file holds what the user wrote into it, whatever else was done.
THEOREM ReadBackAlways == Spec => []ReadBack
<1>1. FilesGood => ReadBack
  BY FilesRead DEF ReadBack
<1> QED
  BY <1>1, FilesStayGood, PTL

LEMMA LagsFound ==
  ASSUME FilesGood, Regular, NEW b \in Block, myvhard.fat1[b] /= myvhard.fat2[b]
  PROVE  /\ myvhard.fat1[b] = END /\ myvhard.fat2[b] = FREE
         /\ \E f \in Tree : ~f.directory /\ f.first = b
<1>1. PICK w : Settled(w)
  BY GoodSettles
<1>2. LagInv(myvhard, w) /\ Heads(w) = w.heads
  BY <1>1 DEF Settled, DiscFiles, AtRest, Heads
<1>3. myvhard.fat1[b] = END /\ myvhard.fat2[b] = FREE /\ b \in w.heads \ w.dirs
  BY <1>2 DEF LagInv
<1>4. HeadFcb(w, b) \in Tree
  BY <1>1, <1>3, TreeIs
<1>5. HeadFcb(w, b).first = b /\ ~HeadFcb(w, b).directory
  BY <1>1, <1>3, HeadFcbIs
<1> QED
  BY <1>3, <1>4, <1>5

\* The second FAT differs from the first only where my_create() left it free.
THEOREM SecondFatLagsAlways == Spec => []SecondFatLags
<1>1. FilesGood => SecondFatLags
  BY LagsFound DEF SecondFatLags
<1> QED
  BY <1>1, FilesStayGood, PTL

LEMMA OpenPlace ==
  ASSUME NEW w, Settled(w), NEW fd \in Fd \ {0}, openfilelist[fd].topenfile
  PROVE  LET e == openfilelist[fd]
             g == e.fcb.first
         IN  /\ e.father \in Fd /\ openfilelist[e.father].topenfile
             /\ g \in w.heads \ {Root} /\ w.up[g] = openfilelist[e.father].fcb.first
             /\ w.at[g] = e.diroff /\ w.up[g] \in w.dirs
             /\ OpenEntry(myvhard, w, e, openfilelist[e.father])
<1> DEFINE o == openfilelist
           e == o[fd]
           g == e.fcb.first
<1>1. /\ OpenInv(myvhard, o, curdir, w) /\ PlacesInv(myvhard, w) /\ TableInv(o, curdir)
  BY DEF Settled, DiscFiles
<1>2. OpenHead(myvhard, w, e.fcb) /\ OpenEntry(myvhard, w, e, o[e.father])
  BY <1>1 DEF OpenInv
<1>3. e.father \in Fd /\ o[e.father].topenfile
  BY <1>1, Entries DEF TableInv
<1>4. g \in w.heads /\ g # Root /\ w.up[g] = o[e.father].fcb.first /\ w.at[g] = e.diroff
  BY <1>2 DEF OpenHead, OpenEntry
<1>5. w.up[g] \in w.dirs
  BY <1>1, <1>4 DEF PlacesInv
<1> QED
  BY <1>2, <1>3, <1>4, <1>5

LEMMA DirHas ==
  ASSUME NEW w, Settled(w), NEW fd \in Fd, openfilelist[fd].topenfile, NEW d \in w.dirs,
         d = openfilelist[fd].fcb.first, NEW i \in Nat, (i + 1) * FCBSIZE <= w.length[d]
  PROVE  Dir(State, fd)[i] = Entry(myvhard, d, i)
<1>1. DiscFiles(myvhard, text, w) /\ OpenInv(myvhard, openfilelist, curdir, w)
  BY DEF Settled
<1>2. openfilelist[fd].fcb.length = w.length[d]
  BY <1>1 DEF OpenInv, OpenHead
<1>3. Lists(myvhard, w, d)
  BY <1>1, DirLists
<1>4. PICK m \in Nat :
        /\ Listing(myvhard, d, w.length[d]) = [j \in 0 .. m - 1 |-> Entry(myvhard, d, j)]
        /\ \A j \in Nat : (j + 1) * FCBSIZE <= w.length[d] => j \in 0 .. m - 1
  BY <1>3 DEF Lists
<1>5. Dir(State, fd) = Listing(myvhard, d, w.length[d])
  BY <1>2, StateIs DEF Dir
<1> QED
  BY <1>4, <1>5

\* An open file's copy of its FCB.
CopyAgrees(e, entry) ==
  /\ entry.filename = e.fcb.filename /\ entry.first = e.fcb.first
  /\ ~e.fcbstate => e.fcb \in {entry, [entry EXCEPT !.length = 0]}

LEMMA SameFcb ==
  ASSUME NEW f \in FcbType, NEW e \in FcbType, SameButLength(f, e)
  PROVE  /\ f.length = e.length => f = e
         /\ f.length = 0 => f = [e EXCEPT !.length = 0]
<1>1. f = [filename |-> f.filename, exname |-> f.exname, directory |-> f.directory,
           first |-> f.first, length |-> f.length, free |-> f.free]
  BY DEF FcbType
<1>2. e = [filename |-> e.filename, exname |-> e.exname, directory |-> e.directory,
           first |-> e.first, length |-> e.length, free |-> e.free]
  BY DEF FcbType
<1> DEFINE z == [e EXCEPT !.length = 0]
<1>3. z = [filename |-> e.filename, exname |-> e.exname, directory |-> e.directory,
           first |-> e.first, length |-> 0, free |-> e.free]
  BY <1>2
<1>4. /\ f.filename = e.filename /\ f.exname = e.exname /\ f.directory = e.directory
      /\ f.first = e.first /\ f.free = e.free
  BY DEF SameButLength
<1>5. f.length = e.length => f = e
  BY <1>1, <1>2, <1>4
<1> HIDE DEF z
<1>6. f.length = 0 => f = z
  BY <1>1, <1>3, <1>4
<1> QED
  BY <1>5, <1>6 DEF z

LEMMA CopyFound ==
  ASSUME FilesGood, Regular, NEW fd \in Fd \ {0}, openfilelist[fd].topenfile
  PROVE  /\ openfilelist[openfilelist[fd].father].topenfile
         /\ CopyAgrees(openfilelist[fd], Dir(State, openfilelist[fd].father)[openfilelist[fd].diroff])
<1> DEFINE o == openfilelist
           e == o[fd]
           g == e.fcb.first
<1>1. PICK w : Settled(w)
  BY GoodSettles
<1>2. /\ e.father \in Fd /\ o[e.father].topenfile
      /\ g \in w.heads \ {Root} /\ w.up[g] = o[e.father].fcb.first
      /\ w.at[g] = e.diroff /\ w.up[g] \in w.dirs
      /\ OpenEntry(myvhard, w, e, o[e.father])
  BY <1>1, OpenPlace
<1> DEFINE d == w.up[g]
           i == w.at[g]
           entry == Entry(myvhard, d, i)
<1>3. PlacesInv(myvhard, w) /\ WitnessType(w) /\ DiscInv(myvhard) /\ SizesInv(myvhard, w)
      /\ TableInv(o, curdir)
  BY <1>1 DEF Settled, DiscFiles
<1>4. i \in Nat /\ (i + 1) * FCBSIZE <= w.length[d]
  BY <1>2, <1>3 DEF PlacesInv, WitnessType
<1>5. Dir(State, e.father)[i] = entry
  BY <1>1, <1>2, <1>4, DirHas
<1>6. SameButLength(e.fcb, entry) /\ (e.fcbstate \/ e.fcb.length \in {entry.length, 0})
  BY <1>2 DEF OpenEntry
<1>7. e.fcb \in FcbType
  BY <1>3, Entries DEF TableInv
<1>8. entry \in FcbType
  <2>1. OneChain(myvhard, d) /\ Room(myvhard, d) \in Nat /\ w.length[d] <= Room(myvhard, d)
    <3>1. d \in w.heads
      BY <1>2, <1>3 DEF WitnessType
    <3>2. OneChain(myvhard, d)
      BY <1>1, <3>1, HeadFcbIs
    <3> QED
      BY <1>2, <1>3, <3>2, RoomFacts DEF SizesInv
  <2>2. (i + 1) * FCBSIZE \in Nat /\ w.length[d] \in Nat
    <3>1. i + 1 \in Nat /\ FCBSIZE \in Nat
      BY <1>4, Sizes
    <3> QED
      BY <1>2, <1>3, <3>1, Times DEF WitnessType
  <2>3. (i + 1) * FCBSIZE <= Room(myvhard, d)
    BY <1>4, <2>1, <2>2
  <2>4. FcbOk(entry)
    BY <1>3, <1>4, <2>1, <2>3, EntryFcb
  <2> QED
    BY <2>4 DEF FcbOk
<1> HIDE DEF entry
<1> DEFINE f == e.fcb
<1>9. ~e.fcbstate => f \in {entry, [entry EXCEPT !.length = 0]}
  <2>1. SameButLength(f, entry) /\ f \in FcbType
    BY <1>6, <1>7
  <2>2. e.fcbstate \/ f.length = entry.length \/ f.length = 0
    BY <1>6
  <2> HIDE DEF f
  <2>3. /\ f.length = entry.length => f = entry
        /\ f.length = 0 => f = [entry EXCEPT !.length = 0]
    BY <1>8, <2>1, SameFcb
  <2> QED
    BY <2>2, <2>3
<1>10. entry.filename = f.filename /\ entry.first = f.first
  BY <1>6 DEF SameButLength
<1>11. CopyAgrees(e, entry)
  BY <1>9, <1>10 DEF CopyAgrees
<1> QED
  BY <1>2, <1>5, <1>11

LEMMA CopiesFound ==
  ASSUME FilesGood, Regular
  PROVE  CopiesAgree
<1>1. openfilelist[curdir].topenfile
  BY DEF FilesGood, RootInv, TableInv, Regular
<1>2. \A fd \in Fd \ {0} : openfilelist[fd].topenfile =>
        /\ openfilelist[openfilelist[fd].father].topenfile
        /\ CopyAgrees(openfilelist[fd], Dir(State, openfilelist[fd].father)[openfilelist[fd].diroff])
  BY CopyFound
<1> QED
  BY <1>1, <1>2, Zenon DEF CopiesAgree, CopyAgrees

\* What the table of open files says of a file, its directory says too.
THEOREM CopiesAgreeAlways == Spec => []CopiesAgree
<1>1. FilesGood => CopiesAgree
  BY CopiesFound DEF CopiesAgree
<1> QED
  BY <1>1, FilesStayGood, PTL
=============================================================================
