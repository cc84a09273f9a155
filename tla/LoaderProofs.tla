------------------------------ MODULE LoaderProofs ------------------------------
(***************************************************************************)
(* Theorems about Fat12, Boot and Loader, for every geometry of the floppy *)
(* and every FAT chain: entries are read right wherever they lie in their  *)
(* sectors, files are loaded whole and in order, and the kernel is entered *)
(* with its segments in place and the memory mapped.                       *)
(***************************************************************************)
EXTENDS Loader, TLAPS, SequenceTheorems

-----------------------------------------------------------------------------
(* The inductive invariants, part by part.                                 *)

\* What the variables hold.
BootType ==
  /\ disk \in Discs /\ bios_map \in MemoryMaps
  /\ program \in {"boot", "loader"}
  /\ pc \in {"mem_chk", "next_sector", "compare", "load", "loaded", "no_file"}
  /\ wRootDirSizeForLoop \in 0 .. RootDirSectors
  /\ dx \in 0 .. EntriesPerSector
  /\ DOMAIN memory = File
  /\ \A f \in File : DOMAIN memory[f] = 0 .. SegmentSize - 1

SectorsRead == RootDirSectors - wRootDirSizeForLoop

NotBefore(e) == \A i \in DirEntry : i < e => disk.root[i] /= Target

\* The directory is read in order, and the file is in no entry before.
SearchInv ==
  /\ pc = "mem_chk" => /\ wSectorNo = SectorNoOfRootDirectory
                       /\ wRootDirSizeForLoop = RootDirSectors
                       /\ program = "loader"
  /\ pc = "next_sector" => /\ wSectorNo = SectorNoOfRootDirectory + SectorsRead
                           /\ NotBefore(SectorsRead * EntriesPerSector)
  /\ pc = "compare" =>
       LET first == (SectorsRead - 1) * EntriesPerSector
           at    == EntriesPerSector - dx
       IN  /\ SectorsRead >= 1
           /\ wSectorNo = SectorNoOfRootDirectory + SectorsRead - 1
           /\ di = OffsetOf[Target] + at * EntrySize
           /\ \A k \in Byte : memory[Target][OffsetOf[Target] + k]
                               = Disc(disk)[wSectorNo][k]
           /\ NotBefore(first + at)
  /\ pc = "no_file" => ~OnDisc(Target)

\* The first clusters of a file are in its segment, up to byte m.
Loaded(f, m) == \A n \in 0 .. m - 1 : memory[f][OffsetOf[f] + n] = FileByte(f, n)

\* The clusters before the one on the stack are loaded.
LoadInv ==
  /\ pc = "load" =>
       /\ OnDisc(Target)
       /\ \E n \in DOMAIN disk.chain[Target] :
            /\ cluster = disk.chain[Target][n]
            /\ bx = OffsetOf[Target] + (n - 1) * BPB_BytsPerSec
            /\ Loaded(Target, (n - 1) * BPB_BytsPerSec)
  /\ pc = "loaded" => OnDisc(Target) /\ InMemory(Target)
  /\ program = "loader" => InMemory("LOADER")

BootInv == BootType /\ SearchInv /\ LoadInv

RangeRecord == [base: Nat, length: Nat, type: Nat]

\* The memory map as far as it was asked for; none after a failure.
MapInv ==
  /\ MemChkBuf \in Seq(RangeRecord)
  /\ Len(MemChkBuf) <= Len(bios_map)
  /\ \A n \in DOMAIN MemChkBuf : MemChkBuf[n] = bios_map[n]
  /\ program = "boot" => dwMCRNumber = 0 /\ MemChkBuf = <<>>
  /\ pc = "mem_chk" => dwMCRNumber = Len(MemChkBuf) /\ Len(MemChkBuf) < Len(bios_map)
  /\ pc /= "mem_chk" => dwMCRNumber = 0 \/ dwMCRNumber = Len(bios_map)
  /\ dwMCRNumber = 0 \/ dwMCRNumber = Len(MemChkBuf)

\* The ends of the ranges before are no greater than the size of memory.
SizeInv ==
  /\ stage \in {"real_mode", "DispMemInfo", "no_map", "SetupPaging", "InitKernel", "kernel"}
  /\ stage /= "real_mode" => program = "loader" /\ pc = "loaded"
  /\ dwMemSize \in 0 .. DWORD - 1
  /\ ranges \in Nat
  /\ stage = "real_mode" => ranges = 0
  /\ stage = "DispMemInfo" =>
       /\ ranges = 0 \/ ranges < dwMCRNumber
       /\ \A n \in 1 .. ranges : End(n) <= dwMemSize
  /\ stage \in {"SetupPaging", "InitKernel", "kernel"} =>
       /\ dwMCRNumber = Len(bios_map)
       /\ \A n \in DOMAIN bios_map : End(n) <= dwMemSize

PagingInv ==
  stage \in {"InitKernel", "kernel"} =>
    /\ page_dir = [n \in 0 .. LoopCount(PageTables) - 1 |-> n]
    /\ page_tbl = [n \in 0 .. LoopCount((PageTables * PTES) % DWORD) - 1 |-> n]

InPlace(n) ==
  LET h == ProgramHeaders[n]
  IN  ~h.null => \A a \in Segment(h) : image[a] = FileByte("KERNEL", h.offset + (a - h.vaddr))

\* The segments of the headers before the one that InitKernel is at.
KernelInv ==
  /\ ph \in DOMAIN ProgramHeaders
  /\ DOMAIN image = Address
  /\ \A n \in DOMAIN ProgramHeaders : n < ph \/ stage = "kernel" => InPlace(n)

IInv == BootInv /\ MapInv /\ SizeInv /\ PagingInv /\ KernelInv

-----------------------------------------------------------------------------
(* Division.                                                               *)

\* Products with a positive number are ordered as the factors are.
LEMMA Multiples ==
  ASSUME NEW w \in Nat \ {0}, NEW m \in Int, NEW n \in Int
  PROVE  /\ w * m \in Int /\ m * w = w * m
         /\ w * (m + 1) = w * m + w /\ w * (m - 1) = w * m - w
         /\ m < n <=> w * m < w * n
         /\ m <= n <=> w * m <= w * n
         /\ w * 0 = 0 /\ w * 1 = w
BY SMTT(30)

\* A number is its quotient and its remainder.
LEMMA DivMod ==
  ASSUME NEW w \in Nat \ {0}, NEW n \in Int
  PROVE  /\ n = w * (n \div w) + (n % w)
         /\ n \div w \in Int /\ n % w \in 0 .. w - 1
         /\ n \in Nat => n \div w \in Nat
BY SMTT(30)

\* The quotient and the remainder are the only ones.
LEMMA DivModUnique ==
  ASSUME NEW w \in Nat \ {0}, NEW q \in Int, NEW r \in 0 .. w - 1, NEW n, n = w * q + r
  PROVE  n \div w = q /\ n % w = r
<1>1. w * q \in Int
  BY Multiples
<1>2. n \in Int
  BY <1>1
<1> DEFINE p == n \div w
           s == n % w
<1>3. n = w * p + s /\ p \in Int /\ s \in 0 .. w - 1
  BY <1>2, DivMod
<1> HIDE DEF p, s
<1>4. /\ w * p \in Int /\ w * (p + 1) = w * p + w /\ w * (q + 1) = w * q + w
      /\ p + 1 <= q => w * (p + 1) <= w * q
      /\ q + 1 <= p => w * (q + 1) <= w * p
  BY <1>3, Multiples
<1>5. p = q
  BY <1>1, <1>3, <1>4
<1>6. s = r
  BY <1>1, <1>3, <1>5
<1> QED
  BY <1>5, <1>6 DEF p, s

-----------------------------------------------------------------------------
(* ReadSector.                                                             *)

\* The cylinder, the head and the sector number are those of the sector.
LEMMA ChsPlace ==
  ASSUME NEW x \in Nat
  PROVE  /\ (Chs(x).cylinder * NumHeads + Chs(x).head) * BPB_SecPerTrk + Chs(x).sector - 1 = x
         /\ Chs(x).sector = (x % BPB_SecPerTrk) + 1
         /\ Chs(x).sector \in 1 .. BPB_SecPerTrk
<1> DEFINE spt == BPB_SecPerTrk
           y == x \div spt
           r == x % spt
<1>1. spt \in Nat \ {0}
  BY Fat12Assumption
<1>2. x = spt * y + r /\ y \in Nat /\ r \in 0 .. spt - 1
  <2>1. x \in Int
    OBVIOUS
  <2> QED
    BY <1>1, <2>1, DivMod, Zenon
<1>3. Chs(x).cylinder = y \div 2 /\ Chs(x).head = y % 2 /\ Chs(x).sector = r + 1
  BY DEF Chs
<1> HIDE DEF spt, y, r
<1>4. Chs(x).cylinder * NumHeads + Chs(x).head = y
  BY <1>2, <1>3 DEF NumHeads
<1>5. y * spt = spt * y /\ spt * y \in Int
  BY <1>1, <1>2, Multiples
<1>6. (Chs(x).cylinder * NumHeads + Chs(x).head) * BPB_SecPerTrk + Chs(x).sector - 1 = spt * y + (r + 1) - 1
  BY <1>3, <1>4, <1>5 DEF spt
<1>7. Chs(x).sector = (x % BPB_SecPerTrk) + 1
  BY <1>3 DEF spt, r
<1> QED
  BY <1>1, <1>2, <1>3, <1>5, <1>6, <1>7 DEF spt

\* Sectors of one track.
LEMMA Reads ==
  ASSUME NEW disc, NEW x \in Nat, NEW n \in {1, 2}, NEW s \in 0 .. n - 1, NEW k \in Byte,
         x + s \in Sector, (x % BPB_SecPerTrk) + s < BPB_SecPerTrk
  PROVE  /\ s * BPB_BytsPerSec + k \in DOMAIN ReadSector(disc, x, n)
         /\ ReadSector(disc, x, n)[s * BPB_BytsPerSec + k] = disc[x + s][k]
<1> DEFINE b == BPB_BytsPerSec
           at == s * b + k
           chs == Chs(x)
           first == (chs.cylinder * NumHeads + chs.head) * BPB_SecPerTrk + chs.sector - 1
<1>1. b \in Nat \ {0} /\ s \in {0, 1} /\ k \in 0 .. b - 1
  BY Fat12Assumption DEF Byte
<1>2. first = x /\ chs.sector = (x % BPB_SecPerTrk) + 1 /\ x % BPB_SecPerTrk \in Int
  <2>1. x % BPB_SecPerTrk \in Int
    BY Fat12Assumption, DivMod
  <2> QED
    BY <2>1, ChsPlace
<1>3. at = b * s + k /\ at \in 0 .. n * b - 1
  BY <1>1
<1>4. at \div b = s /\ at % b = k
  <2>1. s \in Int
    BY <1>1
  <2> QED
    BY <1>1, <1>3, <2>1, DivModUnique, Zenon
<1>5. first + s \in Sector /\ chs.sector + s <= BPB_SecPerTrk
  BY <1>1, <1>2, Fat12Assumption
<1>6. ReadSector(disc, x, n) =
        [i \in 0 .. n * b - 1 |->
           IF first + i \div b \in Sector /\ chs.sector + i \div b <= BPB_SecPerTrk
           THEN disc[first + i \div b][i % b] ELSE NoByte]
  BY DEF ReadSector, Int13
<1> HIDE DEF b, at, chs, first
<1>7. at \in DOMAIN ReadSector(disc, x, n)
  BY <1>3, <1>6
<1>8. ReadSector(disc, x, n)[at] = disc[first + s][k]
  BY <1>3, <1>4, <1>5, <1>6
<1> QED
  BY <1>2, <1>7, <1>8 DEF at, b

\* ReadSector reads the sector it is asked for.
LEMMA ReadsOne ==
  ASSUME NEW disc, NEW x \in Sector, NEW k \in Byte
  PROVE  ReadSector(disc, x, 1)[k] = disc[x][k]
<1>1. x \in Nat /\ BPB_SecPerTrk \in Nat \ {0}
  BY Fat12Assumption DEF Sector
<1>2. x % BPB_SecPerTrk < BPB_SecPerTrk /\ x % BPB_SecPerTrk \in Int
  BY <1>1, DivMod
<1>3. 0 * BPB_BytsPerSec + k = k /\ x + 0 = x
  BY <1>1, Fat12Assumption DEF Byte
<1> QED
  BY <1>1, <1>2, <1>3, Reads

-----------------------------------------------------------------------------
(* GetFATEntry.                                                            *)

TwelveBit == {v \in Nat : v < 4096}

TwelveBitEntries == [0 .. Entries - 1 -> TwelveBit]

\* The entries have three half bytes each, two of which are a byte.
LEMMA EntriesFit ==
  /\ Entries \in Nat
  /\ BPB_FATSz16 * BPB_BytsPerSec \in Nat
  /\ 3 * Entries <= 2 * (BPB_FATSz16 * BPB_BytsPerSec)
<1> DEFINE fb == BPB_FATSz16 * BPB_BytsPerSec
<1>1. fb \in Nat
  BY Fat12Assumption, SMTT(30)
<1>2. (2 * BPB_FATSz16) * BPB_BytsPerSec = 2 * fb
  BY Fat12Assumption, SMTT(30)
<1>3. Entries = (2 * fb) \div 3
  BY <1>2 DEF Entries
<1> HIDE DEF fb
<1>4. Entries \in Nat /\ 3 * Entries <= 2 * fb
  BY <1>1, <1>3
<1> QED
  BY <1>1, <1>4 DEF fb

\* The three half bytes of an entry, lowest first.
LEMMA Nibbles ==
  ASSUME NEW E \in TwelveBitEntries, NEW n \in 0 .. Entries - 1
  PROVE  /\ Nibble(E, 3 * n) = E[n] % 16
         /\ Nibble(E, 3 * n + 1) = (E[n] \div 16) % 16
         /\ Nibble(E, 3 * n + 2) = (E[n] \div 256) % 16
<1>1. Entries \in Nat
  BY EntriesFit
<1>2. /\ (3 * n) \div 3 = n /\ (3 * n + 1) \div 3 = n /\ (3 * n + 2) \div 3 = n
      /\ (3 * n) % 3 = 0 /\ (3 * n + 1) % 3 = 1 /\ (3 * n + 2) % 3 = 2
  OBVIOUS
<1>3. <<1, 16, 256>>[0 + 1] = 1 /\ <<1, 16, 256>>[1 + 1] = 16 /\ <<1, 16, 256>>[2 + 1] = 256
  OBVIOUS
<1>4. E[n] \div 1 = E[n]
  <2>1. E[n] \in TwelveBit
    BY DEF TwelveBitEntries
  <2> QED
    BY <2>1 DEF TwelveBit
<1>5. \A h \in Int : h \div 3 = n => Nibble(E, h) = (E[n] \div <<1, 16, 256>>[(h % 3) + 1]) % 16
  BY <1>1 DEF Nibble
<1>6. Nibble(E, 3 * n) = (E[n] \div <<1, 16, 256>>[0 + 1]) % 16
  BY <1>2, <1>5
<1>7. Nibble(E, 3 * n + 1) = (E[n] \div <<1, 16, 256>>[1 + 1]) % 16
  BY <1>2, <1>5
<1>8. Nibble(E, 3 * n + 2) = (E[n] \div <<1, 16, 256>>[2 + 1]) % 16
  BY <1>2, <1>5
<1> QED
  BY <1>3, <1>4, <1>6, <1>7, <1>8

\* A half byte, which may be one after the last entry.
LEMMA NibbleType ==
  ASSUME NEW E \in TwelveBitEntries, NEW h \in Nat
  PROVE  Nibble(E, h) \in 0 .. 15
<1> DEFINE n == h \div 3
<1>1. Entries \in Nat /\ n \in Nat /\ h = 3 * n + (h % 3) /\ h % 3 \in 0 .. 2
  BY EntriesFit
<1>2. CASE n >= Entries
  BY <1>2 DEF Nibble
<1>3. CASE n < Entries
  <2>1. n \in 0 .. Entries - 1
    BY <1>1, <1>3
  <2>2. E[n] \in TwelveBit
    BY <2>1 DEF TwelveBitEntries
  <2> HIDE DEF n
  <2>3. h = 3 * n \/ h = 3 * n + 1 \/ h = 3 * n + 2
    BY <1>1
  <2>4. Nibble(E, h) = E[n] % 16 \/ Nibble(E, h) = (E[n] \div 16) % 16 \/ Nibble(E, h) = (E[n] \div 256) % 16
    BY <2>1, <2>3, Nibbles
  <2> QED
    BY <2>2, <2>4 DEF TwelveBit
<1> QED
  BY <1>1, <1>2, <1>3

\* The half bytes of an entry, put together again.
LEMMA EvenEntry ==
  ASSUME NEW v \in TwelveBit, NEW x \in 0 .. 15
  PROVE  TwelveBits(0, ((v % 16) + 16 * ((v \div 16) % 16)) + 256 * (((v \div 256) % 16) + 16 * x)) = v
<1> DEFINE p == v % 16
           q == (v \div 16) % 16
           r == (v \div 256) % 16
<1>1. v \in Nat /\ v < 4096
  BY DEF TwelveBit
<1>2. v = p + 16 * q + 256 * r /\ p \in Int /\ q \in Int /\ r \in Int
  BY <1>1
<1> HIDE DEF p, q, r
<1>3. (p + 16 * q) + 256 * (r + 16 * x) = v + 4096 * x
  BY <1>2
<1>4. (v + 4096 * x) % 4096 = v
  BY <1>1
<1> QED
  BY <1>3, <1>4 DEF TwelveBits, p, q, r

\* The same for an entry that begins in the middle of a byte.
LEMMA OddEntry ==
  ASSUME NEW v \in TwelveBit, NEW x \in 0 .. 15
  PROVE  TwelveBits(1, (x + 16 * (v % 16)) + 256 * (((v \div 16) % 16) + 16 * ((v \div 256) % 16))) = v
<1> DEFINE p == v % 16
           q == (v \div 16) % 16
           r == (v \div 256) % 16
<1>1. v \in Nat /\ v < 4096
  BY DEF TwelveBit
<1>2. v = p + 16 * q + 256 * r /\ p \in Int /\ q \in Int /\ r \in Int
  BY <1>1
<1> HIDE DEF p, q, r
<1>3. (x + 16 * p) + 256 * (q + 16 * r) = 16 * v + x
  BY <1>2
<1>4. (16 * v + x) \div 16 = v
  BY <1>1
<1> QED
  BY <1>3, <1>4 DEF TwelveBits, p, q, r

\* A cluster of a chain is in no other place, and is linked to the next one.
LEMMA Link ==
  ASSUME NEW d \in Discs, NEW f \in File, NEW n \in DOMAIN d.chain[f]
  PROVE  /\ d.chain[f] \in Seq(Cluster) /\ d.chain[f][n] \in Cluster
         /\ Entry(d)[d.chain[f][n]] =
              IF n = Len(d.chain[f]) THEN EndOfChain ELSE d.chain[f][n + 1]
<1> DEFINE c == d.chain[f][n]
           In(g) == c \in {d.chain[g][m] : m \in DOMAIN d.chain[g]}
<1>1. d.chain[f] \in Seq(Cluster) /\ c \in Cluster /\ DOMAIN d.chain[f] = 1 .. Len(d.chain[f])
  BY FloppyAssumption
<1>2. \A g \in File : In(g) => g = f
  BY FloppyAssumption
<1>3. In(f)
  OBVIOUS
<1>4. (CHOOSE g \in File : In(g)) = f
  BY <1>2, <1>3
<1>5. (CHOOSE m \in 1 .. Len(d.chain[f]) : d.chain[f][m] = c) = n
  BY <1>1, FloppyAssumption
<1>6. c \in 0 .. Entries - 1 /\ c # 0 /\ c # 1
  BY <1>1, EntriesFit, SMTT(30) DEF Cluster
<1>7. Entry(d)[c] = Successor(d.chain[f], c)
  BY <1>3, <1>4, <1>6 DEF Entry
<1> QED
  BY <1>1, <1>5, <1>7 DEF Successor

\* The entries of the FAT have twelve bits.
LEMMA EntryType ==
  ASSUME NEW d \in Discs
  PROVE  Entry(d) \in TwelveBitEntries
<1> SUFFICES ASSUME NEW c \in 0 .. Entries - 1
             PROVE  Entry(d)[c] \in TwelveBit
  BY DEF Entry, TwelveBitEntries
<1> DEFINE Used == \E f \in File : c \in {d.chain[f][n] : n \in DOMAIN d.chain[f]}
           next == Successor(d.chain[CHOOSE f \in File : c \in {d.chain[f][n] : n \in DOMAIN d.chain[f]}], c)
<1>0. Entry(d)[c] = CASE c = 0 -> 4080 [] c = 1 -> EndOfChain [] Used -> next [] OTHER -> 0
  BY DEF Entry
<1>u. Used => c # 0 /\ c # 1
  <2> SUFFICES ASSUME NEW f \in File, NEW n \in DOMAIN d.chain[f]
               PROVE  d.chain[f][n] # 0 /\ d.chain[f][n] # 1
    OBVIOUS
  <2>1. d.chain[f][n] \in Cluster
    BY Link
  <2> QED
    BY <2>1 DEF Cluster
<1> HIDE DEF Used, next
<1>1. CASE c = 0
  <2>1. Entry(d)[c] = 4080
    BY <1>0, <1>1, <1>u
  <2> QED
    BY <2>1 DEF TwelveBit
<1>2. CASE c = 1
  <2>1. Entry(d)[c] = EndOfChain
    BY <1>0, <1>2, <1>u
  <2> QED
    BY <2>1 DEF TwelveBit, EndOfChain
<1>3. CASE Used
  <2> PICK f \in File : c \in {d.chain[f][n] : n \in DOMAIN d.chain[f]}
    BY <1>3 DEF Used
  <2>1. PICK n \in DOMAIN d.chain[f] : c = d.chain[f][n]
    OBVIOUS
  <2>2. Entry(d)[c] = EndOfChain \/ (n + 1 \in DOMAIN d.chain[f] /\ Entry(d)[c] = d.chain[f][n + 1])
    BY <2>1, Link
  <2>3. \A m \in DOMAIN d.chain[f] : d.chain[f][m] \in Cluster
    BY Link
  <2>4. \A k \in Cluster : k \in TwelveBit
    BY EntriesFit DEF Cluster, TwelveBit, EndOfChain
  <2> QED
    BY <2>2, <2>3, <2>4 DEF TwelveBit, EndOfChain
<1>4. CASE c # 0 /\ c # 1 /\ ~Used
  BY <1>0, <1>4 DEF TwelveBit
<1> QED
  BY <1>1, <1>2, <1>3, <1>4

\* The sectors of the first FAT hold it, byte by byte.
LEMMA FatOnDisc ==
  ASSUME NEW d \in Discs, NEW q \in 0 .. BPB_FATSz16 - 1, NEW k \in Byte
  PROVE  /\ SectorNoOfFAT1 + q \in Sector
         /\ Disc(d)[SectorNoOfFAT1 + q][k] = FatByte(Entry(d), q * BPB_BytsPerSec + k)
<1> DEFINE s == SectorNoOfFAT1 + q
<1>1. /\ SectorNoOfFAT1 \in Nat /\ BPB_FATSz16 \in Nat \ {0} /\ TotSec \in Nat
      /\ RootDirSectors \in Nat
      /\ SectorNoOfRootDirectory = SectorNoOfFAT1 + 2 * BPB_FATSz16
      /\ SectorNoOfRootDirectory + RootDirSectors <= TotSec
  BY Fat12Assumption, BootAssumption, FloppyAssumption
<1>2. s \in Sector /\ ~(s < SectorNoOfFAT1) /\ s < SectorNoOfRootDirectory
  BY <1>1 DEF Sector
<1>3. (s - SectorNoOfFAT1) % BPB_FATSz16 = q
  <2>1. s - SectorNoOfFAT1 = q
    BY <1>1
  <2>2. PICK m : m = q
    OBVIOUS
  <2>3. m = BPB_FATSz16 * 0 + q /\ 0 \in Int /\ BPB_FATSz16 \in Nat \ {0}
    BY <1>1, <2>2
  <2>4. m \div BPB_FATSz16 = 0 /\ m % BPB_FATSz16 = q
    BY <2>3, DivModUnique, Zenon
  <2> QED
    BY <2>1, <2>2, <2>4
<1> HIDE DEF s
<1>4. Disc(d)[s][k] = FatByte(Entry(d), ((s - SectorNoOfFAT1) % BPB_FATSz16) * BPB_BytsPerSec + k)
  BY <1>2 DEF Disc
<1> QED
  BY <1>2, <1>3, <1>4 DEF s

\* The two sectors that GetFATEntry reads hold two bytes of the FAT that follow
\* one another, wherever the sectors begin.
LEMMA TwoBytes ==
  ASSUME NEW d \in Discs, NEW o \in Nat, o + 1 < BPB_FATSz16 * BPB_BytsPerSec
  PROVE  LET at  == o % BPB_BytsPerSec
             buf == ReadSector(Disc(d), SectorNoOfFAT1 + o \div BPB_BytsPerSec, 2)
         IN  /\ at + 1 \in DOMAIN buf
             /\ buf[at] = FatByte(Entry(d), o)
             /\ buf[at + 1] = FatByte(Entry(d), o + 1)
<1> DEFINE b == BPB_BytsPerSec
           q == o \div b
           at == o % b
           x == SectorNoOfFAT1 + q
           buf == ReadSector(Disc(d), x, 2)
           spt == BPB_SecPerTrk
<1>1. /\ b \in Nat \ {0} /\ BPB_FATSz16 \in Nat \ {0} /\ SectorNoOfFAT1 \in Nat /\ spt \in Nat \ {0}
      /\ (SectorNoOfFAT1 % spt) + BPB_FATSz16 <= spt
  BY Fat12Assumption
<1>2. o = b * q + at /\ q \in Nat /\ at \in 0 .. b - 1
  <2>1. o \in Int
    OBVIOUS
  <2> QED
    BY <1>1, <2>1, DivMod, Zenon
<1>3. BPB_FATSz16 * b = b * BPB_FATSz16
  BY <1>1, Multiples
<1> HIDE DEF q, at
<1>4. q < BPB_FATSz16
  <2>1. b * q < b * BPB_FATSz16
    <3>1. b * q \in Int /\ b * BPB_FATSz16 \in Int
      BY <1>1, <1>2, Multiples
    <3> QED
      BY <1>1, <1>2, <1>3, <3>1
  <2> QED
    BY <1>1, <1>2, <2>1, Multiples
<1>5. x % spt = (SectorNoOfFAT1 % spt) + q
  <2> DEFINE p == SectorNoOfFAT1 \div spt
             r == SectorNoOfFAT1 % spt
  <2>1. SectorNoOfFAT1 = spt * p + r /\ p \in Int /\ r \in 0 .. spt - 1
    <3>1. SectorNoOfFAT1 \in Int
      BY <1>1
    <3> QED
      BY <1>1, <3>1, DivMod, Zenon
  <2>2. r + BPB_FATSz16 <= spt
    BY <1>1
  <2> HIDE DEF p, r
  <2>3. PICK m : m = r + q
    OBVIOUS
  <2>4. spt * p \in Int
    BY <1>1, <2>1, Multiples
  <2>5. x = spt * p + m /\ spt \in Nat \ {0} /\ p \in Int /\ m \in 0 .. spt - 1
    BY <1>1, <1>2, <1>4, <2>1, <2>2, <2>3, <2>4
  <2> HIDE DEF x
  <2>6. x \div spt = p /\ x % spt = m
    BY <2>5, DivModUnique, Zenon
  <2> QED
    BY <2>3, <2>6 DEF r
<1>6. SectorNoOfFAT1 % spt \in Int /\ SectorNoOfFAT1 % spt >= 0
  BY <1>1
<1>7. \A n \in {0, 1} : \A k \in Byte : q + n < BPB_FATSz16 =>
        /\ n * b + k \in DOMAIN buf
        /\ buf[n * b + k] = FatByte(Entry(d), (q + n) * b + k)
  <2> SUFFICES ASSUME NEW n \in {0, 1}, NEW k \in Byte, q + n < BPB_FATSz16
               PROVE  /\ n * b + k \in DOMAIN buf
                      /\ buf[n * b + k] = FatByte(Entry(d), (q + n) * b + k)
    OBVIOUS
  <2>1. q + n \in 0 .. BPB_FATSz16 - 1 /\ x + n = SectorNoOfFAT1 + (q + n)
    BY <1>1, <1>2
  <2>2. x + n \in Sector /\ Disc(d)[x + n][k] = FatByte(Entry(d), (q + n) * b + k)
    BY <2>1, FatOnDisc
  <2>3. (x % spt) + n < spt
    BY <1>1, <1>2, <1>5, <1>6
  <2>4. x \in Nat /\ 2 \in {1, 2} /\ n \in 0 .. 2 - 1
    BY <1>1, <1>2
  <2> HIDE DEF x
  <2> QED
    BY <2>2, <2>3, <2>4, Reads
<1>8. at \in Byte
  BY <1>1, <1>2 DEF Byte
<1>9. q * b = b * q /\ (q + 1) * b = b * q + b /\ b * q \in Int
  <2>1. q * b = b * q /\ b * q \in Int /\ b * (q + 1) = b * q + b
    BY <1>1, <1>2, Multiples
  <2>2. (q + 1) * b = b * (q + 1)
    <3>1. q + 1 \in Int
      BY <1>2
    <3> QED
      BY <1>1, <3>1, Multiples
  <2> QED
    BY <2>1, <2>2
<1>10. at \in DOMAIN buf /\ buf[at] = FatByte(Entry(d), o)
  <2>1. 0 * b + at = at /\ q + 0 = q /\ q * b + at = o
    BY <1>1, <1>2, <1>9
  <2> QED
    BY <1>4, <1>7, <1>8, <2>1
<1>11. at + 1 \in DOMAIN buf /\ buf[at + 1] = FatByte(Entry(d), o + 1)
  <2>1. CASE at + 1 < b
    <3>1. at + 1 \in Byte /\ 0 * b + (at + 1) = at + 1 /\ q + 0 = q /\ q * b + (at + 1) = o + 1
      BY <1>1, <1>2, <1>9, <2>1 DEF Byte
    <3> QED
      BY <1>4, <1>7, <3>1
  <2>2. CASE at + 1 = b
    <3>1. 0 \in Byte /\ 1 * b + 0 = at + 1 /\ (q + 1) * b + 0 = o + 1
      BY <1>1, <1>2, <1>9, <2>2 DEF Byte
    <3>2. b * (q + 1) < b * BPB_FATSz16
      <4>1. b * BPB_FATSz16 \in Int /\ b * (q + 1) = o + 1
        BY <1>1, <1>2, <1>9, <2>2, Multiples
      <4> QED
        BY <1>3, <4>1
    <3>3. q + 1 < BPB_FATSz16
      <4>1. q + 1 \in Int
        BY <1>2
      <4> QED
        BY <1>1, <3>2, <4>1, Multiples
    <3> QED
      BY <1>7, <3>1, <3>3
  <2> QED
    BY <1>1, <1>2, <2>1, <2>2
<1> QED
  BY <1>10, <1>11 DEF q, at

\* GetFATEntry returns the entry of the cluster, wherever its twelve bits lie
\* relative to bytes and to the ends of sectors.
THEOREM FatEntryRead ==
  ASSUME NEW d \in Discs, NEW c \in 2 .. Entries - 1
  PROVE  GetFATEntry(Disc(d), c) = Entry(d)[c]
<1> DEFINE E == Entry(d)
           o == (c * 3) \div 2
           at == o % BPB_BytsPerSec
           buf == ReadSector(Disc(d), SectorNoOfFAT1 + o \div BPB_BytsPerSec, 2)
           low == Nibble(E, 2 * o) + 16 * Nibble(E, 2 * o + 1)
           high == Nibble(E, 2 * (o + 1)) + 16 * Nibble(E, 2 * (o + 1) + 1)
<1>1. E \in TwelveBitEntries
  BY EntryType
<1>2. c \in Nat /\ c <= Entries - 1 /\ Entries \in Nat /\ c \in 0 .. Entries - 1
  BY EntriesFit
<1>3. o \in Nat /\ (c * 3 = 2 * o \/ c * 3 = 2 * o + 1)
  BY <1>2
<1>4. o + 1 < BPB_FATSz16 * BPB_BytsPerSec
  BY <1>2, <1>3, EntriesFit
<1>5. /\ at + 1 \in DOMAIN buf
      /\ buf[at] = FatByte(E, o) /\ buf[at + 1] = FatByte(E, o + 1)
  BY <1>3, <1>4, TwoBytes
<1>6. buf[at][2] = low /\ buf[at + 1][2] = high
  BY <1>5 DEF FatByte
<1>7. GetFATEntry(Disc(d), c) = TwelveBits((c * 3) % 2, low + 256 * high)
  BY <1>5, <1>6 DEF GetFATEntry, FatSectors
<1> HIDE DEF E, o, at, buf
<1>8. E[c] \in TwelveBit
  BY <1>1, <1>2 DEF TwelveBitEntries
<1>9. CASE c * 3 = 2 * o
  <2>1. (c * 3) % 2 = 0
    BY <1>3, <1>9
  <2>2. 2 * o = 3 * c /\ 2 * o + 1 = 3 * c + 1 /\ 2 * (o + 1) = 3 * c + 2
    BY <1>2, <1>3, <1>9
  <2>3. 2 * (o + 1) + 1 \in Nat
    BY <1>3
  <2>4. PICK x : x = Nibble(E, 2 * (o + 1) + 1)
    OBVIOUS
  <2>5. x \in 0 .. 15
    BY <1>1, <2>3, <2>4, NibbleType
  <2>6. low = (E[c] % 16) + 16 * ((E[c] \div 16) % 16) /\ high = ((E[c] \div 256) % 16) + 16 * x
    BY <1>1, <1>2, <2>2, <2>4, Nibbles
  <2> QED
    BY <1>7, <1>8, <2>1, <2>5, <2>6, EvenEntry DEF E
<1>10. CASE c * 3 = 2 * o + 1
  <2>1. (c * 3) % 2 = 1
    BY <1>3, <1>10
  <2>2. 2 * o + 1 = 3 * c /\ 2 * (o + 1) = 3 * c + 1 /\ 2 * (o + 1) + 1 = 3 * c + 2
    BY <1>2, <1>3, <1>10
  <2>3. 2 * o \in Nat
    BY <1>3
  <2>4. PICK x : x = Nibble(E, 2 * o)
    OBVIOUS
  <2>5. x \in 0 .. 15
    BY <1>1, <2>3, <2>4, NibbleType
  <2>6. low = x + 16 * (E[c] % 16) /\ high = ((E[c] \div 16) % 16) + 16 * ((E[c] \div 256) % 16)
    BY <1>1, <1>2, <2>2, <2>4, Nibbles
  <2> QED
    BY <1>7, <1>8, <2>1, <2>5, <2>6, OddEntry DEF E
<1> QED
  BY <1>3, <1>9, <1>10

-----------------------------------------------------------------------------
(* The floppy, and a sector read into a segment.                           *)

\* The entries of a directory sector fill it.
LEMMA EntriesFill ==
  /\ BPB_BytsPerSec = EntrySize * EntriesPerSector
  /\ EntrySize \in Nat /\ EntrySize >= 2 /\ EntriesPerSector \in Nat \ {0}
<1>1. BPB_BytsPerSec \in Int /\ EntriesPerSector \in Nat \ {0} /\ BPB_BytsPerSec \in Nat
  BY Fat12Assumption, BootAssumption
<1>2. BPB_BytsPerSec % EntriesPerSector = 0 /\ EntrySize >= 2
  BY BootAssumption, FloppyAssumption
<1>3. /\ BPB_BytsPerSec = EntriesPerSector * EntrySize + (BPB_BytsPerSec % EntriesPerSector)
      /\ EntrySize \in Nat
  BY <1>1, DivMod, Zenon DEF EntrySize
<1>4. /\ EntriesPerSector * EntrySize \in Int
      /\ EntrySize * EntriesPerSector = EntriesPerSector * EntrySize
  BY <1>1, <1>3, Multiples
<1> QED
  BY <1>1, <1>2, <1>3, <1>4

\* The place of an entry in a directory sector.
LEMMA EntryPlace ==
  ASSUME NEW j \in 0 .. EntriesPerSector - 1
  PROVE  /\ j * EntrySize \in Nat
         /\ j * EntrySize + EntrySize <= BPB_BytsPerSec
         /\ j * EntrySize \in Byte /\ j * EntrySize + 1 \in Byte
<1>1. EntrySize \in Nat \ {0} /\ j \in Int /\ j + 1 <= EntriesPerSector /\ EntriesPerSector \in Int
  BY EntriesFill
<1>2. /\ EntrySize * j \in Int /\ j * EntrySize = EntrySize * j
      /\ EntrySize * (j + 1) = EntrySize * j + EntrySize
  BY <1>1, Multiples
<1>3. EntrySize * (j + 1) <= EntrySize * EntriesPerSector
  <2>1. j + 1 \in Int
    BY <1>1
  <2> QED
    BY <1>1, <2>1, Multiples
<1>4. EntrySize * j >= 0
  <2>1. EntrySize * 0 = 0 /\ 0 <= j /\ 0 \in Int
    BY <1>1, Multiples
  <2>2. EntrySize * 0 <= EntrySize * j
    BY <1>1, <2>1, Multiples
  <2> QED
    BY <2>1, <2>2
<1>5. j * EntrySize \in Nat /\ j * EntrySize + EntrySize <= BPB_BytsPerSec
  BY <1>1, <1>2, <1>3, <1>4, EntriesFill
<1> QED
  BY <1>5, EntriesFill, Fat12Assumption DEF Byte

\* The sectors of the directory hold its entries in order.
LEMMA DirectoryOnDisc ==
  ASSUME NEW d \in Discs, NEW s \in 0 .. RootDirSectors - 1, NEW j \in 0 .. EntriesPerSector - 1
  PROVE  /\ SectorNoOfRootDirectory + s \in Sector
         /\ s * EntriesPerSector + j \in DirEntry
         /\ Disc(d)[SectorNoOfRootDirectory + s][j * EntrySize] = <<d.root[s * EntriesPerSector + j], 0, 0>>
         /\ d.root[s * EntriesPerSector + j] \in File =>
              Disc(d)[SectorNoOfRootDirectory + s][j * EntrySize + 1]
                = <<"first", d.chain[d.root[s * EntriesPerSector + j]][1], 0>>
<1> DEFINE x == SectorNoOfRootDirectory + s
           es == EntrySize
           eps == EntriesPerSector
           e == s * eps + j
           k == j * es
<1>1. /\ SectorNoOfFAT1 \in Nat /\ BPB_FATSz16 \in Nat \ {0} /\ TotSec \in Nat
      /\ RootDirSectors \in Nat \ {0}
      /\ SectorNoOfRootDirectory = SectorNoOfFAT1 + 2 * BPB_FATSz16
      /\ SectorNoOfRootDirectory + RootDirSectors <= TotSec
  BY Fat12Assumption, BootAssumption, FloppyAssumption
<1>2. /\ x \in Sector /\ ~(x < SectorNoOfFAT1) /\ ~(x < SectorNoOfRootDirectory)
      /\ x < SectorNoOfRootDirectory + RootDirSectors /\ x - SectorNoOfRootDirectory = s
  BY <1>1 DEF Sector
<1>3. /\ BPB_BytsPerSec = es * eps /\ es \in Nat \ {0} /\ es >= 2 /\ eps \in Nat \ {0}
      /\ s \in Int /\ j \in Int
  BY EntriesFill
<1>4. k \in Nat /\ k \in Byte /\ k + 1 \in Byte
  BY EntryPlace
<1>5. e \in DirEntry /\ e \in Int
  <2>1. s + 1 \in Int /\ s + 1 <= RootDirSectors /\ RootDirSectors \in Int
    BY <1>1
  <2>2. /\ eps * s \in Int /\ s * eps = eps * s /\ eps * (s + 1) = eps * s + eps
        /\ eps * RootDirSectors \in Int /\ RootDirSectors * eps = eps * RootDirSectors
    BY <1>3, <2>1, Multiples
  <2>3. eps * (s + 1) <= eps * RootDirSectors
    BY <1>3, <2>1, Multiples
  <2>4. eps * s >= 0
    <3>1. eps * 0 = 0 /\ 0 \in Int /\ 0 <= s
      BY <1>1, <1>3, Multiples
    <3>2. eps * 0 <= eps * s
      BY <1>3, <3>1, Multiples
    <3> QED
      BY <3>1, <3>2
  <2> QED
    BY <1>3, <2>2, <2>3, <2>4 DEF DirEntry
<1>6. s * BPB_BytsPerSec + k = es * e
  BY <1>3, SMTT(30)
<1> HIDE DEF x, es, eps, e, k
<1>7. \A b \in {0, 1} : (es * e + b) \div es = e /\ (es * e + b) % es = b
  <2> SUFFICES ASSUME NEW b \in {0, 1}
               PROVE  (es * e + b) \div es = e /\ (es * e + b) % es = b
    OBVIOUS
  <2>1. PICK n : n = es * e + b
    OBVIOUS
  <2>2. b \in 0 .. es - 1
    BY <1>3
  <2>3. n \div es = e /\ n % es = b
    BY <1>3, <1>5, <2>1, <2>2, DivModUnique, Zenon
  <2> QED
    BY <2>1, <2>3
<1>8. s * BPB_BytsPerSec \in Int /\ es * e \in Int
  <2>1. es * e \in Int
    BY <1>3, <1>5, Multiples
  <2> QED
    BY <1>3, <1>4, <1>6, <2>1, Fat12Assumption
<1>9. \A b \in {0, 1} : Disc(d)[x][k + b] = DirByte(d, es * e + b)
  <2> SUFFICES ASSUME NEW b \in {0, 1}
               PROVE  Disc(d)[x][k + b] = DirByte(d, es * e + b)
    OBVIOUS
  <2>1. k + b \in Byte
    BY <1>4
  <2>2. Disc(d)[x][k + b] = DirByte(d, (x - SectorNoOfRootDirectory) * BPB_BytsPerSec + (k + b))
    BY <1>2, <2>1 DEF Disc
  <2>3. (x - SectorNoOfRootDirectory) * BPB_BytsPerSec + (k + b) = es * e + b
    BY <1>2, <1>4, <1>6, <1>8
  <2> QED
    BY <2>2, <2>3
<1>10. Disc(d)[x][k] = <<d.root[e], 0, 0>>
  <2>1. (es * e + 0) \div EntrySize = e /\ (es * e + 0) % EntrySize = 0
    BY <1>7 DEF es
  <2>2. DirByte(d, es * e + 0) = <<d.root[e], 0, 0>>
    BY <2>1 DEF DirByte
  <2>3. k + 0 = k
    BY <1>4
  <2> QED
    BY <1>9, <2>2, <2>3
<1>11. d.root[e] \in File => Disc(d)[x][k + 1] = <<"first", d.chain[d.root[e]][1], 0>>
  <2>1. (es * e + 1) \div EntrySize = e /\ (es * e + 1) % EntrySize = 1
    BY <1>7 DEF es
  <2>2. d.root[e] \in File => DirByte(d, es * e + 1) = <<"first", d.chain[d.root[e]][1], 0>>
    BY <2>1 DEF DirByte
  <2> QED
    BY <1>9, <2>2
<1> QED
  BY <1>2, <1>5, <1>10, <1>11 DEF x, e, eps, k, es

\* The sector of a cluster holds its bytes.
LEMMA ClusterOnDisc ==
  ASSUME NEW d \in Discs, NEW c \in Cluster, NEW k \in Byte
  PROVE  /\ c + RootDirSectors + DeltaSectorNo \in Sector
         /\ Disc(d)[c + RootDirSectors + DeltaSectorNo][k] = <<"data", c, k>>
<1> DEFINE x == c + RootDirSectors + DeltaSectorNo
<1>1. /\ SectorNoOfFAT1 \in Nat /\ BPB_FATSz16 \in Nat \ {0}
      /\ RootDirSectors \in Nat \ {0}
      /\ SectorNoOfRootDirectory = SectorNoOfFAT1 + 2 * BPB_FATSz16
      /\ DeltaSectorNo = SectorNoOfRootDirectory - 2
  BY Fat12Assumption, BootAssumption
<1>2. x \in Sector /\ c \in Nat /\ c >= 2
  BY EntriesFit DEF Cluster
<1>3. /\ ~(x < SectorNoOfFAT1) /\ ~(x < SectorNoOfRootDirectory)
      /\ ~(x < SectorNoOfRootDirectory + RootDirSectors)
      /\ x - DeltaSectorNo - RootDirSectors = c
  BY <1>1, <1>2
<1> HIDE DEF x
<1>4. Disc(d)[x][k] = DataByte(x, k)
  BY <1>2, <1>3 DEF Disc
<1> QED
  BY <1>2, <1>3, <1>4 DEF DataByte, x

\* A place of one sector in a segment does not wrap.
Fits(at) == at \in Nat /\ at + BPB_BytsPerSec <= SegmentSize

\* ReadTo changes the bytes of one sector and no other, of one file.
LEMMA ReadToSegment ==
  ASSUME BootType, NEW at, Fits(at), NEW sector \in Sector, ReadTo(at, sector)
  PROVE  /\ DOMAIN memory' = File
         /\ \A f \in File : DOMAIN memory'[f] = 0 .. SegmentSize - 1
         /\ \A f \in File : f # Target => memory'[f] = memory[f]
         /\ \A k \in Byte : /\ at + k \in 0 .. SegmentSize - 1
                            /\ memory'[Target][at + k] = Disc(disk)[sector][k]
         /\ \A k \in 0 .. SegmentSize - 1 :
              k < at \/ k >= at + BPB_BytsPerSec => memory'[Target][k] = memory[Target][k]
<1> DEFINE seg == SegmentSize
           data == ReadSector(Disc(disk), sector, 1)
           Place(k) == (k - at) % seg
<1>1. Target \in File
  BY DEF Target, File
<1>2. BPB_BytsPerSec \in Nat \ {0} /\ seg \in Nat \ {0} /\ at \in Nat /\ at + BPB_BytsPerSec <= seg
  BY Fat12Assumption, BootAssumption DEF Fits
<1>3. DOMAIN memory = File /\ DOMAIN memory[Target] = 0 .. seg - 1
  BY <1>1 DEF BootType
<1>4. memory' = [memory EXCEPT ![Target] =
        [k \in 0 .. seg - 1 |-> IF Place(k) \in Byte THEN data[Place(k)] ELSE memory[Target][k]]]
  BY <1>3 DEF ReadTo
<1>5. memory'[Target] = [k \in 0 .. seg - 1 |-> IF Place(k) \in Byte THEN data[Place(k)] ELSE memory[Target][k]]
  BY <1>1, <1>3, <1>4
<1>6. /\ DOMAIN memory' = File
      /\ \A f \in File : f # Target => memory'[f] = memory[f]
  BY <1>3, <1>4
<1>7. \A k \in 0 .. seg - 1 :
        /\ k >= at => Place(k) = k - at
        /\ k < at => Place(k) = k - at + seg
  <2> SUFFICES ASSUME NEW k \in 0 .. seg - 1
               PROVE  /\ k >= at => Place(k) = k - at
                      /\ k < at => Place(k) = k - at + seg
    OBVIOUS
  <2>1. PICK n : n = k - at
    OBVIOUS
  <2>2. n \in Int /\ seg * 0 = 0 /\ 0 \in Int /\ -1 \in Int
    BY <1>2, <2>1, Multiples
  <2>3. seg * (-1) = -seg
    BY <1>2
  <2> HIDE DEF seg
  <2>4. ASSUME k >= at  PROVE n % seg = n
    <3>1. n = seg * 0 + n /\ n \in 0 .. seg - 1
      BY <1>2, <2>1, <2>2, <2>4
    <3>2. PICK m : m = n
      OBVIOUS
    <3>3. m = seg * 0 + n
      BY <3>1, <3>2
    <3>4. m \div seg = 0 /\ m % seg = n
      BY <1>2, <2>2, <3>1, <3>3, DivModUnique, Zenon
    <3> QED
      BY <3>2, <3>4
  <2>5. ASSUME k < at  PROVE n % seg = n + seg
    <3>1. PICK r : r = n + seg
      OBVIOUS
    <3>2. n = seg * (-1) + r /\ r \in 0 .. seg - 1
      BY <1>2, <2>1, <2>2, <2>3, <2>5, <3>1
    <3>3. n \div seg = -1 /\ n % seg = r
      BY <1>2, <2>2, <3>2, DivModUnique, Zenon
    <3> QED
      BY <3>1, <3>3
  <2> QED
    BY <2>1, <2>4, <2>5 DEF seg
<1> HIDE DEF seg, Place
<1>8. ASSUME NEW k \in Byte
      PROVE  at + k \in 0 .. seg - 1 /\ memory'[Target][at + k] = Disc(disk)[sector][k]
  <2>1. k \in 0 .. BPB_BytsPerSec - 1
    BY DEF Byte
  <2>2. at + k \in 0 .. seg - 1 /\ at + k >= at /\ (at + k) - at = k
    BY <1>2, <2>1
  <2>3. Place(at + k) = k
    BY <1>7, <2>2
  <2>4. memory'[Target][at + k] = data[k]
    BY <1>5, <2>2, <2>3
  <2> QED
    BY <2>2, <2>4, ReadsOne
<1>9. ASSUME NEW k \in 0 .. seg - 1, k < at \/ k >= at + BPB_BytsPerSec
      PROVE  memory'[Target][k] = memory[Target][k]
  <2>1. k < at \/ k >= at
    BY <1>2
  <2>2. Place(k) \in Int /\ Place(k) >= BPB_BytsPerSec
    BY <1>2, <1>7, <1>9, <2>1
  <2>3. Place(k) \notin Byte
    BY <1>2, <2>2 DEF Byte
  <2> QED
    BY <1>5, <2>3
<1>10. \A f \in File : DOMAIN memory'[f] = 0 .. SegmentSize - 1
  BY <1>5, <1>6 DEF BootType, seg
<1> QED
  BY <1>6, <1>8, <1>9, <1>10 DEF seg

\* The sectors of a file fit into its segment.
LEMMA FileFits ==
  ASSUME NEW d \in Discs, NEW f \in File, NEW n \in DOMAIN d.chain[f]
  PROVE  LET at == OffsetOf[f] + (n - 1) * BPB_BytsPerSec
         IN  /\ Fits(at)
             /\ n # Len(d.chain[f]) => NextPlace(at) = OffsetOf[f] + n * BPB_BytsPerSec
             /\ n * BPB_BytsPerSec = (n - 1) * BPB_BytsPerSec + BPB_BytsPerSec
             /\ (n - 1) * BPB_BytsPerSec \in Nat
<1> DEFINE b == BPB_BytsPerSec
           len == Len(d.chain[f])
           at == OffsetOf[f] + (n - 1) * b
<1>1. d.chain[f] \in Seq(Cluster)
  BY Link
<1>2. /\ b \in Nat \ {0} /\ SegmentSize \in Nat /\ OffsetOf[f] \in Nat
      /\ OffsetOf[f] + len * b <= SegmentSize
  BY Fat12Assumption, BootAssumption
<1>3. len \in Int /\ n \in Int /\ n - 1 \in Int /\ 1 <= n /\ n <= len /\ 0 <= n - 1 /\ 0 \in Int
  BY <1>1
<1> HIDE DEF b, len
<1>4. /\ len * b = b * len /\ n * b = b * n /\ (n - 1) * b = b * (n - 1)
      /\ b * len \in Int /\ b * n \in Int
      /\ b * (n - 1) = b * n - b /\ b * (n - 1) \in Int
      /\ b * n <= b * len /\ b * 0 = 0 /\ b * 0 <= b * (n - 1)
  <2>1. /\ len * b = b * len /\ n * b = b * n /\ b * len \in Int /\ b * n \in Int
        /\ b * (n - 1) = b * n - b
        /\ b * n <= b * len /\ b * 0 = 0
    BY <1>2, <1>3, Multiples
  <2>2. /\ (n - 1) * b = b * (n - 1) /\ b * (n - 1) \in Int
        /\ b * 0 <= b * (n - 1)
    BY <1>2, <1>3, Multiples
  <2> QED
    BY <2>1, <2>2
<1>5. (n - 1) * b \in Nat /\ n * b = (n - 1) * b + b /\ at + b <= SegmentSize
  BY <1>2, <1>4
<1>6. Fits(at)
  BY <1>2, <1>5 DEF Fits, b
<1>7. ASSUME n # len  PROVE (at + b) % SegmentSize = at + b
  <2>1. n + 1 <= len /\ n + 1 \in Int
    BY <1>3, <1>7
  <2>2. b * (n + 1) <= b * len /\ b * (n + 1) = b * n + b
    BY <1>2, <1>3, <2>1, Multiples
  <2>3. at + b \in 0 .. SegmentSize - 1
    BY <1>2, <1>4, <1>5, <2>2
  <2> HIDE DEF at
  <2>4. PICK m : m = at + b
    OBVIOUS
  <2>5. m \in 0 .. SegmentSize - 1 /\ SegmentSize \in Nat \ {0} /\ 0 \in Int
    BY <1>2, <2>3, <2>4
  <2>6. SegmentSize * 0 = 0
    BY <2>5, Multiples
  <2>7. PICK r : r = m
    OBVIOUS
  <2>8. m = SegmentSize * 0 + r /\ r \in 0 .. SegmentSize - 1
    BY <2>5, <2>6, <2>7
  <2>9. m \div SegmentSize = 0 /\ m % SegmentSize = r
    BY <2>5, <2>8, DivModUnique, Zenon
  <2> QED
    BY <2>4, <2>7, <2>9
<1>8. n # len => NextPlace(at) = OffsetOf[f] + n * b
  BY <1>2, <1>5, <1>7 DEF NextPlace, b
<1> QED
  BY <1>5, <1>6, <1>8 DEF b, len

\* The sectors of the directory are read to where the file will be.
LEMMA DirectoryFits ==
  ASSUME NEW d \in Discs, NEW f \in File
  PROVE  /\ Fits(OffsetOf[f])
         /\ 1 \in DOMAIN d.chain[f] /\ Len(d.chain[f]) \in Nat \ {0}
         /\ OffsetOf[f] + (1 - 1) * BPB_BytsPerSec = OffsetOf[f]
<1>1. d.chain[f] \in Seq(Cluster) /\ d.chain[f] # <<>>
  BY FloppyAssumption
<1>2. 1 \in DOMAIN d.chain[f] /\ Len(d.chain[f]) \in Nat \ {0}
  BY <1>1
<1>3. OffsetOf[f] + (1 - 1) * BPB_BytsPerSec = OffsetOf[f]
  BY BootAssumption, Fat12Assumption
<1> QED
  BY <1>2, <1>3, FileFits

\* Bytes of a file by cluster.
LEMMA ClusterBytes ==
  ASSUME NEW m \in Nat, NEW k \in Byte, NEW f
  PROVE  FileByte(f, m * BPB_BytsPerSec + k) = <<"data", disk.chain[f][m + 1], k>>
<1> DEFINE b == BPB_BytsPerSec
           n == m * b + k
<1>1. b \in Nat \ {0} /\ k \in 0 .. b - 1 /\ m \in Int
  BY Fat12Assumption DEF Byte
<1>2. PICK x : x = n
  OBVIOUS
<1> HIDE DEF b
<1>3. x = b * m + k
  BY <1>1, <1>2, Multiples
<1>4. x \div b = m /\ x % b = k
  BY <1>1, <1>3, DivModUnique, Zenon
<1> QED
  BY <1>2, <1>4 DEF FileByte, b

-----------------------------------------------------------------------------
(* The search and the loading.                                             *)

\* The boot sector starts with nothing searched.
LEMMA BootInit == LoaderInit => BootInv
<1> SUFFICES ASSUME LoaderInit
             PROVE  BootInv
  OBVIOUS
<1> USE DEF LoaderInit, Init
<1>1. BootType
  BY BootAssumption DEF BootType
<1>2. SearchInv
  <2>1. SectorsRead = 0 /\ 0 * EntriesPerSector = 0
    BY BootAssumption DEF SectorsRead
  <2>2. SectorNoOfRootDirectory + 0 = SectorNoOfRootDirectory
    BY BootAssumption, Fat12Assumption
  <2>3. NotBefore(0)
    BY BootAssumption DEF NotBefore, DirEntry
  <2> QED
    BY <2>1, <2>2, <2>3 DEF SearchInv
<1>3. LoadInv
  BY DEF LoadInv
<1> QED
  BY <1>1, <1>2, <1>3 DEF BootInv

\* The other file stays as it is.
LEMMA LoaderStays ==
  ASSUME BootInv, program' = program, disk' = disk,
         \A f \in File : f # Target => memory'[f] = memory[f]
  PROVE  program' = "loader" => InMemory("LOADER")'
<1>1. program = "loader" => "LOADER" # Target /\ "LOADER" \in File
  BY DEF Target, File
<1>2. program = "loader" => InMemory("LOADER")
  BY DEF BootInv, LoadInv
<1> QED
  BY <1>1, <1>2 DEF InMemory, FileByte

\* The next sector of the directory is read, or the file is in none.
LEMMA SearchRootDirStep ==
  ASSUME BootInv, SearchRootDir
  PROVE  BootInv'
<1> USE DEF SearchRootDir, world, load, map
<1>1. /\ disk \in Discs /\ Target' = Target /\ Target \in File
      /\ SectorsRead \in Int /\ RootDirSectors \in Nat \ {0} /\ EntriesPerSector \in Nat \ {0}
      /\ pc = "next_sector"
      /\ wSectorNo = SectorNoOfRootDirectory + SectorsRead
      /\ NotBefore(SectorsRead * EntriesPerSector)
      /\ wRootDirSizeForLoop \in 0 .. RootDirSectors
  BY BootAssumption DEF BootInv, BootType, SearchInv, SectorsRead, Target, File
<1>2. CASE wRootDirSizeForLoop = 0
  <2>1. BootType'
    BY <1>2 DEF BootInv, BootType
  <2>2. SearchInv'
    <3>1. SectorsRead * EntriesPerSector = RootDirSectors * EntriesPerSector
      BY <1>1, <1>2 DEF SectorsRead
    <3>2. \A i \in DirEntry : i < SectorsRead * EntriesPerSector
      <4>1. RootDirSectors * EntriesPerSector \in Int
        BY <1>1, Multiples
      <4> QED
        BY <3>1, <4>1 DEF DirEntry
    <3>3. ~OnDisc(Target)
      BY <1>1, <3>2 DEF OnDisc, NotBefore
    <3> QED
      BY <1>1, <1>2, <3>3 DEF SearchInv, OnDisc
  <2>3. LoadInv'
    BY <1>2, LoaderStays DEF LoadInv
  <2> QED
    BY <2>1, <2>2, <2>3 DEF BootInv
<1>3. CASE wRootDirSizeForLoop # 0
  <2>1. /\ wRootDirSizeForLoop' = wRootDirSizeForLoop - 1 /\ pc' = "compare"
        /\ ReadTo(OffsetOf[Target], wSectorNo)
        /\ dx' = EntriesPerSector /\ di' = OffsetOf[Target]
        /\ disk' = disk /\ wSectorNo' = wSectorNo /\ program' = program
    BY <1>3 DEF EntriesLeft
  <2>2. /\ SectorsRead' = SectorsRead + 1 /\ SectorsRead \in 0 .. RootDirSectors - 1
    BY <1>1, <1>3, <2>1 DEF SectorsRead
  <2>3. Fits(OffsetOf[Target])
    BY <1>1, DirectoryFits
  <2>4. wSectorNo \in Sector
    <3>1. 0 \in 0 .. EntriesPerSector - 1
      BY <1>1
    <3> QED
      BY <1>1, <2>2, <3>1, DirectoryOnDisc
  <2>5. /\ DOMAIN memory' = File
        /\ \A f \in File : DOMAIN memory'[f] = 0 .. SegmentSize - 1
        /\ \A f \in File : f # Target => memory'[f] = memory[f]
        /\ \A k \in Byte : memory'[Target][OffsetOf[Target] + k] = Disc(disk)[wSectorNo][k]
    BY <2>1, <2>3, <2>4, ReadToSegment DEF BootInv
  <2>6. BootType'
    BY <1>1, <1>3, <2>1, <2>5 DEF BootInv, BootType
  <2>7. SearchInv'
    <3>1. /\ EntriesPerSector - dx' = 0
          /\ SectorsRead' - 1 = SectorsRead
          /\ SectorNoOfRootDirectory + SectorsRead' - 1 = SectorNoOfRootDirectory + SectorsRead
      BY <1>1, <2>1, <2>2, BootAssumption, Fat12Assumption
    <3>2. /\ OffsetOf[Target] + 0 * EntrySize = OffsetOf[Target]
          /\ SectorsRead * EntriesPerSector + 0 = SectorsRead * EntriesPerSector
      <4>1. SectorsRead * EntriesPerSector \in Int
        BY <1>1, Multiples
      <4> QED
        BY <1>1, <4>1, BootAssumption, EntriesFill
    <3>3. \A i \in DirEntry : i < SectorsRead * EntriesPerSector => disk'.root[i] # Target'
      BY <1>1, <2>1 DEF NotBefore
    <3> QED
      BY <1>1, <2>1, <2>2, <2>5, <3>1, <3>2, <3>3 DEF SearchInv, NotBefore
  <2>8. LoadInv'
    BY <2>1, <2>5, LoaderStays DEF LoadInv
  <2> QED
    BY <2>6, <2>7, <2>8 DEF BootInv
<1> QED
  BY <1>2, <1>3

\* An entry that is not the file's is passed; the file's gives the first cluster.
LEMMA SearchSectorStep ==
  ASSUME BootInv, SearchSector
  PROVE  BootInv'
<1> DEFINE s == SectorsRead - 1
           at == EntriesPerSector - dx
           e == s * EntriesPerSector + at
<1> USE DEF SearchSector, world, load, map
<1>1. /\ disk \in Discs /\ disk' = disk /\ Target' = Target /\ Target \in File
      /\ RootDirSectors \in Nat \ {0} /\ EntriesPerSector \in Nat \ {0}
      /\ pc = "compare" /\ SectorsRead' = SectorsRead
      /\ SectorsRead >= 1 /\ s \in 0 .. RootDirSectors - 1
      /\ wSectorNo = SectorNoOfRootDirectory + SectorsRead - 1
      /\ di = OffsetOf[Target] + at * EntrySize
      /\ \A k \in Byte : memory[Target][OffsetOf[Target] + k] = Disc(disk)[wSectorNo][k]
      /\ NotBefore(e)
      /\ dx \in 0 .. EntriesPerSector /\ SectorsRead \in Int
      /\ program' = program /\ memory' = memory
  <2>1. /\ disk' = disk /\ program' = program /\ memory' = memory
        /\ wRootDirSizeForLoop' = wRootDirSizeForLoop /\ pc = "compare"
    OBVIOUS
  <2>2. /\ disk \in Discs /\ wRootDirSizeForLoop \in 0 .. RootDirSectors
        /\ dx \in 0 .. EntriesPerSector
        /\ RootDirSectors \in Nat \ {0} /\ EntriesPerSector \in Nat \ {0}
    BY BootAssumption DEF BootInv, BootType
  <2>3. Target' = Target /\ Target \in File /\ SectorsRead' = SectorsRead
    BY <2>1 DEF Target, File, SectorsRead
  <2>4. /\ SectorsRead >= 1
        /\ wSectorNo = SectorNoOfRootDirectory + SectorsRead - 1
        /\ di = OffsetOf[Target] + at * EntrySize
        /\ \A k \in Byte : memory[Target][OffsetOf[Target] + k] = Disc(disk)[wSectorNo][k]
        /\ NotBefore(e)
    BY <2>1 DEF BootInv, SearchInv
  <2>5. SectorsRead \in Int /\ s \in 0 .. RootDirSectors - 1
    BY <2>2, <2>4 DEF SectorsRead
  <2> QED
    BY <2>1, <2>2, <2>3, <2>4, <2>5
<1>2. s * EntriesPerSector \in Int /\ at \in Int /\ e \in Int
  BY <1>1, Multiples
<1>3. SectorNoOfRootDirectory \in Int /\ wSectorNo = SectorNoOfRootDirectory + s /\ SectorsRead \in Int
  <2>1. SectorNoOfRootDirectory \in Int
    BY BootAssumption, Fat12Assumption
  <2> QED
    BY <1>1, <2>1
<1>4. program' = "loader" => InMemory("LOADER")'
  BY <1>1, LoaderStays
<1> HIDE DEF s, at, e
<1>5. CASE dx = 0
  <2>1. /\ pc' = "next_sector" /\ wSectorNo' = wSectorNo + 1 /\ dx' = dx
        /\ wRootDirSizeForLoop' = wRootDirSizeForLoop /\ bios_map' = bios_map
    BY <1>1, <1>5
  <2>2. BootType'
    BY <1>1, <2>1 DEF BootInv, BootType
  <2>3. e = SectorsRead * EntriesPerSector
    BY <1>1, <1>2, <1>3, <1>5, Multiples DEF e, s, at
  <2>4. wSectorNo' = SectorNoOfRootDirectory + SectorsRead'
    BY <1>1, <1>3, <2>1 DEF s
  <2>5. \A i \in DirEntry : i < SectorsRead' * EntriesPerSector => disk'.root[i] # Target'
    BY <1>1, <2>3 DEF NotBefore
  <2>6. SearchInv'
    BY <2>1, <2>4, <2>5 DEF SearchInv, NotBefore
  <2>7. LoadInv'
    BY <1>4, <2>1 DEF LoadInv
  <2> QED
    BY <2>2, <2>6, <2>7 DEF BootInv
<1>6. CASE dx # 0
  <2>1. /\ dx' = dx - 1 /\ wSectorNo' = wSectorNo
        /\ wRootDirSizeForLoop' = wRootDirSizeForLoop /\ bios_map' = bios_map
    BY <1>6
  <2>2. at \in 0 .. EntriesPerSector - 1 /\ EntriesPerSector - dx' = at + 1
    BY <1>1, <1>6, <2>1 DEF at
  <2>3. e \in DirEntry /\ at * EntrySize \in Byte /\ at * EntrySize + 1 \in Byte /\ at * EntrySize \in Nat
    <3>1. e \in DirEntry
      BY <1>1, <2>2, DirectoryOnDisc DEF e
    <3> QED
      BY <2>2, <3>1, EntryPlace
  <2>4. memory[Target][di] = <<disk.root[e], 0, 0>>
    <3>1. memory[Target][di] = Disc(disk)[SectorNoOfRootDirectory + s][at * EntrySize]
      BY <1>1, <1>3, <2>3
    <3> QED
      BY <1>1, <2>2, <3>1, DirectoryOnDisc DEF e
  <2>5. memory[Target][di][1] = disk.root[e]
    BY <2>4
  <2>6. CASE disk.root[e] = Target
    <3>1. /\ pc' = "load" /\ cluster' = memory[Target][di + 1][2]
          /\ bx' = OffsetOf[Target]
      BY <1>1, <1>6, <2>5, <2>6
    <3>2. memory[Target][di + 1] = Disc(disk)[SectorNoOfRootDirectory + s][at * EntrySize + 1]
      <4>1. di + 1 = OffsetOf[Target] + (at * EntrySize + 1)
        BY <1>1, <2>3, BootAssumption
      <4> QED
        BY <1>1, <1>3, <2>3, <4>1
    <3>3. memory[Target][di + 1] = <<"first", disk.chain[Target][1], 0>>
      BY <1>1, <2>2, <2>6, <3>2, DirectoryOnDisc DEF e
    <3>4. cluster' = disk.chain[Target][1]
      BY <3>1, <3>3
    <3>5. /\ 1 \in DOMAIN disk.chain[Target]
          /\ OffsetOf[Target] + (1 - 1) * BPB_BytsPerSec = OffsetOf[Target]
      BY <1>1, DirectoryFits
    <3>6. 0 .. (1 - 1) * BPB_BytsPerSec - 1 = {}
      BY Fat12Assumption
    <3>7. LoadInv'
      <4>1. OnDisc(Target)'
        BY <1>1, <2>3, <2>6 DEF OnDisc
      <4>2. /\ cluster' = disk'.chain[Target'][1]
            /\ bx' = OffsetOf[Target'] + (1 - 1) * BPB_BytsPerSec
            /\ 1 \in DOMAIN disk'.chain[Target']
        BY <1>1, <3>1, <3>4, <3>5
      <4>3. \A m \in 0 .. (1 - 1) * BPB_BytsPerSec - 1 :
              memory'[Target'][OffsetOf[Target'] + m] = FileByte(Target, m)'
        BY <3>6
      <4> QED
        BY <1>4, <3>1, <4>1, <4>2, <4>3 DEF LoadInv, Loaded
    <3>8. SearchInv'
      BY <3>1 DEF SearchInv
    <3>9. BootType'
      BY <1>1, <1>6, <2>1, <3>1 DEF BootInv, BootType
    <3> QED
      BY <3>7, <3>8, <3>9 DEF BootInv
  <2>7. CASE disk.root[e] # Target
    <3>1. pc' = "compare" /\ di' = di + EntrySize
      BY <1>1, <1>6, <2>5, <2>7
    <3>2. di' = OffsetOf[Target] + (at + 1) * EntrySize
      <4>1. (at + 1) * EntrySize = at * EntrySize + EntrySize
        <5>1. at + 1 \in Int /\ EntrySize \in Nat \ {0}
          BY <1>2, EntriesFill
        <5>2. (at + 1) * EntrySize = EntrySize * (at + 1) /\ at * EntrySize = EntrySize * at
          BY <1>2, <5>1, Multiples
        <5>3. EntrySize * (at + 1) = EntrySize * at + EntrySize
          BY <1>2, <5>1, Multiples
        <5> QED
          BY <5>2, <5>3
      <4> QED
        BY <1>1, <2>3, <3>1, <4>1, BootAssumption, EntriesFill
    <3>3. \A i \in DirEntry : i < s * EntriesPerSector + (at + 1) => disk.root[i] # Target
      <4>1. s * EntriesPerSector + (at + 1) = e + 1
        BY <1>2 DEF e
      <4>2. \A i \in DirEntry : i < e + 1 => i < e \/ i = e
        BY <1>2 DEF DirEntry
      <4> QED
        BY <1>1, <2>7, <4>1, <4>2 DEF NotBefore
    <3>4. SearchInv'
      BY <1>1, <2>1, <2>2, <3>1, <3>2, <3>3 DEF SearchInv, NotBefore, s
    <3>5. LoadInv'
      BY <1>4, <3>1 DEF LoadInv
    <3>6. BootType'
      BY <1>1, <1>6, <2>1, <3>1 DEF BootInv, BootType
    <3> QED
      BY <3>4, <3>5, <3>6 DEF BootInv
  <2> QED
    BY <2>6, <2>7
<1> QED
  BY <1>5, <1>6

\* One more cluster is loaded, and the next one is that of the chain.
LEMMA LoadClusterStep ==
  ASSUME BootInv, LoadCluster
  PROVE  BootInv'
<1> USE DEF LoadCluster, world, load, map, search
<1> DEFINE chain == disk.chain[Target]
           b == BPB_BytsPerSec
           off == OffsetOf[Target]
<1>1. /\ disk \in Discs /\ disk' = disk /\ Target' = Target /\ Target \in File
      /\ pc = "load" /\ program' = program /\ OnDisc(Target)
  BY DEF BootInv, BootType, LoadInv, Target, File
<1>2. PICK n \in DOMAIN chain :
        /\ cluster = chain[n]
        /\ bx = off + (n - 1) * b
        /\ Loaded(Target, (n - 1) * b)
  BY <1>1 DEF BootInv, LoadInv
<1>3. chain \in Seq(Cluster) /\ n \in 1 .. Len(chain) /\ Len(chain) \in Nat /\ cluster \in Cluster
  <2>1. chain \in Seq(Cluster) /\ cluster \in Cluster
    BY <1>1, <1>2, Link
  <2> QED
    BY <1>2, <2>1
<1>4. Fits(bx)
  BY <1>1, <1>2, FileFits
<1>5. /\ n * b = (n - 1) * b + b /\ (n - 1) * b \in Nat /\ b \in Nat \ {0}
      /\ n # Len(chain) => NextPlace(bx) = off + n * b
      /\ off \in Nat
  BY <1>1, <1>2, FileFits, Fat12Assumption, BootAssumption
<1>6. cluster + RootDirSectors + DeltaSectorNo \in Sector
  <2>1. 0 \in Byte
    BY Fat12Assumption DEF Byte
  <2> QED
    BY <1>1, <1>3, <2>1, ClusterOnDisc
<1>7. /\ DOMAIN memory' = File
      /\ \A f \in File : DOMAIN memory'[f] = 0 .. SegmentSize - 1
      /\ \A f \in File : f # Target => memory'[f] = memory[f]
      /\ \A k \in Byte : memory'[Target][bx + k] = <<"data", cluster, k>>
      /\ \A k \in 0 .. SegmentSize - 1 : k < bx => memory'[Target][k] = memory[Target][k]
  <2>1. /\ DOMAIN memory' = File
        /\ \A f \in File : DOMAIN memory'[f] = 0 .. SegmentSize - 1
        /\ \A f \in File : f # Target => memory'[f] = memory[f]
        /\ \A k \in Byte : memory'[Target][bx + k]
                             = Disc(disk)[cluster + RootDirSectors + DeltaSectorNo][k]
        /\ \A k \in 0 .. SegmentSize - 1 : k < bx => memory'[Target][k] = memory[Target][k]
    BY <1>4, <1>6, ReadToSegment DEF BootInv
  <2> QED
    BY <1>1, <1>3, <2>1, ClusterOnDisc
<1>8. \A i \in 0 .. n * b - 1 :
        memory'[Target'][OffsetOf[Target'] + i] = FileByte(Target, i)'
  <2> SUFFICES ASSUME NEW i \in 0 .. n * b - 1
               PROVE  memory'[Target][off + i] = FileByte(Target, i)'
    BY <1>1
  <2> DEFINE low == (n - 1) * b
             high == n * b
  <2>1. FileByte(Target, i)' = FileByte(Target, i)
    BY <1>1 DEF FileByte
  <2>2. high = low + b /\ low \in Nat /\ b \in Nat \ {0} /\ off \in Nat /\ bx = off + low
    BY <1>2, <1>5
  <2>3. i \in 0 .. high - 1 /\ SegmentSize \in Nat
    BY BootAssumption
  <2>4. bx + b <= SegmentSize
    BY <1>4 DEF Fits
  <2> HIDE DEF low, high, off, b
  <2>5. off + i \in 0 .. SegmentSize - 1
    BY <2>2, <2>3, <2>4
  <2>6. CASE i < low
    <3>1. i \in 0 .. low - 1 /\ off + i < bx
      BY <2>2, <2>3, <2>6
    <3>2. memory[Target][off + i] = FileByte(Target, i)
      BY <1>2, <3>1 DEF Loaded, low, b, off
    <3> QED
      BY <1>7, <2>1, <2>5, <3>1, <3>2 DEF off
  <2>7. CASE i >= low
    <3>1. PICK k : k = i - low
      OBVIOUS
    <3>2. k \in Byte /\ i = low + k /\ off + i = bx + k
      BY <2>2, <2>3, <2>7, <3>1 DEF Byte, b
    <3>3. n - 1 \in Nat /\ (n - 1) + 1 = n
      BY <1>3
    <3>4. FileByte(Target, i) = <<"data", cluster, k>>
      BY <1>2, <3>2, <3>3, ClusterBytes DEF low, b
    <3> QED
      BY <1>7, <2>1, <3>2, <3>4 DEF off
  <2> QED
    BY <2>2, <2>3, <2>6, <2>7
<1>9. GetFATEntry(Disc(disk), cluster) = IF n = Len(chain) THEN EndOfChain ELSE chain[n + 1]
  <2>1. cluster \in 2 .. Entries - 1
    BY <1>3 DEF Cluster
  <2>2. GetFATEntry(Disc(disk), cluster) = Entry(disk)[cluster]
    BY <1>1, <2>1, FatEntryRead
  <2> QED
    BY <1>1, <1>2, <2>2, Link
<1>10. program' = "loader" => InMemory("LOADER")'
  BY <1>1, <1>7, LoaderStays
<1>11. CASE n = Len(chain)
  <2>1. pc' = "loaded"
    BY <1>9, <1>11 DEF LastCluster
  <2>2. InMemory(Target)'
    BY <1>1, <1>8, <1>11 DEF InMemory
  <2>3. OnDisc(Target)'
    BY <1>1 DEF OnDisc
  <2>4. LoadInv'
    BY <1>10, <2>1, <2>2, <2>3 DEF LoadInv
  <2>5. SearchInv'
    BY <2>1 DEF SearchInv
  <2>6. BootType'
    BY <1>7, <2>1 DEF BootInv, BootType
  <2> QED
    BY <2>4, <2>5, <2>6 DEF BootInv
<1>12. CASE n # Len(chain)
  <2>1. n + 1 \in DOMAIN chain /\ chain[n + 1] \in Cluster /\ (n + 1) - 1 = n
    BY <1>3, <1>12
  <2>2. chain[n + 1] # EndOfChain
    BY <2>1, EntriesFit DEF Cluster
  <2>3. pc' = "load" /\ cluster' = chain[n + 1] /\ bx' = off + n * b
    BY <1>1, <1>5, <1>9, <1>12, <2>2 DEF LastCluster
  <2>4. LoadInv'
    <3>1. OnDisc(Target)'
      BY <1>1 DEF OnDisc
    <3>2. /\ cluster' = disk'.chain[Target'][n + 1]
          /\ bx' = OffsetOf[Target'] + ((n + 1) - 1) * BPB_BytsPerSec
          /\ n + 1 \in DOMAIN disk'.chain[Target']
          /\ \A i \in 0 .. ((n + 1) - 1) * BPB_BytsPerSec - 1 :
               memory'[Target'][OffsetOf[Target'] + i] = FileByte(Target, i)'
      BY <1>1, <1>8, <2>1, <2>3
    <3> QED
      BY <1>10, <2>3, <3>1, <3>2 DEF LoadInv, Loaded
  <2>5. SearchInv'
    BY <2>3 DEF SearchInv
  <2>6. BootType'
    BY <1>7, <2>3 DEF BootInv, BootType
  <2> QED
    BY <2>4, <2>5, <2>6 DEF BootInv
<1> QED
  BY <1>11, <1>12

\* The loader is started only when it is loaded.
LEMMA JumpToLoaderStep ==
  ASSUME BootInv, JumpToLoader
  PROVE  BootInv'
<1> USE DEF JumpToLoader, world, load, map
<1>1. BootType'
  BY BootAssumption DEF BootInv, BootType
<1>2. SearchInv'
  BY DEF SearchInv
<1>3. InMemory("LOADER")'
  BY DEF BootInv, LoadInv, InMemory, FileByte, Target
<1>4. LoadInv'
  BY <1>3 DEF LoadInv
<1> QED
  BY <1>1, <1>2, <1>4 DEF BootInv

\* The loader starts its own search with its own variables.
LEMMA MemChkStep ==
  ASSUME BootInv, MemChk
  PROVE  BootInv'
<1> USE DEF MemChk, world, load, search
<1>1. /\ pc' \in {"mem_chk", "next_sector"} /\ pc = "mem_chk" /\ memory' = memory /\ disk' = disk
      /\ program' = program /\ program = "loader"
      /\ wSectorNo' = SectorNoOfRootDirectory /\ wRootDirSizeForLoop' = RootDirSectors
      /\ bios_map' = bios_map /\ dx' = dx
  BY DEF BootInv, SearchInv
<1>2. BootType'
  BY <1>1, BootAssumption DEF BootInv, BootType
<1>3. SearchInv'
  <2>1. SectorsRead' = 0 /\ 0 * EntriesPerSector = 0
    BY <1>1, BootAssumption DEF SectorsRead
  <2>2. SectorNoOfRootDirectory + 0 = SectorNoOfRootDirectory
    BY BootAssumption, Fat12Assumption
  <2>3. \A i \in DirEntry : i < 0 => disk'.root[i] # Target'
    BY BootAssumption DEF DirEntry
  <2> QED
    BY <1>1, <2>1, <2>2, <2>3 DEF SearchInv, NotBefore
<1>4. LoadInv'
  BY <1>1 DEF BootInv, LoadInv, InMemory, FileByte
<1> QED
  BY <1>2, <1>3, <1>4 DEF BootInv

\* The protected mode part leaves the real mode variables alone.
LEMMA BootUnchanged ==
  ASSUME BootInv, UNCHANGED bootvars
  PROVE  BootInv'
<1> USE DEF bootvars, world, search, load, map
<1>1. BootType'
  BY DEF BootInv, BootType
<1>2. SearchInv'
  BY DEF BootInv, SearchInv, SectorsRead, NotBefore, Target, OnDisc
<1>3. LoadInv'
  BY DEF BootInv, LoadInv, Loaded, InMemory, FileByte, Target, OnDisc
<1> QED
  BY <1>1, <1>2, <1>3 DEF BootInv

\* Every step of the machine preserves BootInv.
LEMMA BootStep ==
  ASSUME BootInv, Step \/ UNCHANGED vars
  PROVE  BootInv'
<1>1. CASE RealMode
  BY <1>1, SearchRootDirStep, SearchSectorStep, LoadClusterStep, JumpToLoaderStep, MemChkStep
     DEF RealMode, BootSector, LoaderRealMode, LoadFile
<1>2. CASE ToProtectedMode \/ DispNoMap \/ DispMemInfo \/ SetupPaging \/ InitKernel \/ UNCHANGED vars
  BY <1>2, BootUnchanged DEF ToProtectedMode, DispNoMap, DispMemInfo, SetupPaging, InitKernel, vars
<1> QED
  BY <1>1, <1>2 DEF Step

-----------------------------------------------------------------------------
(* The memory map.                                                         *)

\* The ranges that the BIOS reports, and their number.
LEMMA MapType ==
  ASSUME BootInv
  PROVE  /\ bios_map \in Seq(RangeRecord) /\ Len(bios_map) \in Nat \ {0}
         /\ DOMAIN bios_map = 1 .. Len(bios_map)
         /\ \A n \in DOMAIN bios_map :
              /\ bios_map[n].base \in Nat /\ bios_map[n].length \in Nat
              /\ bios_map[n].base + bios_map[n].length < DWORD
<1>1. bios_map \in MemoryMaps
  BY DEF BootInv, BootType
<1>2. bios_map \in Seq(RangeRecord) /\ bios_map # <<>>
  BY <1>1, LoaderAssumption DEF RangeRecord
<1>3. \A n \in DOMAIN bios_map : bios_map[n] \in RangeRecord
  BY <1>2
<1>4. Len(bios_map) \in Nat \ {0} /\ DOMAIN bios_map = 1 .. Len(bios_map)
  BY <1>2
<1> QED
  BY <1>1, <1>2, <1>3, <1>4, LoaderAssumption DEF RangeRecord

\* No range has been asked for at first.
LEMMA MapInit == LoaderInit => MapInv
<1> SUFFICES ASSUME LoaderInit
             PROVE  MapInv
  OBVIOUS
<1>1. BootInv
  BY BootInit
<1>2. Len(bios_map) \in Nat
  BY <1>1, MapType
<1>3. MemChkBuf = <<>> /\ Len(<<>>) = 0 /\ DOMAIN <<>> = {} /\ <<>> \in Seq(RangeRecord)
  BY DEF LoaderInit, Init
<1> QED
  BY <1>2, <1>3 DEF LoaderInit, Init, MapInv

\* MemChk appends the next range; nothing else changes the memory map.
LEMMA MapStep ==
  ASSUME BootInv, MapInv, Step \/ UNCHANGED vars
  PROVE  MapInv'
<1> USE DEF world
<1>0. /\ Len(bios_map) \in Nat \ {0} /\ MemChkBuf \in Seq(RangeRecord)
      /\ bios_map \in Seq(RangeRecord)
  BY MapType DEF MapInv
<1>1. ASSUME UNCHANGED <<bios_map, MemChkBuf, dwMCRNumber, program>>,
             pc' # "mem_chk", pc # "mem_chk"
      PROVE  MapInv'
  BY <1>1 DEF MapInv
<1>2. CASE RealMode /\ LoadFile
  BY <1>1, <1>2 DEF LoadFile, SearchRootDir, SearchSector, LoadCluster, map
<1>3. CASE RealMode /\ JumpToLoader
  <2>1. /\ UNCHANGED <<bios_map, MemChkBuf, dwMCRNumber>> /\ program = "boot" /\ program' = "loader"
        /\ pc' = "mem_chk"
    BY <1>3 DEF JumpToLoader, map
  <2>2. MemChkBuf = <<>> /\ dwMCRNumber = 0
    BY <2>1 DEF MapInv
  <2>3. Len(MemChkBuf) = 0
    BY <2>2
  <2> QED
    BY <1>0, <2>1, <2>2, <2>3 DEF MapInv
<1>4. CASE RealMode /\ program = "loader" /\ MemChk
  <2>1. pc = "mem_chk" /\ bios_map' = bios_map /\ program' = "loader"
    BY <1>4 DEF MemChk
  <2>2. dwMCRNumber = Len(MemChkBuf) /\ Len(MemChkBuf) < Len(bios_map)
    BY <2>1 DEF MapInv
  <2>3. CASE /\ MemChkBuf' = Append(MemChkBuf, bios_map[Len(MemChkBuf) + 1])
             /\ dwMCRNumber' = dwMCRNumber + 1
             /\ pc' = IF dwMCRNumber' = Len(bios_map) THEN "next_sector" ELSE pc
    <3>1. Len(MemChkBuf) + 1 \in DOMAIN bios_map
      BY <1>0, <2>2
    <3>2. bios_map[Len(MemChkBuf) + 1] \in RangeRecord
      BY <1>0, <3>1
    <3>3. /\ MemChkBuf' \in Seq(RangeRecord) /\ Len(MemChkBuf') = Len(MemChkBuf) + 1
          /\ \A n \in DOMAIN MemChkBuf' : MemChkBuf'[n] =
               IF n = Len(MemChkBuf) + 1 THEN bios_map[Len(MemChkBuf) + 1] ELSE MemChkBuf[n]
      BY <1>0, <2>3, <3>2
    <3>4. \A n \in DOMAIN MemChkBuf' : n # Len(MemChkBuf) + 1 => n \in DOMAIN MemChkBuf
      BY <1>0, <3>3
    <3>5. \A n \in DOMAIN MemChkBuf' : MemChkBuf'[n] = bios_map'[n]
      BY <2>1, <3>3, <3>4 DEF MapInv
    <3>6. Len(MemChkBuf) \in Nat /\ Len(MemChkBuf') <= Len(bios_map)
      BY <1>0, <2>2, <3>3
    <3>7. pc' = "mem_chk" => Len(MemChkBuf') < Len(bios_map)
      BY <1>0, <2>2, <2>3, <3>3, <3>6
    <3>8. pc' # "mem_chk" => dwMCRNumber' = Len(bios_map)
      BY <2>1, <2>3
    <3>9. dwMCRNumber' = Len(MemChkBuf')
      BY <2>2, <2>3, <3>3
    <3> QED
      BY <2>1, <3>3, <3>5, <3>6, <3>7, <3>8, <3>9 DEF MapInv
  <2>4. CASE dwMCRNumber' = 0 /\ pc' = "next_sector" /\ UNCHANGED MemChkBuf
    BY <2>1, <2>4 DEF MapInv
  <2> QED
    BY <1>4, <2>3, <2>4 DEF MemChk
<1>5. CASE UNCHANGED bootvars
  BY <1>5 DEF bootvars, map, MapInv
<1> QED
  BY <1>2, <1>3, <1>4, <1>5
     DEF Step, RealMode, BootSector, LoaderRealMode, ToProtectedMode, DispNoMap, DispMemInfo,
         SetupPaging, InitKernel, vars

\* The end of a range that was reported is not cut by the register.
LEMMA EndType ==
  ASSUME BootInv, MapInv, NEW n \in Nat \ {0}
  PROVE  /\ End(n) \in 0 .. DWORD - 1
         /\ n \in DOMAIN MemChkBuf /\ bios_map[n].type = 1 =>
              End(n) = bios_map[n].base + bios_map[n].length
<1>1. DWORD \in Nat \ {0}
  BY LoaderAssumption
<1>2. DOMAIN MemChkBuf = 1 .. Len(MemChkBuf) /\ Len(MemChkBuf) \in Nat
  BY DEF MapInv
<1>3. ASSUME n \in DOMAIN MemChkBuf
      PROVE  /\ MemChkBuf[n] = bios_map[n] /\ n <= Len(MemChkBuf)
             /\ bios_map[n].base + bios_map[n].length \in 0 .. DWORD - 1
  <2>1. n \in DOMAIN bios_map
    BY <1>2, <1>3, MapType DEF MapInv
  <2> QED
    BY <1>1, <1>2, <1>3, <2>1, MapType DEF MapInv
<1>4. CASE n \in DOMAIN MemChkBuf /\ MemChkBuf[n].type = 1
  <2>1. PICK m : m = bios_map[n].base + bios_map[n].length
    OBVIOUS
  <2>2. m \in 0 .. DWORD - 1 /\ End(n) = m % DWORD
    BY <1>3, <1>4, <2>1 DEF End
  <2>3. m % DWORD = m
    <3>1. DWORD * 0 = 0 /\ 0 \in Int
      BY <1>1, Multiples
    <3>2. PICK r : r = m
      OBVIOUS
    <3>3. m = DWORD * 0 + r /\ r \in 0 .. DWORD - 1
      BY <2>2, <3>1, <3>2
    <3>4. m \div DWORD = 0 /\ m % DWORD = r
      BY <1>1, <3>1, <3>3, DivModUnique, Zenon
    <3> QED
      BY <3>2, <3>4
  <2> QED
    BY <2>1, <2>2, <2>3
<1>5. CASE ~(n \in DOMAIN MemChkBuf /\ MemChkBuf[n].type = 1)
  <2>1. End(n) = 0
    BY <1>2, <1>5 DEF End
  <2> QED
    BY <1>1, <1>3, <1>5, <2>1
<1> QED
  BY <1>4, <1>5

-----------------------------------------------------------------------------
(* The size of memory.                                                     *)

\* The size of memory is zero at first.
LEMMA SizeInit == LoaderInit => SizeInv
BY LoaderAssumption DEF LoaderInit, SizeInv

\* DispMemInfo keeps the greatest of the ends.
LEMMA SizeStep ==
  ASSUME BootInv, MapInv, SizeInv, Step \/ UNCHANGED vars
  PROVE  SizeInv'
<1>0. DWORD \in Nat \ {0} /\ dwMemSize \in 0 .. DWORD - 1 /\ ranges \in Nat
  BY LoaderAssumption DEF SizeInv
<1>1. CASE RealMode
  BY <1>1 DEF RealMode, protected, SizeInv
<1>2. CASE ToProtectedMode
  BY <1>0, <1>2 DEF ToProtectedMode, bootvars, SizeInv
<1>3. CASE DispNoMap
  BY <1>3 DEF DispNoMap, bootvars, SizeInv
<1>4. CASE DispMemInfo
  <2> DEFINE r == ranges + 1
  <2>1. /\ stage = "DispMemInfo" /\ dwMCRNumber > 0 /\ ranges' = r
        /\ dwMemSize' = IF End(r) >= dwMemSize THEN End(r) ELSE dwMemSize
        /\ stage' = IF r = dwMCRNumber THEN "SetupPaging" ELSE stage
        /\ bios_map' = bios_map /\ MemChkBuf' = MemChkBuf /\ dwMCRNumber' = dwMCRNumber
        /\ program' = program /\ pc' = pc
    BY <1>4 DEF DispMemInfo, bootvars, world, map
  <2>2. \A n : End(n)' = End(n)
    BY <2>1 DEF End
  <2>3. /\ program = "loader" /\ pc = "loaded"
        /\ ranges = 0 \/ ranges < dwMCRNumber
        /\ \A n \in 1 .. ranges : End(n) <= dwMemSize
    BY <2>1 DEF SizeInv
  <2>4. dwMCRNumber = Len(bios_map) /\ dwMCRNumber = Len(MemChkBuf) /\ dwMCRNumber \in Nat
    <3>1. dwMCRNumber # 0
      BY <2>1
    <3> QED
      BY <2>3, <3>1, MapType DEF MapInv
  <2>5. r \in Nat \ {0} /\ End(r) \in 0 .. DWORD - 1
    BY <1>0, EndType
  <2>6. /\ dwMemSize' \in 0 .. DWORD - 1 /\ dwMemSize' >= dwMemSize /\ dwMemSize' >= End(r)
    BY <1>0, <2>1, <2>2, <2>5
  <2>7. \A n \in 1 .. r : End(n)' <= dwMemSize'
    <3> SUFFICES ASSUME NEW n \in 1 .. r
                 PROVE  End(n) <= dwMemSize'
      BY <2>2
    <3>1. CASE n = r
      BY <2>5, <2>6, <3>1
    <3>2. CASE n \in 1 .. ranges
      <4>1. End(n) <= dwMemSize /\ n \in Nat \ {0}
        BY <2>3, <3>2
      <4>2. End(n) \in 0 .. DWORD - 1
        BY <4>1, EndType
      <4> QED
        BY <1>0, <2>6, <4>1, <4>2
    <3> QED
      BY <1>0, <3>1, <3>2
  <2>8. CASE r = dwMCRNumber
    <3>1. DOMAIN bios_map' = 1 .. r
      BY <2>1, <2>4, <2>8, MapType
    <3> QED
      BY <2>1, <2>3, <2>4, <2>5, <2>6, <2>7, <2>8, <3>1 DEF SizeInv
  <2>9. CASE r # dwMCRNumber
    <3>1. r < dwMCRNumber
      BY <1>0, <2>1, <2>3, <2>4, <2>9
    <3> QED
      BY <2>1, <2>3, <2>5, <2>6, <2>7, <2>9, <3>1 DEF SizeInv
  <2> QED
    BY <2>8, <2>9
<1>5. CASE SetupPaging \/ InitKernel \/ UNCHANGED vars
  BY <1>5 DEF SetupPaging, InitKernel, vars, protected, bootvars, world, map, SizeInv, End
<1> QED
  BY <1>1, <1>2, <1>3, <1>4, <1>5 DEF Step

-----------------------------------------------------------------------------
(* Paging.                                                                 *)

\* There are no page tables at first.
LEMMA PagingInit == LoaderInit => PagingInv
BY DEF LoaderInit, PagingInv

\* SetupPaging makes the page tables from the size of memory.
LEMMA PagingStep ==
  ASSUME SizeInv, PagingInv, Step \/ UNCHANGED vars
  PROVE  PagingInv'
<1>1. CASE SetupPaging
  BY <1>1 DEF SetupPaging, PagingInv, PageTables
<1>2. CASE InitKernel \/ UNCHANGED vars
  BY <1>2 DEF InitKernel, vars, protected, paging, PagingInv, PageTables
<1>3. CASE RealMode \/ ToProtectedMode \/ DispNoMap \/ DispMemInfo
  <2>1. stage' \notin {"InitKernel", "kernel"}
    BY <1>3 DEF RealMode, ToProtectedMode, DispNoMap, DispMemInfo, protected
  <2> QED
    BY <2>1 DEF PagingInv
<1> QED
  BY <1>1, <1>2, <1>3 DEF Step

\* The page tables hold all pages of memory, and no more than there are.
LEMMA TablesHoldMemory ==
  ASSUME dwMemSize \in 0 .. DWORD - 1
  PROVE  /\ PageTables \in Nat /\ PageTables * PTES \in 0 .. DWORD
         /\ dwMemSize <= PageTables * PTES
<1> DEFINE w == PTES
           q == dwMemSize \div w
           r == dwMemSize % w
           k == DWORD \div w
<1>1. w \in Nat \ {0} /\ DWORD \in Nat \ {0} /\ DWORD % w = 0
  BY LoaderAssumption
<1>2. dwMemSize = w * q + r /\ q \in Nat /\ r \in 0 .. w - 1
  <2>1. dwMemSize \in Int /\ dwMemSize \in Nat
    BY <1>1
  <2> QED
    BY <1>1, <2>1, DivMod, Zenon
<1>3. DWORD = w * k /\ k \in Int
  <2>1. DWORD \in Int
    BY <1>1
  <2>2. DWORD = w * k + (DWORD % w) /\ k \in Int
    BY <1>1, <2>1, DivMod, Zenon
  <2>3. w * k \in Int
    BY <1>1, <2>2, Multiples
  <2> QED
    BY <1>1, <2>2, <2>3
<1>4. PageTables = q + (IF r = 0 THEN 0 ELSE 1)
  BY DEF PageTables
<1> HIDE DEF w, q, r, k
<1>5. w * q \in Int /\ q * w = w * q /\ w * (q + 1) = w * q + w /\ w * q >= 0
  <2>1. w * 0 = 0 /\ 0 \in Int /\ 0 <= q /\ q \in Int
    BY <1>1, <1>2, Multiples
  <2>2. w * 0 <= w * q
    BY <1>1, <2>1, Multiples
  <2>3. w * q \in Int /\ q * w = w * q /\ w * (q + 1) = w * q + w
    BY <1>1, <2>1, Multiples
  <2> QED
    BY <2>1, <2>2, <2>3
<1>6. CASE r = 0
  <2>1. PageTables = q /\ dwMemSize = w * q
    BY <1>2, <1>4, <1>5, <1>6
  <2> QED
    BY <1>1, <1>2, <1>5, <2>1 DEF w
<1>7. CASE r # 0
  <2>1. PageTables = q + 1
    BY <1>4, <1>7
  <2>2. (q + 1) * w = w * (q + 1) /\ q + 1 \in Int /\ q \in Int
    <3>1. q + 1 \in Int /\ q \in Int
      BY <1>2
    <3> QED
      BY <1>1, <3>1, Multiples
  <2>3. w * q < w * k
    BY <1>1, <1>2, <1>3, <1>5
  <2>4. q < k
    BY <1>1, <1>3, <2>2, <2>3, Multiples
  <2>5. q + 1 <= k
    BY <1>3, <2>2, <2>4
  <2>6. w * (q + 1) <= w * k
    BY <1>1, <1>3, <2>2, <2>5, Multiples
  <2> QED
    BY <1>1, <1>2, <1>3, <1>5, <2>1, <2>2, <2>6 DEF w
<1> QED
  BY <1>6, <1>7

\* The page tables that the invariant describes map all memory.
LEMMA MemoryMappedFrom ==
  ASSUME BootInv, MapInv, SizeInv, PagingInv
  PROVE  MemoryMapped
<1> SUFFICES ASSUME stage = "kernel",
                    NEW n \in DOMAIN bios_map, bios_map[n].type = 1,
                    NEW page \in bios_map[n].base .. bios_map[n].base + bios_map[n].length - 1
             PROVE  page \in DOMAIN page_tbl /\ Translation(page) = page
  BY DEF MemoryMapped
<1> DEFINE w == PTES
           q == page \div w
           r == page % w
           all == PageTables * w
<1>1. page \in Nat /\ page < dwMemSize /\ dwMemSize \in 0 .. DWORD - 1 /\ DWORD \in Nat \ {0}
  <2>1. dwMCRNumber = Len(bios_map) /\ End(n) <= dwMemSize /\ dwMemSize \in 0 .. DWORD - 1
    BY DEF SizeInv
  <2>2. Len(bios_map) = Len(MemChkBuf) /\ n \in DOMAIN MemChkBuf /\ n \in Nat \ {0}
    <3>1. Len(bios_map) \in Nat \ {0} /\ DOMAIN bios_map = 1 .. Len(bios_map)
      BY MapType
    <3> QED
      BY <2>1, <3>1 DEF MapInv
  <2>3. End(n) = bios_map[n].base + bios_map[n].length
    BY <2>2, EndType
  <2>4. bios_map[n].base \in Nat /\ bios_map[n].length \in Nat
    BY MapType
  <2>5. DWORD \in Nat \ {0}
    BY LoaderAssumption
  <2>6. PICK end : end = bios_map[n].base + bios_map[n].length
    OBVIOUS
  <2>7. end \in Nat /\ end <= dwMemSize /\ page \in bios_map[n].base .. end - 1
    BY <2>1, <2>3, <2>4, <2>6
  <2> QED
    BY <2>1, <2>4, <2>5, <2>7
<1>2. PageTables \in Nat /\ all \in 0 .. DWORD /\ page < all
  <2>1. PageTables \in Nat /\ all \in 0 .. DWORD /\ dwMemSize <= all
    BY <1>1, TablesHoldMemory
  <2> HIDE DEF all
  <2> QED
    BY <1>1, <2>1
<1>3. w \in Nat \ {0} /\ page = w * q + r /\ q \in Nat /\ r \in 0 .. w - 1
  <2>1. w \in Nat \ {0} /\ page \in Int
    BY <1>1, LoaderAssumption
  <2> QED
    BY <1>1, <2>1, DivMod, Zenon
<1>4. /\ page_dir = [m \in 0 .. LoopCount(PageTables) - 1 |-> m]
      /\ page_tbl = [m \in 0 .. LoopCount(all % DWORD) - 1 |-> m]
  BY DEF PagingInv
<1>5. PageTables # 0
  BY <1>1, <1>2, <1>3
<1>6. LoopCount(PageTables) = PageTables
  BY <1>5 DEF LoopCount
<1>7. LoopCount(all % DWORD) = all
  <2>1. CASE all = DWORD
    <3>1. DWORD % DWORD = 0
      BY <1>1
    <3> QED
      BY <2>1, <3>1 DEF LoopCount
  <2>2. CASE all # DWORD
    <3> HIDE DEF all
    <3>1. all % DWORD = all /\ all # 0
      BY <1>1, <1>2, <2>2
    <3> QED
      BY <3>1 DEF LoopCount
  <2> QED
    BY <2>1, <2>2
<1> HIDE DEF w, q, r
<1>8. w * q \in Int /\ q * w = w * q /\ w * PageTables \in Int /\ PageTables * w = w * PageTables
  BY <1>2, <1>3, Multiples
<1>9. q < PageTables
  <2>1. w * q < w * PageTables
    BY <1>1, <1>2, <1>3, <1>8
  <2> QED
    BY <1>2, <1>3, <2>1, Multiples
<1>10. page \in DOMAIN page_tbl /\ page_tbl[page] = page
  <2> HIDE DEF all
  <2>1. page \in 0 .. all - 1
    BY <1>1, <1>2
  <2> QED
    BY <1>4, <1>7, <2>1
<1>11. q \in DOMAIN page_dir /\ page_dir[q] = q
  <2>1. q \in 0 .. PageTables - 1
    BY <1>2, <1>3, <1>9
  <2> QED
    BY <1>4, <1>6, <2>1
<1>12. q * w + r = page
  BY <1>3, <1>8
<1>13. Translation(page) = page_tbl[page_dir[q] * w + r]
  BY <1>11 DEF Translation, q, w, r
<1> QED
  BY <1>10, <1>11, <1>12, <1>13

-----------------------------------------------------------------------------
(* The kernel.                                                             *)

\* The program headers, and where their segments lie.
LEMMA HeaderType ==
  /\ Len(ProgramHeaders) \in Nat \ {0} /\ DOMAIN ProgramHeaders = 1 .. Len(ProgramHeaders)
  /\ \A n \in DOMAIN ProgramHeaders :
       /\ ProgramHeaders[n].null \in BOOLEAN
       /\ ProgramHeaders[n].offset \in Nat /\ ProgramHeaders[n].filesz \in Nat
       /\ ProgramHeaders[n].vaddr \in Nat
       /\ Segment(ProgramHeaders[n]) \subseteq Address
<1> DEFINE Header == [null: BOOLEAN, offset: Nat, filesz: Nat, vaddr: Nat]
<1>1. ProgramHeaders \in Seq(Header) /\ ProgramHeaders # <<>>
  BY LoaderAssumption
<1> HIDE DEF Header
<1>2. \A n \in DOMAIN ProgramHeaders : ProgramHeaders[n] \in Header
  BY <1>1
<1>3. Len(ProgramHeaders) \in Nat \ {0} /\ DOMAIN ProgramHeaders = 1 .. Len(ProgramHeaders)
  BY <1>1
<1>4. \A n \in DOMAIN ProgramHeaders : Segment(ProgramHeaders[n]) \subseteq Address
  BY DEF Address
<1>5. \A n \in DOMAIN ProgramHeaders :
        /\ ProgramHeaders[n].null \in BOOLEAN
        /\ ProgramHeaders[n].offset \in Nat /\ ProgramHeaders[n].filesz \in Nat
        /\ ProgramHeaders[n].vaddr \in Nat
  BY <1>2 DEF Header
<1> QED
  BY <1>3, <1>4, <1>5

\* No segment has been copied at first.
LEMMA KernelInit == LoaderInit => KernelInv
<1> SUFFICES ASSUME LoaderInit
             PROVE  KernelInv
  OBVIOUS
<1>1. ph = 1 /\ image = [a \in Address |-> NoByte] /\ stage = "real_mode"
  BY DEF LoaderInit
<1>2. ph \in DOMAIN ProgramHeaders /\ \A n \in DOMAIN ProgramHeaders : ~(n < ph)
  BY <1>1, HeaderType
<1> QED
  BY <1>1, <1>2 DEF KernelInv

\* What InitKernel copies is the segment as it is on the floppy.
LEMMA CopyInPlace ==
  ASSUME InMemory("KERNEL"), disk \in Discs, NEW n \in DOMAIN ProgramHeaders,
         NEW a \in Segment(ProgramHeaders[n])
  PROVE  Copy(ProgramHeaders[n])[a] =
           FileByte("KERNEL", ProgramHeaders[n].offset + (a - ProgramHeaders[n].vaddr))
<1> DEFINE h == ProgramHeaders[n]
           i == h.offset + (a - h.vaddr)
           off == OffsetOf["KERNEL"]
           size == Len(disk.chain["KERNEL"]) * BPB_BytsPerSec
<1>1. /\ h.offset \in Nat /\ h.filesz \in Nat /\ h.vaddr \in Nat /\ off \in Nat
      /\ a \in h.vaddr .. h.vaddr + h.filesz - 1 /\ a \in Address
  BY HeaderType, BootAssumption DEF Segment, File
<1>2. h.offset + h.filesz <= size /\ size \in Int
  <2>1. h.offset + h.filesz <= size
    BY LoaderAssumption
  <2>2. Len(disk.chain["KERNEL"]) \in Nat
    BY DirectoryFits DEF File
  <2>3. size \in Int
    <3>1. BPB_BytsPerSec \in Nat \ {0} /\ Len(disk.chain["KERNEL"]) \in Int
      BY <2>2, Fat12Assumption
    <3> QED
      BY <3>1, Multiples
  <2> QED
    BY <2>1, <2>3
<1>3. Copy(h)[a] = memory["KERNEL"][off + h.offset + a - h.vaddr]
  BY <1>1 DEF Copy
<1> HIDE DEF h, off, size
<1>4. i \in 0 .. size - 1 /\ off + h.offset + a - h.vaddr = off + i
  BY <1>1, <1>2
<1>5. memory["KERNEL"][off + i] = FileByte("KERNEL", i)
  BY <1>4 DEF InMemory, off, size
<1> QED
  BY <1>3, <1>4, <1>5 DEF h

\* InitKernel copies one segment and disturbs none before.
LEMMA KernelStep ==
  ASSUME BootInv, SizeInv, KernelInv, Step \/ UNCHANGED vars
  PROVE  KernelInv'
<1>1. CASE InitKernel
  <2> DEFINE h == ProgramHeaders[ph]
  <2>1. /\ stage = "InitKernel" /\ disk' = disk
        /\ image' = IF h.null THEN image ELSE Copy(h)
        /\ IF ph = Len(ProgramHeaders) THEN stage' = "kernel" /\ ph' = ph
           ELSE ph' = ph + 1 /\ stage' = stage
    BY <1>1 DEF InitKernel, bootvars, world, LastHeader
  <2>2. /\ ph \in DOMAIN ProgramHeaders /\ DOMAIN image = Address /\ h.null \in BOOLEAN
        /\ \A n \in DOMAIN ProgramHeaders : n < ph => InPlace(n)
    BY HeaderType DEF KernelInv
  <2>3. /\ Len(ProgramHeaders) \in Nat \ {0}
        /\ DOMAIN ProgramHeaders = 1 .. Len(ProgramHeaders)
    BY HeaderType
  <2>4. InMemory("KERNEL") /\ disk \in Discs
    <3>1. program = "loader" /\ pc = "loaded"
      BY <2>1 DEF SizeInv
    <3> QED
      BY <3>1 DEF BootInv, BootType, LoadInv, Target
  <2>5. DOMAIN image' = Address
    BY <2>1, <2>2 DEF Copy
  <2>6. \A n \in DOMAIN ProgramHeaders : n <= ph => InPlace(n)'
    <3> SUFFICES ASSUME NEW n \in DOMAIN ProgramHeaders, n <= ph, ~ProgramHeaders[n].null,
                        NEW a \in Segment(ProgramHeaders[n])
                 PROVE  image'[a] = FileByte("KERNEL", ProgramHeaders[n].offset + (a - ProgramHeaders[n].vaddr))'
      BY DEF InPlace
    <3> DEFINE byte == FileByte("KERNEL", ProgramHeaders[n].offset + (a - ProgramHeaders[n].vaddr))
    <3>1. byte' = byte
      BY <2>1 DEF FileByte
    <3>2. a \in Address
      BY HeaderType
    <3>3. CASE n = ph
      BY <2>1, <2>4, <3>1, <3>3, CopyInPlace
    <3>4. CASE n # ph
      <4>1. image[a] = byte
        BY <2>2, <2>3, <3>4 DEF InPlace
      <4>2. ~h.null => a \notin Segment(h)
        BY <2>2, <3>4, LoaderAssumption
      <4>3. image'[a] = image[a]
        BY <2>1, <3>2, <4>2 DEF Copy
      <4> QED
        BY <3>1, <4>1, <4>3
    <3> QED
      BY <3>3, <3>4
  <2>7. CASE ph = Len(ProgramHeaders)
    BY <2>1, <2>2, <2>3, <2>5, <2>6, <2>7 DEF KernelInv
  <2>8. CASE ph # Len(ProgramHeaders)
    <3>1. /\ ph' \in DOMAIN ProgramHeaders /\ stage' # "kernel"
          /\ \A n \in DOMAIN ProgramHeaders : n < ph' => n <= ph
      BY <2>1, <2>2, <2>3, <2>8
    <3> QED
      BY <2>5, <2>6, <3>1 DEF KernelInv
  <2> QED
    BY <2>7, <2>8
<1>2. ASSUME UNCHANGED <<disk, ph, image>>, stage' = "kernel" => stage = "kernel"
      PROVE  KernelInv'
  BY <1>2 DEF KernelInv, InPlace, FileByte
<1>3. CASE RealMode
  <2>1. disk' = disk
    BY <1>3 DEF RealMode, BootSector, LoaderRealMode, LoadFile, SearchRootDir, SearchSector,
                LoadCluster, JumpToLoader, MemChk, world
  <2> QED
    BY <1>2, <1>3, <2>1 DEF RealMode, protected, kernel
<1>4. CASE ToProtectedMode \/ DispNoMap \/ DispMemInfo \/ SetupPaging \/ UNCHANGED vars
  BY <1>2, <1>4 DEF ToProtectedMode, DispNoMap, DispMemInfo, SetupPaging, vars, protected,
                    bootvars, world, kernel
<1> QED
  BY <1>1, <1>3, <1>4 DEF Step

-----------------------------------------------------------------------------
(* The theorems.                                                           *)

\* The invariant is inductive.
LEMMA Inductive ==
  /\ LoaderInit => IInv
  /\ IInv /\ [Next]_vars => IInv'
<1>1. LoaderInit => IInv
  BY BootInit, MapInit, SizeInit, PagingInit, KernelInit DEF IInv
<1>2. ASSUME IInv, [Next]_vars
      PROVE  IInv'
  <2>1. Step \/ UNCHANGED vars
    BY <1>2 DEF Next, Stopped
  <2> QED
    BY <1>2, <2>1, BootStep, MapStep, SizeStep, PagingStep, KernelStep DEF IInv
<1> QED
  BY <1>1, <1>2

\* The inductive invariant holds of every behaviour.
THEOREM Invariance == Spec => []IInv
<1>1. LoaderInit => IInv
  BY Inductive
<1>2. IInv /\ [Next]_vars => IInv'
  BY Inductive
<1> QED
  BY <1>1, <1>2, PTL DEF Spec

\* A file is said to be missing only when it is, and is executed only when it is
\* in memory whole and in order: SearchRootDir, SearchSector, LoadCluster.
THEOREM LoadIsExactAlways == Spec => []LoadIsExact
<1>1. IInv => LoadIsExact
  BY DEF IInv, BootInv, SearchInv, LoadInv, LoadIsExact
<1> QED
  BY <1>1, Invariance, PTL

\* InitKernel leaves every segment of the kernel at its address.
THEOREM KernelInPlaceAlways == Spec => []KernelInPlace
<1>1. ASSUME IInv
      PROVE  KernelInPlace
  <2> SUFFICES ASSUME stage = "kernel", NEW n \in DOMAIN ProgramHeaders, ~ProgramHeaders[n].null,
                      NEW k \in 0 .. ProgramHeaders[n].filesz - 1
               PROVE  image[ProgramHeaders[n].vaddr + k]
                        = FileByte("KERNEL", ProgramHeaders[n].offset + k)
    BY DEF KernelInPlace
  <2> DEFINE h == ProgramHeaders[n]
             a == h.vaddr + k
  <2>1. InPlace(n)
    BY <1>1 DEF IInv, KernelInv
  <2>2. h.vaddr \in Nat /\ h.offset \in Nat /\ h.filesz \in Nat
    BY HeaderType
  <2>3. a \in Segment(h) /\ h.offset + (a - h.vaddr) = h.offset + k
    BY <2>2 DEF Segment
  <2> QED
    BY <2>1, <2>3 DEF InPlace
<1> QED
  BY <1>1, Invariance, PTL

\* The page tables that SetupPaging makes map all memory that the BIOS
\* reported, each page to itself.
THEOREM MemoryMappedAlways == Spec => []MemoryMapped
<1>1. IInv => MemoryMapped
  BY MemoryMappedFrom DEF IInv
<1> QED
  BY <1>1, Invariance, PTL
=============================================================================
