-------------------------------- MODULE Boot --------------------------------
(***************************************************************************)
(* The real mode part of booting: the boot sector (boot.asm) finds         *)
(* LOADER.BIN in the root directory and loads it along its FAT chain;      *)
(* loader.asm asks the BIOS for the memory map and does the same for       *)
(* KERNEL.BIN.  Both read a sector into the segment of the file, first of  *)
(* the directory and then of the file.                                     *)
(*                                                                         *)
(* A read that fails is repeated until it succeeds: it is a stuttering     *)
(* step.  A file fits into a segment; nothing in the code checks it.       *)
(***************************************************************************)
EXTENDS Fat12, Sequences

CONSTANTS
  RootDirSectors,
  EntriesPerSector,
  SectorNoOfRootDirectory,
  DeltaSectorNo,
  OffsetOf,          \* where a file is loaded in its segment, by file
  SegmentSize,       \* 64 KB: bx wraps there
  Discs,             \* the floppies: see Disc
  MemoryMaps,        \* what int 15h, E820h reports: sequences of
                     \* [base, length, type]
  BiosMayFail        \* may int 15h fail?

File == {"LOADER", "KERNEL"}

VARIABLES
  disk,                             \* the floppy and the memory map
  bios_map,
  program,                          \* "boot" or "loader"
  pc,
  wSectorNo, wRootDirSizeForLoop,   \* variables of the running program
  dx, di,                           \* entries left and place in a directory sector
  cluster,                          \* the FAT number on the stack
  bx,                               \* where the next sector goes
  memory,                           \* the segment of each file
  MemChkBuf, dwMCRNumber            \* the memory map, as loader.asm keeps it

search  == <<wSectorNo, wRootDirSizeForLoop, dx, di>>
load    == <<cluster, bx>>
map     == <<MemChkBuf, dwMCRNumber>>
world   == <<disk, bios_map>>
bootvars == <<world, program, pc, search, load, memory, map>>

ASSUME BootAssumption ==
  /\ RootDirSectors \in Nat \ {0}
  /\ EntriesPerSector \in Nat \ {0} /\ BPB_BytsPerSec % EntriesPerSector = 0
  /\ SectorNoOfRootDirectory = SectorNoOfFAT1 + 2 * BPB_FATSz16
  /\ DeltaSectorNo = SectorNoOfRootDirectory - 2
  /\ OffsetOf \in [File -> Nat] /\ SegmentSize \in Nat
  /\ \A d \in Discs, f \in File :
       OffsetOf[f] + Len(d.chain[f]) * BPB_BytsPerSec <= SegmentSize

-----------------------------------------------------------------------------
(* The floppy: d.root names the file of each directory entry, d.chain the  *)
(* clusters of each file.  The first two entries of the FAT are reserved.  *)

EndOfChain == 4095
EntrySize  == BPB_BytsPerSec \div EntriesPerSector
DirEntry   == 0 .. RootDirSectors * EntriesPerSector - 1

\* The clusters of the disc, whose numbers are not the mark of a chain's end.
Cluster == {c \in 2 .. Entries - 1 :
              c < EndOfChain /\ c + RootDirSectors + DeltaSectorNo \in Sector}

\* A file has clusters, and no cluster is twice in a chain or in two.
ASSUME FloppyAssumption ==
  /\ EntrySize >= 2
  /\ SectorNoOfRootDirectory + RootDirSectors <= TotSec
  /\ \A d \in Discs :
       /\ DOMAIN d.root = DirEntry
       /\ d.chain \in [File -> Seq(Cluster) \ {<<>>}]
       /\ \A f, g \in File : \A m \in DOMAIN d.chain[f], n \in DOMAIN d.chain[g] :
            d.chain[f][m] = d.chain[g][n] => f = g /\ m = n

Successor(chain, c) ==
  LET n == CHOOSE n \in 1 .. Len(chain) : chain[n] = c
  IN  IF n = Len(chain) THEN EndOfChain ELSE chain[n + 1]

Entry(d) ==
  [c \in 0 .. Entries - 1 |->
     CASE c = 0 -> 4080
       [] c = 1 -> EndOfChain
       [] \E f \in File : c \in {d.chain[f][n] : n \in DOMAIN d.chain[f]} ->
            Successor(d.chain[CHOOSE f \in File : c \in {d.chain[f][n] : n \in DOMAIN d.chain[f]}], c)
       [] OTHER -> 0]

DirByte(d, b) ==
  LET name == d.root[b \div EntrySize]
  IN  CASE b % EntrySize = 0 -> <<name, 0, 0>>
        [] b % EntrySize = 1 /\ name \in File -> <<"first", d.chain[name][1], 0>>
        [] OTHER -> NoByte

DataByte(s, k) == <<"data", s - DeltaSectorNo - RootDirSectors, k>>

Disc(d) ==
  [s \in Sector |-> [k \in Byte |->
     IF s < SectorNoOfFAT1 THEN NoByte
     ELSE IF s < SectorNoOfRootDirectory
     THEN FatByte(Entry(d), ((s - SectorNoOfFAT1) % BPB_FATSz16) * BPB_BytsPerSec + k)
     ELSE IF s < SectorNoOfRootDirectory + RootDirSectors
     THEN DirByte(d, (s - SectorNoOfRootDirectory) * BPB_BytsPerSec + k)
     ELSE DataByte(s, k)]]

Init ==
  /\ disk \in Discs /\ bios_map \in MemoryMaps
  /\ program = "boot" /\ pc = "next_sector"
  /\ wSectorNo = SectorNoOfRootDirectory
  /\ wRootDirSizeForLoop = RootDirSectors
  /\ dx = 0 /\ di = 0
  /\ cluster = 0 /\ bx = 0
  /\ memory = [f \in File |-> [k \in 0 .. SegmentSize - 1 |-> NoByte]]
  /\ MemChkBuf = <<>> /\ dwMCRNumber = 0

-----------------------------------------------------------------------------
(* The search in the root directory and the loading of the file, the same  *)
(* code in both programs but for the file.                                 *)

Target == IF program = "boot" THEN "LOADER" ELSE "KERNEL"

\* One sector is read to es:at.
ReadTo(at, sector) ==
  LET data == ReadSector(Disc(disk), sector, 1)
  IN  memory' = [memory EXCEPT ![Target] =
        [k \in DOMAIN @ |->
           LET n == (k - at) % SegmentSize IN IF n \in Byte THEN data[n] ELSE @[k]]]

\* (Wrong: the last entry of a sector is not looked at.)
EntriesFewer == EntriesPerSector - 1

EntriesLeft == EntriesPerSector

SearchRootDir ==
  /\ pc = "next_sector"
  /\ IF wRootDirSizeForLoop = 0
     THEN /\ pc' = "no_file"
          /\ UNCHANGED <<wRootDirSizeForLoop, memory, dx, di>>
     ELSE /\ wRootDirSizeForLoop' = wRootDirSizeForLoop - 1
          /\ ReadTo(OffsetOf[Target], wSectorNo)
          /\ dx' = EntriesLeft /\ di' = OffsetOf[Target]
          /\ pc' = "compare"
  /\ UNCHANGED <<world, program, wSectorNo, load, map>>

SearchSector ==
  /\ pc = "compare"
  /\ \/ /\ dx = 0
        /\ pc' = "next_sector"
        /\ wSectorNo' = wSectorNo + 1
        /\ UNCHANGED <<dx, di, load>>
     \/ /\ dx /= 0
        /\ dx' = dx - 1
        /\ IF memory[Target][di][1] = Target
           THEN /\ pc' = "load"
                /\ cluster' = memory[Target][di + 1][2]
                /\ bx' = OffsetOf[Target]
                /\ UNCHANGED di
           ELSE di' = di + EntrySize /\ UNCHANGED <<pc, load>>
        /\ UNCHANGED wSectorNo
  /\ UNCHANGED <<world, program, wRootDirSizeForLoop, memory, map>>

LastCluster(entry) == entry = EndOfChain

NextPlace(at) == (at + BPB_BytsPerSec) % SegmentSize

LoadCluster ==
  /\ pc = "load"
  /\ ReadTo(bx, cluster + RootDirSectors + DeltaSectorNo)
  /\ LET entry == GetFATEntry(Disc(disk), cluster)
     IN  IF LastCluster(entry)
         THEN pc' = "loaded" /\ UNCHANGED load
         ELSE /\ cluster' = entry
              /\ bx' = NextPlace(bx)
              /\ UNCHANGED pc
  /\ UNCHANGED <<world, program, search, map>>

-----------------------------------------------------------------------------
\* boot.asm jumps to the loader, whose variables are its own.
JumpToLoader ==
  /\ program = "boot" /\ pc = "loaded"
  /\ program' = "loader" /\ pc' = "mem_chk"
  /\ wSectorNo' = SectorNoOfRootDirectory
  /\ wRootDirSizeForLoop' = RootDirSectors
  /\ UNCHANGED <<world, dx, di, load, memory, map>>

\* One int 15h: a range of memory, or a failure, which forgets those before.
MemChk ==
  /\ pc = "mem_chk"
  /\ \/ /\ MemChkBuf' = Append(MemChkBuf, bios_map[Len(MemChkBuf) + 1])
        /\ dwMCRNumber' = dwMCRNumber + 1
        /\ pc' = IF dwMCRNumber' = Len(bios_map) THEN "next_sector" ELSE pc
     \/ /\ BiosMayFail
        /\ dwMCRNumber' = 0
        /\ pc' = "next_sector"
        /\ UNCHANGED MemChkBuf
  /\ UNCHANGED <<world, program, search, load, memory>>

LoadFile == SearchRootDir \/ SearchSector \/ LoadCluster

BootSector == program = "boot" /\ (LoadFile \/ JumpToLoader)

LoaderRealMode == program = "loader" /\ (MemChk \/ LoadFile)

-----------------------------------------------------------------------------
\* Byte n of a file on the floppy.
FileByte(f, n) ==
  <<"data", disk.chain[f][n \div BPB_BytsPerSec + 1], n % BPB_BytsPerSec>>

InMemory(f) ==
  \A n \in 0 .. Len(disk.chain[f]) * BPB_BytsPerSec - 1 :
    memory[f][OffsetOf[f] + n] = FileByte(f, n)

OnDisc(f) == \E e \in DirEntry : disk.root[e] = f

\* "No LOADER" and "No KERNEL" are said only of floppies without the file.  A
\* file is "Ready" only when it is in memory whole, its clusters in the order
\* of their chain, wherever they lie and wherever its directory entry is, and
\* nothing that the loader reads falls on the loader.
LoadIsExact ==
  /\ pc = "no_file" => ~OnDisc(Target)
  /\ pc = "loaded" => OnDisc(Target) /\ InMemory(Target)
  /\ program = "loader" => InMemory("LOADER")
=============================================================================
