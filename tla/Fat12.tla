------------------------------- MODULE Fat12 -------------------------------
(***************************************************************************)
(* How boot.asm and loader.asm read a FAT12 floppy: a sector is found by   *)
(* cylinder, head and sector number, and an entry of the FAT is twelve     *)
(* bits that may lie in two sectors.                                       *)
(*                                                                         *)
(* A disc is a function from sector numbers to sequences of BytsPerSec     *)
(* bytes.  A byte is a triple <<kind, value, offset>>: a byte of the FAT,  *)
(* a name or a first cluster of a directory entry, a byte of a file.       *)
(***************************************************************************)
EXTENDS Integers

CONSTANTS
  BPB_BytsPerSec,
  BPB_SecPerTrk,
  SectorNoOfFAT1,
  BPB_FATSz16,       \* sectors of a FAT
  TotSec             \* sectors of the disc

NumHeads == 2
Sector   == 0 .. TotSec - 1
Byte     == 0 .. BPB_BytsPerSec - 1

ASSUME Fat12Assumption ==
  /\ BPB_BytsPerSec \in Nat \ {0}
  /\ BPB_SecPerTrk \in Nat \ {0}
  /\ SectorNoOfFAT1 \in Nat
  /\ BPB_FATSz16 \in Nat \ {0}
  /\ TotSec \in Nat
  \* The first FAT lies in one track: two of its sectors are read at once.
  /\ (SectorNoOfFAT1 % BPB_SecPerTrk) + BPB_FATSz16 <= BPB_SecPerTrk

NoByte == <<"none", 0, 0>>

-----------------------------------------------------------------------------
(* ReadSector.                                                             *)

\* The place of sector x: ch, dh and cl when int 13h is called.
Chs(x) ==
  LET y == x \div BPB_SecPerTrk
  IN  [cylinder |-> y \div 2, head |-> y % 2, sector |-> (x % BPB_SecPerTrk) + 1]

\* int 13h: the drive reads n sectors of one track.
Int13(disc, chs, n) ==
  LET first == (chs.cylinder * NumHeads + chs.head) * BPB_SecPerTrk + chs.sector - 1
  IN  [k \in 0 .. n * BPB_BytsPerSec - 1 |->
         LET s == k \div BPB_BytsPerSec
         IN  IF first + s \in Sector /\ chs.sector + s <= BPB_SecPerTrk
             THEN disc[first + s][k % BPB_BytsPerSec]
             ELSE NoByte]

\* n sectors of the disc from sector x on.
ReadSector(disc, x, n) == Int13(disc, Chs(x), n)

-----------------------------------------------------------------------------
(* GetFATEntry.                                                            *)

\* (Wrong: one sector is read, though an entry may lie in two.)
FatSectorsOne == 1

FatSectors == 2

TwelveBits(bOdd, ax) == IF bOdd = 1 THEN ax \div 16 ELSE ax % 4096

GetFATEntry(disc, cluster) ==
  LET bOdd   == (cluster * 3) % 2
      offset == (cluster * 3) \div 2
      sector == SectorNoOfFAT1 + offset \div BPB_BytsPerSec
      buffer == ReadSector(disc, sector, FatSectors)
      at     == offset % BPB_BytsPerSec
      low    == buffer[at][2]
      high   == IF at + 1 \in DOMAIN buffer THEN buffer[at + 1][2] ELSE 0
  IN  TwelveBits(bOdd, low + 256 * high)

-----------------------------------------------------------------------------
(* The format: entry n of a FAT is the n-th group of three half bytes,     *)
(* lowest first.                                                           *)

Entries == (2 * BPB_FATSz16 * BPB_BytsPerSec) \div 3

Nibble(entry, h) ==
  LET n == h \div 3
  IN  IF n >= Entries THEN 0 ELSE (entry[n] \div <<1, 16, 256>>[(h % 3) + 1]) % 16

FatByte(entry, b) ==
  <<"fat", Nibble(entry, 2 * b) + 16 * Nibble(entry, 2 * b + 1), 0>>
=============================================================================
