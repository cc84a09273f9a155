------------------------------- MODULE Loader -------------------------------
(***************************************************************************)
(* The protected mode part of loader.asm, after the real mode part of      *)
(* Boot: it sizes the memory, maps it one to one, and copies the segments  *)
(* of the kernel, an ELF file, to where they were linked.                  *)
(*                                                                         *)
(* Addresses are in pages where paging is concerned, and in bytes of the   *)
(* kernel's place otherwise.  The registers have fewer than 32 bits.       *)
(***************************************************************************)
EXTENDS Boot

CONSTANTS
  DWORD,            \* 2^32
  PTES,             \* pages of a page table
  ProgramHeaders    \* of KERNEL.BIN: a sequence of
                    \* [null, offset, filesz, vaddr]

Segment(h) == h.vaddr .. h.vaddr + h.filesz - 1

\* The BIOS reports at least one range, and the segments that the linker made
\* do not overlap.
ASSUME LoaderAssumption ==
  /\ DWORD \in Nat \ {0}
  /\ PTES \in Nat \ {0} /\ DWORD % PTES = 0
  /\ \A m \in MemoryMaps :
       /\ m \in Seq([base: Nat, length: Nat, type: Nat]) \ {<<>>}
       /\ \A n \in DOMAIN m : m[n].base + m[n].length < DWORD
  /\ ProgramHeaders \in
       Seq([null: BOOLEAN, offset: Nat, filesz: Nat, vaddr: Nat]) \ {<<>>}
  /\ \A m, n \in DOMAIN ProgramHeaders :
       LET g == ProgramHeaders[m]
           h == ProgramHeaders[n]
       IN  m /= n /\ ~g.null /\ ~h.null => Segment(g) \cap Segment(h) = {}
  /\ \A d \in Discs, n \in DOMAIN ProgramHeaders :
       ProgramHeaders[n].offset + ProgramHeaders[n].filesz
         <= Len(d.chain["KERNEL"]) * BPB_BytsPerSec

VARIABLES
  stage,              \* where the 32-bit code is
  dwMemSize,
  ranges,             \* how many ranges DispMemInfo went through
  page_dir, page_tbl,
  ph,                 \* the program header InitKernel is at: esi
  image               \* what the kernel's place in memory holds

paging == <<page_dir, page_tbl>>
kernel == <<ph, image>>
protected == <<stage, dwMemSize, ranges, paging, kernel>>
vars   == <<bootvars, protected>>

\* "loop" and "dec; jnz" test the counter after the body: a counter of zero
\* goes round once for every value of the register.
LoopCount(ecx) == IF ecx = 0 THEN DWORD ELSE ecx

Address == UNION {Segment(ProgramHeaders[n]) : n \in DOMAIN ProgramHeaders}

LoaderInit ==
  /\ Init
  /\ stage = "real_mode"
  /\ dwMemSize = 0 /\ ranges = 0
  /\ page_dir = <<>> /\ page_tbl = <<>>
  /\ ph = 1
  /\ image = [a \in Address |-> NoByte]

-----------------------------------------------------------------------------
RealMode ==
  /\ stage = "real_mode"
  /\ BootSector \/ LoaderRealMode
  /\ UNCHANGED protected

ToProtectedMode ==
  /\ stage = "real_mode" /\ program = "loader" /\ pc = "loaded"
  /\ stage' = "DispMemInfo"
  /\ UNCHANGED <<bootvars, dwMemSize, ranges, paging, kernel>>

\* The buffer holds zeros after the last range, which are no memory.
End(r) == IF r <= Len(MemChkBuf) /\ MemChkBuf[r].type = 1
          THEN (MemChkBuf[r].base + MemChkBuf[r].length) % DWORD
          ELSE 0

\* Without a memory map it goes 2^32 times through whatever memory holds.
DispNoMap ==
  /\ stage = "DispMemInfo" /\ dwMCRNumber = 0
  /\ stage' = "no_map"
  /\ UNCHANGED <<bootvars, dwMemSize, ranges, paging, kernel>>

DispMemInfo ==
  /\ stage = "DispMemInfo" /\ dwMCRNumber > 0
  /\ ranges' = ranges + 1
  /\ dwMemSize' = IF End(ranges') >= dwMemSize THEN End(ranges') ELSE dwMemSize
  /\ stage' = IF ranges' = dwMCRNumber THEN "SetupPaging" ELSE stage
  /\ UNCHANGED <<bootvars, paging, kernel>>

\* (Wrong: what is left over gets no page table.)
PageTablesFloor == dwMemSize \div PTES

PageTables ==
  dwMemSize \div PTES + (IF dwMemSize % PTES = 0 THEN 0 ELSE 1)

\* One page table for each PTES pages, all tables in a row, each page itself.
SetupPaging ==
  /\ stage = "SetupPaging"
  /\ page_dir' = [n \in 0 .. LoopCount(PageTables) - 1 |-> n]
  /\ page_tbl' = [n \in 0 .. LoopCount((PageTables * PTES) % DWORD) - 1 |-> n]
  /\ stage' = "InitKernel"
  /\ UNCHANGED <<bootvars, dwMemSize, ranges, kernel>>

Copy(h) ==
  [a \in Address |->
     IF a \in Segment(h)
     THEN memory["KERNEL"][OffsetOf["KERNEL"] + h.offset + a - h.vaddr]
     ELSE image[a]]

\* (Wrong: the table ends with the first unused header.)
HeadersUpToNull == ph = Len(ProgramHeaders) \/ ProgramHeaders[ph].null

LastHeader == ph = Len(ProgramHeaders)

InitKernel ==
  /\ stage = "InitKernel"
  /\ image' = IF ProgramHeaders[ph].null THEN image ELSE Copy(ProgramHeaders[ph])
  /\ IF LastHeader THEN stage' = "kernel" /\ UNCHANGED ph
     ELSE ph' = ph + 1 /\ UNCHANGED stage
  /\ UNCHANGED <<bootvars, dwMemSize, ranges, paging>>

Step == RealMode \/ ToProtectedMode \/ DispNoMap \/ DispMemInfo \/ SetupPaging \/ InitKernel

Stopped == (pc = "no_file" \/ stage \in {"kernel", "no_map"}) /\ UNCHANGED vars

Next == Step \/ Stopped

\* Nothing else runs while the machine boots, and a floppy that is read again
\* and again is read in the end.
Spec == LoaderInit /\ [][Next]_vars /\ WF_vars(Step)

-----------------------------------------------------------------------------
\* The kernel is entered with every segment of KERNEL.BIN at its address, byte
\* by byte as on the floppy, and with nothing of another cluster.
KernelInPlace ==
  stage = "kernel" =>
    \A n \in DOMAIN ProgramHeaders :
      LET h == ProgramHeaders[n]
      IN  ~h.null => \A k \in 0 .. h.filesz - 1 :
                       image[h.vaddr + k] = FileByte("KERNEL", h.offset + k)

Translation(page) ==
  IF page \div PTES \in DOMAIN page_dir
  THEN page_tbl[page_dir[page \div PTES] * PTES + (page % PTES)]
  ELSE "fault"

\* The kernel can use all the memory that the BIOS reported, whatever the order
\* and the gaps of the ranges: each page of it is mapped, to itself.
MemoryMapped ==
  stage = "kernel" =>
    \A n \in DOMAIN bios_map :
      bios_map[n].type = 1 =>
        \A page \in bios_map[n].base .. bios_map[n].base + bios_map[n].length - 1 :
          page \in DOMAIN page_tbl /\ Translation(page) = page

\* A machine that boots ends in the kernel or says which file is missing, unless
\* its BIOS fails to report the memory.
BootEnds == <>(pc = "no_file" \/ stage \in {"kernel", "no_map"})
=============================================================================
