------------------------------ MODULE MCLoader ------------------------------
(* A floppy of fifteen sectors of four bytes: two FATs of three sectors, a   *)
(* directory of two sectors with two entries each, and six clusters; three   *)
(* tracks.  The entries of the FAT lie at all places relative to a sector's  *)
(* end.                                                                      *)
EXTENDS Loader

Offsets == [LOADER |-> 1, KERNEL |-> 0]

\* Two files of one or two and of two clusters, which lie anywhere.
Chains ==
  LET C == 2 .. 6
  IN  {[LOADER |-> l, KERNEL |-> <<k1, k2>>] : l \in {<<c>> : c \in C} \union (C \X C), k1 \in C, k2 \in C}

Disjoint(c) == \A m, n \in {<<f, k>> \in File \X {1, 2} : k \in DOMAIN c[f]} :
                 m /= n => c[m[1]][m[2]] /= c[n[1]][n[2]]

\* Directories: the two files at any entries, or only one of them.
Roots ==
  {r \in [DirEntry -> File \union {"OTHER"}] :
     \A f \in File : \A d, e \in DirEntry : r[d] = f /\ r[e] = f => d = e}

Floppies == {[root |-> r, chain |-> c] : r \in Roots, c \in {c \in Chains : Disjoint(c)}}

Ards(base, length, type) == [base |-> base, length |-> length, type |-> type]

\* As the BIOS of a PC reports it: low memory, a hole, high memory, ROM; the
\* last table partly used, or the ranges out of order.
Maps ==
  { <<Ards(0, 2, 1), Ards(2, 1, 2), Ards(3, 6, 1), Ards(14, 1, 2)>>,
    <<Ards(4, 7, 1), Ards(0, 3, 1)>> }

Headers ==
  << [null |-> FALSE, offset |-> 1, filesz |-> 4, vaddr |-> 10],
     [null |-> TRUE, offset |-> 0, filesz |-> 0, vaddr |-> 0],
     [null |-> FALSE, offset |-> 6, filesz |-> 2, vaddr |-> 15] >>
=============================================================================
