---------------------------- MODULE MCFileSystem ----------------------------
(* An instance of FileSystem for TLC: three blocks besides the root's two,   *)
(* FCBs that lie across blocks, files of up to two blocks, and directories   *)
(* as deep as the table of open files allows.                                *)
EXTENDS FileSystem

\* strtok() cuts "f.x" into "f" and "x" and leaves "d" as it is.
SomeSplit == [n \in {"d", "f.x", "g.x"} |->
                CASE n = "d"   -> <<"d", "">>
                  [] n = "f.x" -> <<"f", "x">>
                  [] n = "g.x" -> <<"g", "x">>]

SomeLines == {<<"a", "b", "c", "d", "e", "f", "g", "\n">>, <<"x", "y", "z", "\n">>}

\* What the commands can read: the contents of what can be reached, without
\* what a removed entry still says.
Unremoved(u) == IF u[1] = "fcb" /\ u[2].free = 0 THEN Zero ELSE u

Contents(h, root) ==
  <<h.fat1, h.fat2,
    {LET t == do_read(h, f.first, Current(f).length)
     IN  <<f, [k \in DOMAIN t |-> Unremoved(t[k])]>> : f \in TreeOf(h, root)}>>

\* The saved image counts only while the program does not run: what a kill
\* leads to is the state in which the image was saved.
View ==
  IF broken /= "no" THEN <<broken>>
  ELSE IF ~running
  THEN <<Contents(myfilesys.image, myfilesys.image.block[Root][0][2]), myfilesys.text, myfilesys.dotted>>
  ELSE <<Contents(myvhard, openfilelist[0].fcb), openfilelist, curdir, text, dotted>>
=============================================================================
