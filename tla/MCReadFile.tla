----------------------------- MODULE MCReadFile -----------------------------
(***************************************************************************)
(* Images and calls on which TLC checks ReadFile.  A block has two units;  *)
(* group 0 has the blocks 0 .. 5 and group 1 begins at block 6, whose      *)
(* number is 8.  Inodes 2 .. 5 are in the blocks 1 and 2.                  *)
(***************************************************************************)
EXTENDS ReadFile, TLC

CONSTANTS a, b, s, none, d1, d2, d3, d4, d5, d6, d7, d8, zero, blank

MCBlockSize == 2
MCAgBlocks  == 6
MCAgSpan    == 8
MCImageSize == 16
MCData      == {d1, d2, d3, d4, d5, d6, d7, d8, zero}
MCName      == {a, b, s, none}
MCWord      == 64
MCIntWord   == 16

E(name, ino)         == [name |-> name, ino |-> ino]
X(off, start, count) == [off |-> off, start |-> start, count |-> count, unwritten |-> FALSE]
DirOf(count, i8, ents) ==
  [ZeroInode EXCEPT !.kind = "dir", !.format = "local",
                    !.count = count, !.i8count = i8, !.ents = ents]
Dir(ents)        == DirOf(Len(ents), 0, ents)
File(size, exts) == [ZeroInode EXCEPT !.kind = "reg", !.format = "extents",
                                      !.size = size, !.nextents = Len(exts), !.exts = exts]

\* An image whose inodes 2 .. 5 are these; the data d1 .. d6 are in the blocks
\* 3 .. 5, and group 1 has an inode in block 6.
Disk(i2, i3, i4, i5) ==
  [root |-> 2, seqno |-> 0,
   units |-> [j \in Address |->
     CASE j = 2 -> i2 [] j = 3 -> i3 [] j = 4 -> i4 [] j = 5 -> i5
       [] j = 6 -> d1 [] j = 7 -> d2 [] j = 8 -> d3 [] j = 9 -> d4
       [] j = 10 -> d5 [] j = 11 -> d6 [] j = 12 -> File(2, <<X(0, 9, 1)>>)
       [] j = 14 -> d7 [] j = 15 -> d8 [] OTHER -> zero]]

FileA == File(3, <<X(0, 3, 2)>>)
FileB == File(2, <<X(0, 5, 1)>>)
Root  == Dir(<<E(a, 4), E(s, 3)>>)

SupportedImages ==
  { Disk(Root, Dir(<<E(b, 5)>>), FileA, FileB),
    \* the subdirectory is empty, a is empty, b may not be opened
    Disk(Root, Dir(<< >>), File(0, << >>), [FileB EXCEPT !.ox = TRUE]),
    \* an entry was removed; the subdirectory leads up again
    Disk(DirOf(2, 0, <<E(b, 5), E(s, 3), E(a, 4)>>), Dir(<<E(a, 4), E(s, 2)>>), FileA, FileB),
    \* a wide directory, and a directory in block format
    Disk(Root, DirOf(1, 1, <<E(b, 5)>>), [Dir(<< >>) EXCEPT !.format = "btree"], FileB) }

Abs(comps)  == [abs |-> TRUE, comps |-> comps]
MCPath      == {Abs(cs) : cs \in {<<c>> : c \in {a, s, none}} \cup {<< >>, <<s, a>>, <<s, b>>,
                                  <<a, none>>, <<s, none, b>>}}
                \cup {[abs |-> FALSE, comps |-> <<a>>]}
MCGarbage   == {ZeroInode, File(1, <<X(1, 0, 1)>>), [Dir(<<E(a, 14)>>) EXCEPT !.nextents = 1]}

(***************************************************************************)
(* Images beyond what the reader supports, one for each run that shows     *)
(* what becomes of a statement of the sources on them.                     *)
(***************************************************************************)
PlainImages == {Disk(Root, Dir(<<E(b, 5)>>), FileA, FileB)}

\* A file of one block, and blocks preallocated behind its end.
PreallocImages == {Disk(Root, Dir(<< >>), File(2, <<X(0, 3, 1), X(1, 4, 1)>>), FileB)}

\* A file of two extents.
TwoExtentImages == {Disk(Root, Dir(<< >>), File(4, <<X(0, 5, 1), X(1, 3, 1)>>), FileB)}

FaultImages ==
  PlainImages \cup {Disk(DirOf(2, 0, <<E(b, 5), E(s, 3), E(a, 4)>>), Dir(<<E(a, 4)>>), FileA, FileB)}

ShortPaths == {Abs(<<a>>), Abs(<<s, b>>)}

OnePath == {Abs(<<s, b>>)}

\* Callers are alike, to the specification and to every property.
CallerSymmetry == Permutations(Caller)
=============================================================================
