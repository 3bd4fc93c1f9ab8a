------------------------------ MODULE XfsImage ------------------------------
(***************************************************************************)
(* The part of an XFS image that fs/tslib/read_file.c interprets, and what *)
(* that image says: which inode a path names, and what a file contains.    *)
(*                                                                         *)
(* The image is a function from addresses to units.  A unit stands for     *)
(* sb_inodesize bytes: it is the size of an inode, so a block holds        *)
(* BlockSize = 2^sb_inopblog of them, and it is also the grain of file     *)
(* data, of buffers and of byte counts.                                    *)
(***************************************************************************)
EXTENDS Integers, Sequences

CONSTANTS
  BlockSize,  \* units in a file system block (sb_blocksize; 2^sb_inopblog)
  AgBlocks,   \* blocks in an allocation group (sb_agblocks)
  AgSpan,     \* block numbers reserved for a group (2^sb_agblklog)
  ImageSize,  \* units in the image
  IntWord,    \* 2^32 bytes: where sb_blocksize * nmeb wraps
  Name,       \* path components, Empty among them
  Empty,      \* the component between two adjacent slashes
  Data,       \* units that hold file data
  Zero,       \* the unit of zeroes a hole or an unwritten extent reads as
  Blank,      \* what the memory of a caller holds before a call
  Images      \* the images a run looks at

(***************************************************************************)
(* Units.  ents is what the literal area of a local directory parses to:   *)
(* its first count entries are live, the others are left over from removed *)
(* entries; exts is what that of a file parses to, of which nextents are   *)
(* said to be in use.  An extent maps file blocks off .. off + count - 1   *)
(* to the file system blocks from start on.                                *)
(***************************************************************************)
Entry  == [name : Name, ino : Nat]
Extent == [off : Nat, start : Nat, count : Nat, unwritten : BOOLEAN]
Inode  == [kind    : {"dir", "reg", "other"},                \* di_mode & S_IFMT
           ox      : BOOLEAN,                                \* di_mode & S_IXOTH
           format  : {"local", "extents", "btree", "dev"},   \* di_format
           count   : Nat, i8count : Nat, ents : Seq(Entry),
           size    : Nat, nextents : Nat, exts : Seq(Extent)]
Unit   == Data \cup Inode

Address == 0 .. ImageSize - 1
Image   == [units : [Address -> Unit], root : Nat, seqno : Nat]

ASSUME ImageAssumption ==
  /\ BlockSize \in Nat \ {0} /\ AgBlocks \in Nat \ {0} /\ AgSpan \in Nat
  /\ AgBlocks <= AgSpan
  /\ ImageSize \in Nat /\ IntWord \in Nat \ {0}
  /\ Empty \in Name
  /\ Zero \in Data /\ Data \cap Inode = {} /\ Blank \notin Unit
  /\ Images \subseteq Image

(***************************************************************************)
(* What the image says.  Block and inode numbers carry their allocation    *)
(* group in the bits above AgSpan, while groups are AgBlocks long.         *)
(***************************************************************************)
BlockOf(fsb)      == ((fsb \div AgSpan) * AgBlocks) + (fsb % AgSpan)
InodeAddr(ino)    == (BlockOf(ino \div BlockSize) * BlockSize) + (ino % BlockSize)
InodeAt(d, ino)   == d.units[InodeAddr(ino)]
LocalDir(i)       == i.kind = "dir" /\ i.format = "local"
Live(i)           == {i.ents[j] : j \in 1 .. i.count}

\* Every inode number that the image mentions.
Named(d) ==
  {d.root} \cup UNION {{e.ino : e \in Live(d.units[a])} :
                         a \in {b \in Address : d.units[b] \in Inode}}

\* Component c leads from inode a to inode b; an empty one stays where it is.
LeadsTo(d, a, c, b) ==
  /\ LocalDir(InodeAt(d, a))
  /\ \/ c = Empty /\ b = a
     \/ c # Empty /\ [name |-> c, ino |-> b] \in Live(InodeAt(d, a))

\* The first k of the components cs lead from the root to inode ino.
Resolves(d, cs, k, ino) ==
  \E way \in [0 .. k -> Named(d)] :
     /\ way[0] = d.root /\ way[k] = ino
     /\ \A j \in 1 .. k : LeadsTo(d, way[j-1], cs[j], way[j])

\* Extent e of a file holds its unit j.
Covers(e, j) == j \div BlockSize \in e.off .. e.off + e.count - 1

\* Unit j of the file with inode i is u: the unit an extent puts there, or
\* zeroes in a hole and in an extent that was never written.
Contains(d, i, j, u) ==
  \/ \E x \in 1 .. Len(i.exts) :
       LET e == i.exts[x] IN
       /\ Covers(e, j)
       /\ u = IF e.unwritten THEN Zero
              ELSE d.units[(BlockOf(e.start + (j \div BlockSize) - e.off) * BlockSize)
                             + (j % BlockSize)]
  \/ u = Zero /\ \A x \in 1 .. Len(i.exts) : ~ Covers(i.exts[x], j)

(***************************************************************************)
(* The images the reader claims to support: the inodes it follows and the  *)
(* blocks it reads lie in the first group, a short directory that is empty *)
(* does not use 8-byte inode numbers, and a file it will open is regular   *)
(* and has at most one extent, which starts at the front of the file, is   *)
(* not a preallocation for an empty one and is shorter than 4 GB; and the  *)
(* file is shorter than 2 GB, which is what read_file_length is passed.    *)
(***************************************************************************)
InFirstGroup(d, ino) ==
  /\ ino \div BlockSize < AgBlocks
  /\ (ino \div BlockSize) * BlockSize + BlockSize <= ImageSize
  /\ InodeAt(d, ino) \in Inode

SimpleDir(d, i) ==
  /\ i.count <= Len(i.ents)
  /\ i.count = 0 => i.i8count = 0
  /\ \A j \in 1 .. i.count :
       InFirstGroup(d, i.ents[j].ino) /\ i.ents[j].name # Empty

SimpleFile(i) ==
  /\ i.kind = "reg" /\ i.nextents = Len(i.exts) /\ 2 * i.size < IntWord
  /\ \/ i.size = 0 /\ Len(i.exts) = 0
     \/ /\ Len(i.exts) = 1 /\ i.exts[1].off = 0 /\ ~ i.exts[1].unwritten
        /\ 0 < i.size /\ i.size <= i.exts[1].count * BlockSize
        /\ i.exts[1].count * BlockSize < IntWord
        /\ i.exts[1].start + i.exts[1].count <= AgBlocks
        /\ (i.exts[1].start + i.exts[1].count) * BlockSize <= ImageSize

Supported(d) ==
  /\ d.seqno = 0
  /\ InFirstGroup(d, d.root)
  /\ \A a \in Address : a < AgBlocks * BlockSize /\ d.units[a] \in Inode =>
       LET i == d.units[a] IN
       /\ LocalDir(i) => SimpleDir(d, i)
       /\ i.format = "extents" /\ ~ i.ox => SimpleFile(i)

(***************************************************************************)
(* What read_file_from_disk may answer for path p and room for n units:    *)
(* the code c it returns and the memory m it leaves, blank where it was    *)
(* not written.  p.abs tells a path that begins with a slash.              *)
(***************************************************************************)
Walked(d, p, k, ino) == (k = 0 \/ p.abs) /\ Resolves(d, p.comps, k, ino)

Reaches(d, p, ino) == Walked(d, p, Len(p.comps), ino)

\* Memory m holds regular file ino, which is no larger than n, and nothing else.
Holds(d, ino, n, m) == LET i == InodeAt(d, ino) IN
  /\ i \in Inode /\ i.kind = "reg" /\ i.size <= n
  /\ \A j \in DOMAIN m : IF j < i.size THEN Contains(d, i, j, m[j]) ELSE m[j] = Blank

Gives(d, p, n, m) == \E ino \in Named(d) : Reaches(d, p, ino) /\ Holds(d, ino, n, m)

Missing(d, p) ==
  \E k \in 0 .. Len(p.comps) - 1, a \in Named(d) :
    /\ p.abs /\ Walked(d, p, k, a) /\ LocalDir(InodeAt(d, a))
    /\ \A b \in Named(d) : ~ LeadsTo(d, a, p.comps[k + 1], b)

TooLarge(d, p, n) ==
  \E ino \in Named(d) : Reaches(d, p, ino) /\ InodeAt(d, ino).size > n

\* A directory on the way is empty or has 8-byte inode numbers.
OddDir(d, p) ==
  \E k \in 0 .. Len(p.comps) - 1, a \in Named(d) :
    /\ Walked(d, p, k, a) /\ LocalDir(InodeAt(d, a))
    /\ InodeAt(d, a).count = 0 \/ InodeAt(d, a).i8count > 0

Unsupported(d, p) ==
  \/ p.comps # << >> /\ ~ p.abs
  \/ \E k \in 0 .. Len(p.comps) - 1, a \in Named(d) :
       Walked(d, p, k, a) /\ ~ LocalDir(InodeAt(d, a))
  \/ \E ino \in Named(d) : /\ Reaches(d, p, ino)
                           /\ InodeAt(d, ino).ox \/ InodeAt(d, ino).format # "extents"

Answer(d, p, n, c, m) ==
  \/ c = 0  /\ Gives(d, p, n, m)
  \/ /\ \A j \in DOMAIN m : m[j] = Blank
     /\ \/ c = -2 /\ OddDir(d, p)
        \/ c = -3 /\ Unsupported(d, p)
        \/ c = -4 /\ Missing(d, p)
        \/ c = -5 /\ TooLarge(d, p, n)

=============================================================================
