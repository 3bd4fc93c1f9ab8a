------------------------------ MODULE ShortDir ------------------------------
(***************************************************************************)
(* A short-form directory, packed into the inode: `xfsd_dir2_sf.c' and the *)
(* operations of `xfs/xfs_dir2_sf.c' around its functions, with the one    *)
(* block that a directory grows into and shrinks back from.                *)
(*                                                                         *)
(* Inode numbers take four bytes each until one of them needs eight, and   *)
(* each entry keeps the offset it would have in a block.  Every size is    *)
(* the one of the code, in bytes.  This is the code with XFS_BIG_INUMS.    *)
(***************************************************************************)
EXTENDS Integers, SequencesExt

CONSTANTS Name,        \* the names but for . and ..
          DotDot,      \* ..
          len,         \* len[n]: bytes in n
          Ino,         \* inode numbers
          ShortMax,    \* XFS_DIR2_MAX_SHORT_INUM
          ForkSize,    \* XFS_IFORK_DSIZE: room in the inode
          BlockSize,   \* m_dirblksize
          PutsOffset,  \* whether put_unaligned_be16 stores
          NULL

ASSUMPTION DirAssumption ==
    /\ len \in [Name -> 1..255]
    /\ DotDot \notin Name
    /\ Ino \subseteq Nat
    /\ NULL \notin Ino
    /\ {ShortMax, ForkSize, BlockSize} \subseteq Nat
    /\ PutsOffset \in BOOLEAN
    /\ BlockSize % 8 = 0

VARIABLE dir
-----------------------------------------------------------------------------
\* An entry in the inode or in the block.
Entry == [name : Name, offset : 0..BlockSize, ino : Ino]

\* size is di_size; leafs and stale are the count and stale of a block's tail,
\* i8count is of the short form.
Dir == [form : {"short", "block"}, entries : Seq(Entry), i8count : Nat, parent : Ino,
        size : Nat, leafs : Nat, stale : Nat]

\* Bytes of an entry in a block: inode number, length, name and tag, rounded
\* up to eight.
Padded(bytes) == 8 * ((8 + 1 + bytes + 2 + 7) \div 8)
DataSize(n) == Padded(len[n])

\* Where . is in a block, where .. is, and where the names begin.
DotOffset == 16
DotDotOffset == DotOffset + Padded(1)
First == DotDotOffset + Padded(2)

\* An empty directory fits into the inode, its parent's number wide or not, and
\* into a block, with the two leaf entries and the tail.
ASSUMPTION RoomAssumption == ForkSize >= 2 + 8 /\ BlockSize >= First + 2 * 8 + 8

\* Bytes of an inode number, of the header and of an entry in the inode.
InoSize(i8count) == IF i8count = 0 THEN 4 ELSE 8
HdrSize(i8count) == 2 + InoSize(i8count)
EntSize(i8count, n) == 3 + len[n] + InoSize(i8count)

\* The sum of a sequence of numbers.
Total(s) ==
    LET sum[i \in 0..Len(s)] == IF i = 0 THEN 0 ELSE sum[i - 1] + s[i]
    IN sum[Len(s)]

Packed(i8count, es) ==
    HdrSize(i8count) + Total([i \in DOMAIN es |-> EntSize(i8count, es[i].name)])

IsWide(ino) == ino > ShortMax
Wide(ino) == IF IsWide(ino) THEN 1 ELSE 0
Wides(es, parent) == Total([i \in DOMAIN es |-> Wide(es[i].ino)]) + Wide(parent)

\* What get_ino finds after put_ino.
PutIno(i8count, ino) == IF i8count = 0 THEN ino % (ShortMax + 1) ELSE ino

\* What get_offset finds after put_offset. If nothing is stored that is what the
\* memory held; zero, which it often is, stands for it.
PutOffset(o) == IF PutsOffset THEN o ELSE 0

\* What follows entry i, and what precedes it.
After(e) == e.offset + DataSize(e.name)
Before(es, i) == IF i = 1 THEN First ELSE After(es[i - 1])
EndOf(es) == Before(es, Len(es) + 1)

Places(d, n) == {i \in DOMAIN d.entries : d.entries[i].name = n}
PlaceOf(d, n) == CHOOSE i \in Places(d, n) : TRUE
Names(d) == {d.entries[i].name : i \in DOMAIN d.entries}
Lookup(d, n) == IF n \in Names(d) THEN d.entries[PlaceOf(d, n)].ino
                ELSE NULL
-----------------------------------------------------------------------------
\* The inode numbers are written again, all in four bytes or all in eight; a
\* wide one that came or went is what the i8count of one stands for.
Rewrite(d, i8count, size) ==
    [d EXCEPT !.i8count = i8count, !.size = size, !.parent = PutIno(i8count, @),
              !.entries = [i \in DOMAIN @ |-> [@[i] EXCEPT !.ino = PutIno(i8count, d.entries[i].ino)]]]
ToIno8(d) == Rewrite(d, 1, d.size + (Len(d.entries) + 1) * 4)
ToIno4(d) == Rewrite(d, 0, d.size - (Len(d.entries) + 1) * 4)

\* The first place before an entry that n fits into, or the end.
Hole(es, n) ==
    LET fits == {i \in DOMAIN es : Before(es, i) + DataSize(n) <= es[i].offset}
    IN IF fits = {} THEN Len(es) + 1 ELSE Min(fits)

\* WRONG: without the leaf entry of the new name.
PickOneLess(d, n, objchange) ==
    LET es == d.entries
        used == EndOf(es) + (Len(es) + 2) * 8 + 8
        holefit == Hole(es, n) <= Len(es)
    IN IF used + (IF holefit THEN 0 ELSE DataSize(n)) > BlockSize THEN "none"
       ELSE IF objchange THEN "hard"
       ELSE IF used + DataSize(n) > BlockSize THEN "hard"
       ELSE "easy"

\* addname_pick: "won't fit", "easy", "hard", for a directory that must be
\* able to become a block with one more entry.
Pick(d, n, objchange) ==
    LET es == d.entries
        used == EndOf(es) + (Len(es) + 3) * 8 + 8
        holefit == Hole(es, n) <= Len(es)
    IN IF used + (IF holefit THEN 0 ELSE DataSize(n)) > BlockSize THEN "none"
       ELSE IF objchange THEN "hard"
       ELSE IF used + DataSize(n) > BlockSize THEN "hard"
       ELSE "easy"

\* WRONG: the count that the widening has set goes up again.
InsertCounted(d, n, ino, i, objchange, size) ==
    LET e == [name |-> n, offset |-> PutOffset(Before(d.entries, i)),
              ino |-> PutIno(d.i8count, ino)]
    IN [d EXCEPT !.entries = InsertAt(@, i, e),
                 !.i8count = IF IsWide(ino) THEN @ + 1 ELSE @,
                 !.size = size]

\* addname_easy or, at a hole, addname_hard.
Insert(d, n, ino, i, objchange, size) ==
    LET e == [name |-> n, offset |-> PutOffset(Before(d.entries, i)),
              ino |-> PutIno(d.i8count, ino)]
    IN [d EXCEPT !.entries = InsertAt(@, i, e),
                 !.i8count = IF IsWide(ino) /\ ~objchange THEN @ + 1 ELSE @,
                 !.size = size]

\* Does the first inode number come that needs eight bytes?
Widens(d, ino) == IsWide(ino) /\ d.i8count = 0

\* WRONG: the parent's inode number is forgotten.
NewSizeLess(d, n, ino) == d.size + EntSize(d.i8count, n)
                          + (IF Widens(d, ino) THEN (Len(d.entries) + 1) * 4 ELSE 0)

NewSize(d, n, ino) == d.size + EntSize(d.i8count, n)
                      + (IF Widens(d, ino) THEN (Len(d.entries) + 2) * 4 ELSE 0)

ShortFits(d, n, ino) == /\ NewSize(d, n, ino) <= ForkSize
                        /\ Pick(d, n, Widens(d, ino)) # "none"

ShortAdd(d, n, ino) ==
    LET objchange == Widens(d, ino)
        size == NewSize(d, n, ino)
    IN IF Pick(d, n, objchange) = "easy"
       THEN Insert(d, n, ino, Len(d.entries) + 1, FALSE, size)
       ELSE Insert(IF objchange THEN ToIno8(d) ELSE d, n, ino, Hole(d.entries, n),
                   objchange, size)

\* WRONG: narrowed while one wide number is left.
ShortRemoveEarly(d, n) ==
    LET i == PlaceOf(d, n)
        less == [d EXCEPT !.entries = RemoveAt(@, i),
                          !.size = @ - EntSize(d.i8count, n)]
    IN IF ~IsWide(d.entries[i].ino) THEN less ELSE ToIno4(less)

ShortRemove(d, n) ==
    LET i == PlaceOf(d, n)
        ino == d.entries[i].ino
        less == [d EXCEPT !.entries = RemoveAt(@, i),
                          !.size = @ - EntSize(d.i8count, n)]
    IN IF ~IsWide(ino) THEN less
       ELSE IF d.i8count = 1 THEN ToIno4(less)
       ELSE [less EXCEPT !.i8count = @ - 1]
-----------------------------------------------------------------------------
\* Where the names of a block end and its leaf entries begin.
LeafStart(d) == BlockSize - 8 - 8 * d.leafs

\* The unused parts between them.
Free(d) ==
    LET es == d.entries
        end(i) == IF i > Len(es) THEN LeafStart(d) ELSE es[i].offset
    IN {[i |-> i, at |-> Before(es, i), size |-> end(i) - Before(es, i)]
          : i \in {j \in 1..(Len(es) + 1) : Before(es, j) < end(j)}}

Biggest(S) == {f \in S : \A g \in S : g.size <= f.size}

\* WRONG: the leaf entry is not left room for.
SpotsTight(d, n) ==
    LET size == DataSize(n)
    IN {[i |-> f.i, at |-> f.at, leafs |-> d.leafs + 1, stale |-> d.stale]
          : f \in {g \in Free(d) : g.size >= size}}

\* xfs_dir2_block_addname: where n may go, and what becomes of the leaf
\* entries.  A stale one is used again; without any the free space next to
\* them gives eight bytes for a new one; or else all but one of the stale ones
\* are given to the name.
Spots(d, n) ==
    LET size == DataSize(n)
        last == {f \in Free(d) : f.at + f.size = LeafStart(d)}
        tight == \E f \in Biggest(Free(d)) \cap last : f.size < size + 8
        enough(S) == {f \in Biggest(S) : f.size >= size}
        start == IF last = {} THEN LeafStart(d) ELSE EndOf(d.entries)
        spot(S, leafs, stale) == {[i |-> f.i, at |-> f.at, leafs |-> leafs, stale |-> stale] : f \in S}
    IN IF d.stale = 0
       THEN IF last = {} THEN {}
            ELSE spot({f \in enough(Free(d)) : f \in last => ~tight}
                      \cup (IF tight THEN enough(Free(d) \ last) ELSE {}), d.leafs + 1, 0)
       ELSE IF enough(Free(d)) # {} THEN spot(enough(Free(d)), d.leafs, d.stale - 1)
       ELSE IF LeafStart(d) + (d.stale - 1) * 8 - start < size THEN {}
       ELSE {[i |-> Len(d.entries) + 1, at |-> start, leafs |-> d.leafs - (d.stale - 1), stale |-> 0]}

BlockAdd(d, n, ino, spot) ==
    LET e == [name |-> n, offset |-> spot.at, ino |-> ino]
    IN [d EXCEPT !.entries = InsertAt(@, spot.i, e),
                 !.leafs = spot.leafs, !.stale = spot.stale]

\* WRONG: the parent's number passes through a short one.
ToBlockNarrow(d) == [d EXCEPT !.form = "block", !.i8count = 0, !.size = BlockSize,
                              !.parent = PutIno(0, @), !.leafs = Len(d.entries) + 2]

\* xfs_dir2_sf_to_block: every entry goes to the offset it has kept.  (Its
\* failures for want of space, when di_size is zero already, are left out.)
ToBlock(d) == [d EXCEPT !.form = "block", !.i8count = 0, !.size = BlockSize,
                        !.leafs = Len(d.entries) + 2, !.stale = 0]

\* WRONG: the entries are packed as if just added.
ToShortPacked(d) ==
    LET i8count == Wides(d.entries, d.parent)
        offset[i \in Nat] == IF i <= 1 THEN First
                             ELSE offset[i - 1] + DataSize(d.entries[i - 1].name)
    IN [Rewrite(d, i8count, Packed(i8count, d.entries))
          EXCEPT !.form = "short", !.leafs = 0, !.stale = 0,
                 !.entries = [i \in DOMAIN @ |-> [@[i] EXCEPT !.offset = offset[i]]]]

\* xfs_dir2_block_to_sf, with the header of xfs_dir2_block_sfsize.
ToShort(d) ==
    LET i8count == Wides(d.entries, d.parent)
    IN [Rewrite(d, i8count, Packed(i8count, d.entries))
          EXCEPT !.form = "short", !.leafs = 0, !.stale = 0,
                 !.entries = [i \in DOMAIN @ |-> [@[i] EXCEPT !.offset = PutOffset(d.entries[i].offset)]]]

\* WRONG: a stale leaf less.
BlockRemoveFresh(d, n) ==
    LET less == [d EXCEPT !.entries = RemoveAt(@, PlaceOf(d, n)), !.stale = @ - 1]
    IN IF Packed(Wides(less.entries, less.parent), less.entries) > ForkSize THEN less
       ELSE ToShort(less)

\* A block goes back into the inode as soon as a name less lets it.
BlockRemove(d, n) ==
    LET less == [d EXCEPT !.entries = RemoveAt(@, PlaceOf(d, n)), !.stale = @ + 1]
    IN IF Packed(Wides(less.entries, less.parent), less.entries) > ForkSize THEN less
       ELSE ToShort(less)
-----------------------------------------------------------------------------
\* xfs_dir2_sf_create.
Init == \E pino \in Ino :
          LET i8count == IF IsWide(pino) THEN 1 ELSE 0
          IN dir = [form |-> "short", entries |-> <<>>, i8count |-> i8count,
                    parent |-> PutIno(i8count, pino), size |-> HdrSize(i8count),
                    leafs |-> 0, stale |-> 0]

\* xfs_dir2_sf_addname or, for a block, its counterpart, after a lookup that
\* failed. A call without a reservation that finds no room changes nothing; a
\* directory that outgrows one block is not followed, nor, where offsets are not
\* stored, one that outgrows the inode: its entries would be copied over each
\* other and over the header of the block.
AddName(n, ino) ==
    /\ n \notin Names(dir)
    /\ IF dir.form = "short" /\ ShortFits(dir, n, ino)
       THEN dir' = ShortAdd(dir, n, ino)
       ELSE /\ dir.form = "short" => PutsOffset
            /\ LET d == IF dir.form = "short" THEN ToBlock(dir) ELSE dir
               IN \E spot \in Spots(d, n) : dir' = BlockAdd(d, n, ino, spot)

RemoveName(n) ==
    /\ n \in Names(dir)
    /\ dir' = IF dir.form = "short" THEN ShortRemove(dir, n) ELSE BlockRemove(dir, n)

\* What a name or .. stands for is changed, in place.
Put(d, n, ino) ==
    IF n = DotDot THEN [d EXCEPT !.parent = ino]
    ELSE [d EXCEPT !.entries = [i \in DOMAIN @ |-> IF @[i].name = n
                                                   THEN [@[i] EXCEPT !.ino = ino] ELSE @[i]]]

\* The rest of xfs_dir2_sf_replace, once the numbers are wide enough.
ReplaceShort(d, n, ino, i8elevated) ==
    LET old == IF n = DotDot THEN d.parent ELSE Lookup(d, n)
        put == Put(d, n, PutIno(d.i8count, ino))
    IN IF n # DotDot /\ n \notin Names(d) THEN IF i8elevated THEN ToIno4(d) ELSE d
       ELSE IF IsWide(old) /\ ~IsWide(ino)
            THEN IF d.i8count = 1 THEN ToIno4(put) ELSE [put EXCEPT !.i8count = @ - 1]
       ELSE IF ~IsWide(old) /\ IsWide(ino) /\ ~i8elevated THEN [put EXCEPT !.i8count = @ + 1]
       ELSE put

\* Too many bytes for the inode once every number is wide?
Outgrows(d, ino) == Widens(d, ino) /\ d.size + (Len(d.entries) + 1) * 4 > ForkSize

\* The caller gives a number that is not the old one.
Replace(n, ino) ==
    /\ ino # (IF n = DotDot THEN dir.parent ELSE Lookup(dir, n))
    /\ dir.form = "short" /\ Outgrows(dir, ino) => PutsOffset
    /\ dir' = IF dir.form = "block" THEN Put(dir, n, ino)
              ELSE IF Outgrows(dir, ino) THEN Put(ToBlock(dir), n, ino)
              ELSE IF Widens(dir, ino) THEN ReplaceShort(ToIno8(dir), n, ino, TRUE)
              ELSE ReplaceShort(dir, n, ino, FALSE)

Next == \/ \E n \in Name, ino \in Ino : AddName(n, ino)
        \/ \E n \in Name : RemoveName(n)
        \/ \E n \in Name \cup {DotDot}, ino \in Ino : Replace(n, ino)

Spec == Init /\ [][Next]_dir
-----------------------------------------------------------------------------
\* The fields hold what they may.
TypeOK == dir \in Dir

\* The offsets ascend with room for each entry between them, and the leaf
\* entries of the block fit behind: the first and the last assertion of
\* xfs_dir2_sf_check, and of a block that its entries stay off its leafs.
OffsetsApart ==
    LET es == dir.entries
    IN /\ \A i \in DOMAIN es : es[i].offset >= Before(es, i)
       /\ IF dir.form = "short" THEN EndOf(es) + (Len(es) + 2) * 8 + 8 <= BlockSize
          ELSE EndOf(es) <= LeafStart(dir)

\* i8count is the number of inode numbers that need eight bytes, that of the
\* parent included, and the entries parsed with it end at di_size: the other
\* assertions of xfs_dir2_sf_check.
CountsMatchBytes ==
    dir.form = "short" => /\ dir.i8count = Wides(dir.entries, dir.parent)
                          /\ dir.size = Packed(dir.i8count, dir.entries)

\* What is added, widened or brought back from a block stays in the room the
\* inode has, counted entry by entry.
StaysInline == dir.form = "short" => Packed(dir.i8count, dir.entries) <= ForkSize

\* As long as a name is there its offset does not change, through widening,
\* narrowing and both conversions: a cookie stays good.
OffsetsStay == [][\A i \in DOMAIN dir.entries, j \in DOMAIN dir'.entries :
                     dir.entries[i].name = dir'.entries[j].name
                        => dir.entries[i].offset = dir'.entries[j].offset]_dir

\* Seen by name, an operation changes the one entry it is made for.
Directory == INSTANCE Directory WITH entry <- [n \in Name |-> Lookup(dir, n)],
                                     parent <- dir.parent
ImplementsDirectory == Directory!Spec
=============================================================================
