------------------------------ MODULE BmapRoot ------------------------------
(***************************************************************************)
(* The root of the block map tree inside an inode: keys and pointers in    *)
(* one buffer that is as large as they need, so that the pointers move     *)
(* whenever the number of keys does.  xfs_iroot_realloc moves them,        *)
(* xfs_bmdr_to_bmbt and xfs_bmbt_to_bmdr of xfsd_bmap_btree.c carry them   *)
(* from and to the fork of the inode on disk, where the header is shorter  *)
(* and the pointers are behind as many keys as the fork has room for.      *)
(*                                                                         *)
(* The tree has one level of blocks between the root and the leaves when   *)
(* the root overflows; how xfs_btree.c shares keys out among these blocks  *)
(* is left open as far as the root does not depend on it, and the pointer  *)
(* beside a key goes where the key goes.  A leaf is named by the key of    *)
(* its first record.  Sizes are bytes, units eight of them.                *)
(***************************************************************************)
EXTENDS Integers, SequencesExt

CONSTANTS
  Key,       \* start offsets of leaves
  Block,     \* numbers of the blocks below the root
  Leaf(_),   \* the number of the leaf that begins with a key
  BlockMax,  \* m_bmap_dmxr: keys in a block
  Whole,     \* the literal area of the inode
  Forks,     \* where an attribute fork may cut it
  Junk       \* what memory holds that was not written

LblockLen == 24  \* XFS_BTREE_LBLOCK_LEN, with XFS_BMAP_BROOT_SPACE_CALC below
BmdrLen   == 4   \* sizeof(xfs_bmdr_block_t)
Space(n)      == LblockLen + 16 * n
MaxRecs(len)  == (len - LblockLen) \div 16  \* xfs_bmbt_maxrecs, not a leaf
DMaxRecs(len) == (len - BmdrLen) \div 16    \* xfs_bmdr_maxrecs
MinRecs       == BlockMax \div 2

\* A root holds a key at least; one that is full has room in a block for its keys
\* and one more; no block that the root leads to is the last one there is.
ASSUME SizeAssumption ==
  /\ Key \subseteq Nat /\ BlockMax \in Nat
  /\ Whole \in Nat /\ Forks \subseteq 1 .. Whole
  /\ \A f \in Forks \cup {Whole} : DMaxRecs(f) > 0
  /\ DMaxRecs(Whole) < BlockMax
  /\ IsFiniteSet(Block) /\ Cardinality(Block) > DMaxRecs(Whole)

VARIABLES
  broot,   \* if_broot: [bytes, level, recs, area]; level zero is no XFS_IFBROOT
  below,   \* the blocks between the root and the leaves: sequences of keys
  ptrs,    \* the pointer beside each key in these blocks
  fork,    \* XFS_IFORK_SIZE: the room of the data fork
  dinode,  \* the fork on disk: [fork, level, recs, area]
  logged,  \* XFS_ILOG_DBROOT in ilf_fields: the root has changed since
  clean,   \* the inode has not changed since it was flushed
  entries  \* the keys of the leaves (history)

vars == <<broot, below, ptrs, fork, dinode, logged, clean, entries>>

NoRoot == [bytes |-> 0, level |-> 0, recs |-> 0, area |-> << >>]
Cap(b) == MaxRecs(b.bytes)
KeyAt(b, i) == b.area[i]
PtrAt(b, i) == b.area[Cap(b) + i]

Init == /\ broot = NoRoot
        /\ below = << >>
        /\ ptrs = << >>
        /\ fork = Whole
        /\ dinode = [fork |-> Whole, level |-> 0, recs |-> 0, area |-> << >>]
        /\ logged = FALSE
        /\ clean = FALSE
        /\ entries = {}

(***************************************************************************)
(* xfs_iroot_realloc.  A unit of the area is a key, a pointer or junk.     *)
(***************************************************************************)
Sized(b, n, area) == [b EXCEPT !.bytes = Space(n), !.area = area]

\* WRONG: the pointers stay where kmem_realloc put them.
GrowUnmoved(b, n) ==
  Sized(b, n, [u \in 1 .. 2 * n |-> IF u <= 2 * Cap(b) THEN b.area[u] ELSE Junk])

\* The old area is copied to the front and its pointers moved behind n keys.
Grow(b, n) ==
  Sized(b, n, [u \in 1 .. 2 * n |->
     IF u \in n + 1 .. n + Cap(b) THEN b.area[Cap(b) + u - n]
     ELSE IF u <= 2 * Cap(b) THEN b.area[u] ELSE Junk])

\* WRONG: the flag of a root stays when the root goes.
ShrinkFlagged(b, n) ==
  IF n = 0 THEN [NoRoot EXCEPT !.level = b.level]
  ELSE Sized(b, n, [u \in 1 .. 2 * n |->
              IF u > n THEN b.area[Cap(b) + u - n] ELSE b.area[u]])

\* n records' worth of the old area is copied, then n pointers over its end.
Shrink(b, n) ==
  IF n = 0 THEN NoRoot
  ELSE Sized(b, n, [u \in 1 .. 2 * n |->
              IF u > n THEN b.area[Cap(b) + u - n] ELSE b.area[u]])

Realloc(b, diff) ==
  IF diff = 0 THEN b
  ELSE IF diff < 0 THEN Shrink(b, Cap(b) + diff)
  ELSE IF b.bytes = 0 THEN Sized(b, diff, [u \in 1 .. 2 * diff |-> Junk])
  ELSE Grow(b, Cap(b) + diff)

(***************************************************************************)
(* The keys and pointers of the root, and its children in order.           *)
(***************************************************************************)
Put(b, K, P) ==
  [b EXCEPT !.area = [u \in DOMAIN b.area |->
     IF u <= Len(K) THEN K[u]
     ELSE IF u - Cap(b) \in DOMAIN P THEN P[u - Cap(b)] ELSE b.area[u]]]
RootKeys(b) == [i \in 1 .. b.recs |-> KeyAt(b, i)]
RootPtrs(b) == [i \in 1 .. b.recs |-> PtrAt(b, i)]
Leaves(keys) == [i \in DOMAIN keys |-> Leaf(keys[i])]

PlaceOf(s, k) == 1 + Cardinality({i \in DOMAIN s : s[i] < k})

\* The child a cursor goes through on its way to key k.
ChildOf(b, k) == LET p == PlaceOf(RootKeys(b), k + 1) IN IF p = 1 THEN 1 ELSE p - 1

\* A key and pointer enter the root (xfs_btree_insrec, after it was made unfull)
\* or leave it (xfs_btree_delrec).
Entered(b, i, k, p) ==
  LET r == IF b.recs = Cap(b) THEN Realloc(b, 1) ELSE b IN
  [Put(r, InsertAt(RootKeys(r), i, k), InsertAt(RootPtrs(r), i, p)) EXCEPT !.recs = r.recs + 1]
Left(b, i) ==
  LET r == Put(b, RemoveAt(RootKeys(b), i), RemoveAt(RootPtrs(b), i)) IN
  Realloc([r EXCEPT !.recs = b.recs - 1], -1)

Fresh == CHOOSE p \in Block \ DOMAIN below : TRUE
With(p, keys) == [q \in DOMAIN below \cup {p} |-> IF q = p THEN keys ELSE below[q]]

\* WRONG: the old root's pointers are looked for after the buffer has shrunk.
NewIrootLate(b, p) ==
  LET r == Realloc([b EXCEPT !.level = b.level + 1, !.recs = 1], 1 - b.recs) IN
  [r EXCEPT !.area = [u \in DOMAIN r.area |-> IF u = Cap(b) + 1 THEN p ELSE r.area[u]]]

\* xfs_btree_new_iroot: what the root held has gone to block p.
NewIroot(b, p) ==
  LET r == [b EXCEPT !.level = b.level + 1, !.recs = 1] IN
  Realloc(Put(r, << >>, <<p>>), 1 - b.recs)

\* WRONG: the pointers are copied to the block after the buffer has shrunk.
CopiedOutLate(b) ==
  LET r == NewIroot(b, Fresh) IN
  [k \in Range(RootKeys(b)) |->
     LET u == Cap(r) + PlaceOf(RootKeys(b), k) IN IF u \in DOMAIN r.area THEN r.area[u] ELSE Junk]

\* The pointers that go to the block with the keys of the root.
CopiedOut(b) == [k \in Range(RootKeys(b)) |-> PtrAt(b, PlaceOf(RootKeys(b), k))]

\* The pointers of the blocks when a leaf has come or gone.
PtrsAnd(ptr, k) == [x \in DOMAIN ptr \cup {k} |-> IF x = k THEN Leaf(k) ELSE ptr[x]]
PtrsBut(k) == [x \in DOMAIN ptrs \ {k} |-> ptrs[x]]

\* What touches keys, pointers or header of the root logs it (xfs_btree_log_keys,
\* xfs_btree_log_ptrs and xfs_btree_log_block without a buffer).
LogRoot == logged' = TRUE

\* xfs_btree_kill_iroot: an only child that fits comes back into the root; ptr
\* are the pointers of the blocks kids, and touched is whether b was logged.
Lifts(b, kids) == b.level > 1 /\ b.recs = 1 /\ Len(kids[PtrAt(b, 1)]) <= DMaxRecs(fork)
KillIroot(b, kids, ptr, touched) ==
  IF ~ Lifts(b, kids) THEN /\ broot' = b
                           /\ below' = kids /\ ptrs' = ptr
                           /\ logged' = (logged \/ touched)
  ELSE LET keys == kids[PtrAt(b, 1)]
           r == Realloc(b, Len(keys) - Cap(b))
       IN /\ broot' = Put([r EXCEPT !.recs = @ + Len(keys) - Cap(b), !.level = b.level - 1],
                          keys, [i \in DOMAIN keys |-> ptr[keys[i]]])
          /\ below' = [q \in DOMAIN kids \ {PtrAt(b, 1)} |-> kids[q]] /\ ptrs' = << >>
          /\ LogRoot

(***************************************************************************)
(* The file's extents.                                                     *)
(***************************************************************************)
Changed(e) == entries' = e /\ clean' = FALSE /\ UNCHANGED <<fork, dinode>>

\* xfs_bmap_extents_to_btree and xfs_bmap_btree_to_extents.
ToBtree(k) ==
  /\ broot.bytes = 0
  /\ broot' = Put([Realloc(broot, 1) EXCEPT !.level = 1, !.recs = 1], <<k>>, <<Leaf(k)>>)
  /\ LogRoot /\ Changed({k}) /\ UNCHANGED <<below, ptrs>>
ToExtents ==
  /\ broot.level = 1 /\ broot.recs = 1
  /\ broot' = Realloc(broot, -1)
  /\ Changed({}) /\ UNCHANGED <<below, ptrs, logged>>

(***************************************************************************)
(* A leaf comes or goes, never the first one: a split makes the right one  *)
(* of two, and a join takes it away.                                       *)
(***************************************************************************)
\* WRONG: a root that fills the fork is made bigger.
InsertRootOneMore(k) ==
  /\ broot.level = 1
  /\ LET i == PlaceOf(RootKeys(broot), k) IN
     IF broot.recs <= DMaxRecs(fork)
     THEN broot' = Entered(broot, i, k, Leaf(k)) /\ UNCHANGED <<below, ptrs>>
     ELSE /\ broot' = NewIroot(broot, Fresh)
          /\ below' = With(Fresh, InsertAt(RootKeys(broot), i, k))
          /\ ptrs' = PtrsAnd(CopiedOut(broot), k)
  /\ LogRoot

InsertRoot(k) ==
  /\ broot.level = 1
  /\ LET i == PlaceOf(RootKeys(broot), k) IN
     IF broot.recs < DMaxRecs(fork)
     THEN broot' = Entered(broot, i, k, Leaf(k)) /\ UNCHANGED <<below, ptrs>>
     ELSE /\ broot' = NewIroot(broot, Fresh)
          /\ below' = With(Fresh, InsertAt(RootKeys(broot), i, k))
          /\ ptrs' = PtrsAnd(CopiedOut(broot), k)
  /\ LogRoot

DeleteRoot(k) ==
  /\ broot.level = 1
  /\ KillIroot(Left(broot, PlaceOf(RootKeys(broot), k)), below, ptrs, TRUE)

\* The children l and l + 1 share keys s between them, c for the left one: one
\* key moves over to make room or to make up for one that went.
Share(l, s, c) ==
  /\ broot' = Put(broot, [RootKeys(broot) EXCEPT ![l] = s[1], ![l + 1] = s[c + 1]], << >>)
  /\ below' = [below EXCEPT ![PtrAt(broot, l)] = SubSeq(s, 1, c),
                            ![PtrAt(broot, l + 1)] = SubSeq(s, c + 1, Len(s))]
  /\ LogRoot

\* What the children l and l + 1 hold when child i holds s.
Both(l, i, s) ==
  IF l = i THEN s \o below[PtrAt(broot, l + 1)] ELSE below[PtrAt(broot, l)] \o s

InsertBelow(k) ==
  /\ broot.level = 2
  /\ LET i == ChildOf(broot, k)
         p == PtrAt(broot, i)
         s == InsertAt(below[p], PlaceOf(below[p], k), k)
         shares == {l \in {i - 1, i} \cap (1 .. broot.recs - 1) :
                      Len(Both(l, i, s)) <= 2 * BlockMax}
     IN IF Len(s) <= BlockMax THEN below' = With(p, s) /\ UNCHANGED <<broot, logged>>
        ELSE IF shares # {}
        THEN \E l \in shares :
               LET t == Both(l, i, s) IN
               Share(l, t, IF l = i THEN BlockMax ELSE Len(t) - BlockMax)
        ELSE /\ broot.recs < DMaxRecs(fork)  \* bound: no second level of blocks
             /\ \E c \in {Len(s) \div 2, Len(s) - Len(s) \div 2} :
                  /\ broot' = Entered(broot, i + 1, s[c + 1], Fresh)
                  /\ below' = [With(Fresh, SubSeq(s, c + 1, Len(s))) EXCEPT ![p] = SubSeq(s, 1, c)]
                  /\ LogRoot
  /\ ptrs' = PtrsAnd(ptrs, k)

\* The root's key is only set, and logged, when the first of a block goes.
DeleteBelow(k) ==
  /\ broot.level = 2
  /\ LET i == ChildOf(broot, k)
         p == PtrAt(broot, i)
         m == PlaceOf(below[p], k)
         s == RemoveAt(below[p], m)
         b == IF m = 1 THEN Put(broot, [RootKeys(broot) EXCEPT ![i] = Head(s)], << >>) ELSE broot
     IN IF Len(s) >= MinRecs THEN /\ broot' = b /\ below' = With(p, s) /\ ptrs' = PtrsBut(k)
                                  /\ logged' = (logged \/ m = 1)
        ELSE IF broot.recs = 1 THEN KillIroot(b, With(p, s), PtrsBut(k), m = 1)
        ELSE \E l \in {i - 1, i} \cap (1 .. broot.recs - 1) :
               LET t == Both(l, i, s) IN
               IF Len(t) > 2 * MinRecs - 1
               THEN /\ Share(l, t, IF l = i THEN MinRecs ELSE Len(t) - MinRecs)
                    /\ ptrs' = PtrsBut(k)
               ELSE KillIroot(Left(Put(broot, [RootKeys(broot) EXCEPT ![l] = t[1]], << >>), l + 1),
                      [q \in DOMAIN below \ {PtrAt(broot, l + 1)} |->
                         IF q = PtrAt(broot, l) THEN t ELSE below[q]], PtrsBut(k), TRUE)

Insert(k) == /\ entries # {} /\ k \notin entries /\ \E e \in entries : e < k
             /\ InsertRoot(k) \/ InsertBelow(k)
             /\ Changed(entries \cup {k})
Delete(k) == /\ k \in entries /\ \E e \in entries : e < k
             /\ DeleteRoot(k) \/ DeleteBelow(k)
             /\ Changed(entries \ {k})

(***************************************************************************)
(* The inode.                                                              *)
(***************************************************************************)
\* WRONG: the root is only logged where it changes.
AddAttrForkUnlogged ==
  /\ fork = Whole /\ broot.bytes > 0
  /\ \E f \in Forks :
       /\ fork' = f
       /\ IF broot.bytes <= f THEN UNCHANGED <<broot, below, ptrs, logged>>
          ELSE /\ broot.level = 1
               /\ broot' = NewIroot(broot, Fresh)
               /\ below' = With(Fresh, RootKeys(broot))
               /\ ptrs' = CopiedOut(broot)
               /\ LogRoot
  /\ clean' = FALSE /\ UNCHANGED <<dinode, entries>>

\* xfs_bmap_add_attrfork_btree: a root that does not fit any more makes room
\* (bounds: not twice, and no second level of blocks); one that fits is logged
\* all the same, since its pointers have another place on disk.
AddAttrFork ==
  /\ fork = Whole /\ broot.bytes > 0
  /\ \E f \in Forks :
       /\ fork' = f
       /\ IF broot.bytes <= f THEN UNCHANGED <<broot, below, ptrs>>
          ELSE /\ broot.level = 1
               /\ broot' = NewIroot(broot, Fresh)
               /\ below' = With(Fresh, RootKeys(broot))
               /\ ptrs' = CopiedOut(broot)
  /\ LogRoot /\ clean' = FALSE /\ UNCHANGED <<dinode, entries>>

\* The fork that xfs_bmbt_to_bmdr makes of the root.
ToDisk ==
  LET d == DMaxRecs(fork) IN
  [fork |-> fork, level |-> broot.level, recs |-> broot.recs,
   area |-> [u \in 1 .. 2 * d |->
      IF u <= broot.recs THEN KeyAt(broot, u)
      ELSE IF u - d \in 1 .. broot.recs THEN PtrAt(broot, u - d) ELSE Junk]]

\* xfs_iflush_int of an inode with a root: the size of the fork is always
\* written, what is in it by xfs_iflush_fork, if it was logged.
Flush ==
  /\ broot.bytes > 0
  /\ dinode' = IF logged THEN ToDisk ELSE [dinode EXCEPT !.fork = fork]
  /\ logged' = FALSE /\ clean' = TRUE
  /\ UNCHANGED <<broot, below, ptrs, fork, entries>>

\* WRONG: the pointers are looked for behind the keys there are.
FromDiskPacked ==
  LET d == dinode.recs IN
  Put([Realloc(NoRoot, dinode.recs) EXCEPT !.level = dinode.level, !.recs = dinode.recs],
      SubSeq(dinode.area, 1, dinode.recs), SubSeq(dinode.area, d + 1, d + dinode.recs))

\* xfs_bmdr_to_bmbt, as xfs_iformat_btree calls it.
FromDisk ==
  LET d == DMaxRecs(dinode.fork) IN
  Put([Realloc(NoRoot, dinode.recs) EXCEPT !.level = dinode.level, !.recs = dinode.recs],
      SubSeq(dinode.area, 1, dinode.recs), SubSeq(dinode.area, d + 1, d + dinode.recs))

\* The records fit the fork, or xfs_iformat_btree calls the inode corrupt; it
\* also compares the number of extents, which the model does not have.
Readable == BmdrLen + 16 * dinode.recs <= dinode.fork

\* The inode leaves memory and is read again.
Reload == /\ clean /\ Readable
          /\ broot' = FromDisk
          /\ fork' = dinode.fork
          /\ UNCHANGED <<below, ptrs, dinode, logged, clean, entries>>

Next == \/ \E k \in Key : ToBtree(k) \/ Insert(k) \/ Delete(k)
        \/ ToExtents \/ AddAttrFork \/ Flush \/ Reload

Spec == Init /\ [][Next]_vars

-----------------------------------------------------------------------------
(***************************************************************************)
(* Properties.                                                             *)
(***************************************************************************)
Unit == Key \cup {Leaf(k) : k \in Key} \cup Block \cup {Junk}

TypeOK ==
  /\ broot.bytes \in Nat /\ broot.level \in 0 .. 2 /\ broot.recs \in Nat
  /\ broot.bytes = 0 <=> broot.level = 0
  /\ broot.area \in Seq(Unit)
  /\ DOMAIN below \subseteq Block /\ \A p \in DOMAIN below : below[p] \in Seq(Key)
  /\ \A k \in DOMAIN ptrs : k \in Key /\ ptrs[k] \in Unit
  /\ fork \in Forks \cup {Whole} /\ dinode.area \in Seq(Unit)
  /\ logged \in BOOLEAN /\ clean \in BOOLEAN /\ entries \subseteq Key

\* The keys below a pointer of the root: of the leaves in its block, or of its leaf.
Under(i) == IF broot.level = 2 THEN below[PtrAt(broot, i)] ELSE <<KeyAt(broot, i)>>

\* Wherever reallocation, a new level, its removal and the trip to disk have
\* moved keys and pointers, in the root and out to the block of a new level,
\* every leaf is reached, once and in order, and each key of the root is the
\* first one below its pointer.
RootLeadsToLeaves ==
  /\ \A i \in 1 .. broot.recs :
       /\ IF broot.level = 2
          THEN /\ PtrAt(broot, i) \in DOMAIN below
               /\ \A k \in Range(Under(i)) : k \in DOMAIN ptrs /\ ptrs[k] = Leaf(k)
          ELSE PtrAt(broot, i) = Leaf(KeyAt(broot, i))
       /\ Under(i) # << >> /\ KeyAt(broot, i) = Under(i)[1]
  /\ entries = UNION {Range(Under(i)) : i \in 1 .. broot.recs}
  /\ \A i, j \in 1 .. broot.recs : \A m \in DOMAIN Under(i), n \in DOMAIN Under(j) :
       i < j \/ (i = j /\ m < n) => Under(i)[m] < Under(j)[n]

\* The buffer is as large as the records and no larger than the fork, as the
\* assertions of xfs_iroot_realloc and xfs_bmap_btree_to_extents say, so that
\* it can always be flushed: also when an attribute fork has taken room.
RootFits ==
  broot.bytes > 0 => /\ Cap(broot) = broot.recs
                     /\ broot.bytes <= fork + LblockLen - BmdrLen

\* What was flushed can be read, and is read as it was: every step that changed
\* the root, or the place of its pointers on disk, has logged it.
FlushedIsRead == clean => Readable /\ FromDisk = broot /\ dinode.fork = fork
=============================================================================
