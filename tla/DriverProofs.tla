---------------------------- MODULE DriverProofs ----------------------------
(***************************************************************************)
(* Theorems about the reader, for every image, caller, path and room, and  *)
(* about the driver around it.                                             *)
(***************************************************************************)
EXTENDS Driver, TLAPS

(***************************************************************************)
(* Images: addresses in the first group, what a supported image says of    *)
(* the inodes it names, and how a path resolves.                           *)
(***************************************************************************)
LEMMA ModInWord == ASSUME NEW x \in Int, NEW w \in Nat \ {0} PROVE x % w \in 0 .. w - 1
OBVIOUS

LEMMA DivMod == ASSUME NEW x \in Nat, NEW w \in Nat \ {0}
                PROVE  x \div w \in Nat /\ x % w \in 0 .. w - 1 /\ x = (x \div w) * w + (x % w)
OBVIOUS

LEMMA DivSmall == ASSUME NEW x \in Nat, NEW w \in Nat, x < w
                PROVE  x \div w = 0 /\ x % w = x
OBVIOUS

LEMMA TimesMonotone == ASSUME NEW x \in Nat, NEW y \in Nat, NEW w \in Nat, x <= y
                       PROVE  x * w \in Nat /\ y * w \in Nat /\ x * w <= y * w
OBVIOUS

LEMMA TimesSuccessor == ASSUME NEW x \in Nat, NEW w \in Nat PROVE (x + 1) * w = x * w + w
OBVIOUS

\* A block of the first group lies where its number says.
LEMMA FirstGroupBlock ==
  ASSUME NEW b \in Nat, b < AgBlocks
  PROVE  BlockOf(b) = b
<1>1. b < AgSpan /\ AgSpan \in Nat
  BY ImageAssumption
<1>2. b \div AgSpan = 0 /\ b % AgSpan = b
  BY <1>1, DivSmall
<1> QED
  BY <1>2, ImageAssumption DEF BlockOf

\* The block that holds an inode of the first group, and its place in it.
LEMMA InodePlace ==
  ASSUME NEW d \in Image, NEW ino \in Nat, InFirstGroup(d, ino)
  PROVE  /\ ino % BlockSize \in 0 .. BlockSize - 1
         /\ InodeAddr(ino) = (ino \div BlockSize) * BlockSize + (ino % BlockSize)
         /\ InodeAddr(ino) \in Address /\ InodeAddr(ino) < AgBlocks * BlockSize
         /\ (ino \div BlockSize) * BlockSize \in Nat
         /\ \A j \in 0 .. BlockSize - 1 : (ino \div BlockSize) * BlockSize + j \in Address
<1> DEFINE b == ino \div BlockSize
           m == ino % BlockSize
<1>1. b \in Nat /\ m \in 0 .. BlockSize - 1
  BY ImageAssumption, DivMod
<1>2. b < AgBlocks /\ b * BlockSize + BlockSize <= ImageSize
  BY DEF InFirstGroup
<1>3. InodeAddr(ino) = BlockOf(b) * BlockSize + m
  BY DEF InodeAddr
<1> HIDE DEF b, m
<1>4. InodeAddr(ino) = b * BlockSize + m
  BY <1>1, <1>2, <1>3, FirstGroupBlock
<1>5. b * BlockSize \in Nat /\ (b + 1) * BlockSize <= AgBlocks * BlockSize
  BY <1>1, <1>2, TimesMonotone, ImageAssumption
<1>6. b * BlockSize + BlockSize <= AgBlocks * BlockSize
  BY <1>1, <1>5, TimesSuccessor, ImageAssumption
<1> DEFINE start == b * BlockSize
<1>7. start \in Nat /\ start + BlockSize <= AgBlocks * BlockSize
      /\ start + BlockSize <= ImageSize /\ AgBlocks * BlockSize \in Nat
      /\ InodeAddr(ino) = start + m
  BY <1>2, <1>4, <1>5, <1>6, TimesMonotone, ImageAssumption
<1> HIDE DEF start
<1>8. /\ InodeAddr(ino) \in Address /\ InodeAddr(ino) < AgBlocks * BlockSize
      /\ \A j \in 0 .. BlockSize - 1 : start + j \in Address
  BY <1>1, <1>7, ImageAssumption DEF Address
<1> QED
  BY <1>1, <1>7, <1>8 DEF b, m, start

LEMMA SupportedInode ==
  ASSUME NEW d \in Image, Supported(d), NEW ino \in Nat, InFirstGroup(d, ino)
  PROVE  LET i == InodeAt(d, ino) IN
         /\ i \in Inode
         /\ LocalDir(i) => SimpleDir(d, i)
         /\ i.format = "extents" /\ ~ i.ox => SimpleFile(i)
<1>1. InodeAddr(ino) \in Address /\ InodeAddr(ino) < AgBlocks * BlockSize
  BY InodePlace
<1>2. InodeAt(d, ino) = d.units[InodeAddr(ino)] /\ InodeAt(d, ino) \in Inode
  BY DEF InodeAt, InFirstGroup
<1> QED
  BY <1>1, <1>2 DEF Supported

LEMMA LiveIsNamed ==
  ASSUME NEW d \in Image, NEW ino \in Nat, InFirstGroup(d, ino), NEW e \in Live(InodeAt(d, ino))
  PROVE  e.ino \in Named(d)
<1>1. InodeAddr(ino) \in {b \in Address : d.units[b] \in Inode}
  BY InodePlace DEF InFirstGroup, InodeAt
<1> QED
  BY <1>1 DEF Named, InodeAt

LEMMA ResolvesRoot ==
  ASSUME NEW d, NEW cs PROVE Resolves(d, cs, 0, d.root) /\ d.root \in Named(d)
<1>1. d.root \in Named(d)
  BY DEF Named
<1> DEFINE way == [j \in 0 .. 0 |-> d.root]
<1>2. way \in [0 .. 0 -> Named(d)] /\ way[0] = d.root /\ \A j \in 1 .. 0 : LeadsTo(d, way[j-1], cs[j], way[j])
  BY <1>1
<1> QED
  BY <1>1, <1>2 DEF Resolves

LEMMA ResolvesStep ==
  ASSUME NEW d, NEW cs, NEW k \in Nat, NEW p, NEW q \in Named(d),
         Resolves(d, cs, k, p), LeadsTo(d, p, cs[k + 1], q)
  PROVE  Resolves(d, cs, k + 1, q)
<1>1. PICK way \in [0 .. k -> Named(d)] :
        /\ way[0] = d.root /\ way[k] = p
        /\ \A j \in 1 .. k : LeadsTo(d, way[j-1], cs[j], way[j])
  BY DEF Resolves
<1> DEFINE longer == [j \in 0 .. k + 1 |-> IF j = k + 1 THEN q ELSE way[j]]
<1>2. longer \in [0 .. k + 1 -> Named(d)] /\ longer[0] = d.root /\ longer[k + 1] = q
  BY <1>1
<1>3. ASSUME NEW j \in 1 .. k + 1 PROVE LeadsTo(d, longer[j-1], cs[j], longer[j])
  <2>1. CASE j = k + 1
    <3>1. longer[j - 1] = p /\ longer[j] = q
      BY <1>1, <2>1
    <3> QED
      BY <2>1, <3>1
  <2>2. CASE j # k + 1
    <3>1. j \in 1 .. k /\ longer[j - 1] = way[j - 1] /\ longer[j] = way[j]
      BY <2>2
    <3> QED
      BY <1>1, <3>1
  <2> QED
    BY <2>1, <2>2
<1> HIDE DEF longer
<1> QED
  BY <1>2, <1>3 DEF Resolves

\* The units of a file with one extent at its front are the units of the image
\* from the first block of the extent on.
LEMMA OneExtentContents ==
  ASSUME NEW d \in Image, NEW i \in Inode, SimpleFile(i), Len(i.exts) = 1,
         NEW j \in Nat, j < i.size
  PROVE  /\ i.exts[1].start * BlockSize + j \in Address
         /\ Contains(d, i, j, d.units[i.exts[1].start * BlockSize + j])
<1> DEFINE e == i.exts[1]
           b == j \div BlockSize
           m == j % BlockSize
<1>1. e \in Extent
  BY DEF Inode
<1>2. e.start \in Nat /\ e.count \in Nat /\ e.off = 0 /\ ~ e.unwritten /\ i.size \in Nat
  BY <1>1 DEF Extent, SimpleFile, Inode
<1>3. /\ i.size <= e.count * BlockSize /\ e.start + e.count <= AgBlocks
      /\ (e.start + e.count) * BlockSize <= ImageSize
  BY DEF SimpleFile
<1>4. b \in Nat /\ m \in 0 .. BlockSize - 1 /\ j = b * BlockSize + m
  BY ImageAssumption, DivMod
<1>5. e.start * BlockSize \in Nat
      /\ (e.start + e.count) * BlockSize = e.start * BlockSize + e.count * BlockSize
      /\ (e.start + b) * BlockSize = e.start * BlockSize + b * BlockSize
      /\ b * BlockSize \in Nat /\ e.count * BlockSize \in Nat
  <2> DEFINE u == e.start
             v == e.count
  <2>1. u \in Nat /\ v \in Nat /\ b \in Nat /\ BlockSize \in Nat
    BY <1>2, <1>4, ImageAssumption
  <2> HIDE DEF u, v, b
  <2>2. u * BlockSize \in Nat /\ (u + v) * BlockSize = u * BlockSize + v * BlockSize
        /\ (u + b) * BlockSize = u * BlockSize + b * BlockSize
        /\ b * BlockSize \in Nat /\ v * BlockSize \in Nat
    BY <2>1
  <2> QED
    BY <2>2 DEF u, v, b
<1>6. b < e.count
  <2>1. SUFFICES ASSUME e.count <= b PROVE FALSE
    BY <1>2, <1>4
  <2>2. e.count * BlockSize <= b * BlockSize
    BY <1>2, <1>4, <2>1, TimesMonotone, ImageAssumption
  <2> QED
    BY <1>2, <1>3, <1>4, <1>5, <2>2, ImageAssumption
<1>7. Covers(e, j)
  BY <1>2, <1>4, <1>6 DEF Covers
<1>8. BlockOf(e.start + b - e.off) = e.start + b
  <2>1. e.start + b - e.off = e.start + b /\ e.start + b \in Nat /\ e.start + b < AgBlocks
    BY <1>2, <1>3, <1>4, <1>6, ImageAssumption
  <2> QED
    BY <2>1, FirstGroupBlock
<1>9. BlockOf(e.start + b - e.off) * BlockSize + m = e.start * BlockSize + j
  BY <1>2, <1>4, <1>5, <1>8, ImageAssumption
<1>10. e.start * BlockSize + j \in Address
  BY <1>2, <1>3, <1>5, ImageAssumption DEF Address
<1>11. 1 \in 1 .. Len(i.exts)
  OBVIOUS
<1> QED
  BY <1>2, <1>7, <1>9, <1>10, <1>11 DEF Contains

(***************************************************************************)
(* The fields of every caller hold what they may.                          *)
(***************************************************************************)
LEMMA ConstantsInode == ZeroInode \in Inode /\ ZeroEntry \in Entry /\ ZeroExtent \in Extent
BY ImageAssumption DEF ZeroInode, ZeroEntry, ZeroExtent, Inode, Entry, Extent

LEMMA StrayTyped == StrayEntries \subseteq Entry /\ StrayExtents \subseteq Extent
<1>1. \A g \in Garbage : g.ents \in Seq(Entry) /\ g.exts \in Seq(Extent)
  BY CallerAssumption DEF Inode
<1>2. \A g \in Garbage : /\ \A x \in 1 .. Len(g.ents) : g.ents[x] \in Entry
                         /\ \A x \in 1 .. Len(g.exts) : g.exts[x] \in Extent
  <2> TAKE g \in Garbage
  <2>1. g.ents \in Seq(Entry) /\ g.exts \in Seq(Extent)
    BY <1>1
  <2> DEFINE ents == g.ents
             exts == g.exts
  <2> HIDE DEF ents, exts
  <2>2. ents \in Seq(Entry) => \A x \in 1 .. Len(ents) : ents[x] \in Entry
    OBVIOUS
  <2>3. exts \in Seq(Extent) => \A x \in 1 .. Len(exts) : exts[x] \in Extent
    OBVIOUS
  <2> QED
    BY <2>1, <2>2, <2>3 DEF ents, exts
<1> QED
  BY <1>2, ConstantsInode DEF StrayEntries, StrayExtents

LEMMA AtRawInode ==
  ASSUME TypeOK, NEW r \in Caller
  PROVE  AtRaw(r) \subseteq Inode
BY ConstantsInode, CallerAssumption DEF AtRaw, Parse

-----------------------------------------------------------------------------
(***************************************************************************)
(* Type correctness.  Every action but the first two goes through Goto and *)
(* Locals or Return, so what is left is that the new locals are a frame.   *)
(***************************************************************************)
LEMMA GotoType ==
  ASSUME TypeOK, NEW r \in Caller, NEW l \in Labels, Goto(r, l)
  PROVE  pc' \in [Caller -> Labels]
BY DEF TypeOK, Goto

LEMMA LocalsType ==
  ASSUME TypeOK, NEW r \in Caller, NEW f \in Frame, Locals(r, f)
  PROVE  frame' \in [Caller -> Frame]
BY DEF TypeOK, Locals

LEMMA ReturnType ==
  ASSUME TypeOK, NEW r \in Caller, NEW c \in Code, Return(r, c)
  PROVE  TypeOK'
<1>1. pc' \in [Caller -> Labels]
  BY GotoType DEF Return, Labels
<1>2. frame[r] \in Frame
  BY DEF TypeOK
<1>3. [frame[r] EXCEPT !.raw = 0, !.cur = ZeroInode, !.tot = 0, !.idx = 0,
                       !.irec = ZeroExtent, !.size = 0, !.last = FALSE] \in Frame
  BY <1>2, ConstantsInode DEF Frame
<1>4. frame' \in [Caller -> Frame]
  BY <1>3, LocalsType DEF Return
<1> QED
  BY <1>1, <1>4 DEF TypeOK, Return, shared

LEMMA FillType ==
  ASSUME TypeOK, NEW D, NEW V, Unit \subseteq V, NEW dst \in [D -> V], D \subseteq Nat,
         NEW to \in Nat, NEW n \in Nat
  PROVE  Fill(dst, to, n) \in [D -> V]
BY ImageAssumption DEF TypeOK, Fill, Image, Address

LEMMA ArriveType ==
  ASSUME TypeOK, NEW r \in Caller, NEW n \in Nat, NEW m \in 0 .. n, Arrive(r, n, m)
  PROVE  pos' \in Nat /\ tainted' \in [Caller -> BOOLEAN]
<1>1. pos' \in Nat
  <2>1. pos \in Nat /\ ImageSize \in Nat /\ m \in Nat
    BY ImageAssumption DEF TypeOK
  <2> QED
    BY <2>1 DEF Arrive
<1>2. tainted' \in [Caller -> BOOLEAN]
  BY Zenon DEF TypeOK, Arrive
<1> QED
  BY <1>1, <1>2

LEMMA SeekType ==
  ASSUME TypeOK, NEW r \in Caller, NEW there \in Nat, NEW to \in Labels, Seek(r, there, to)
  PROVE  TypeOK'
<1>1. pc' \in [Caller -> Labels]
  BY GotoType DEF Seek
<1> QED
  BY <1>1 DEF TypeOK, Seek

LEMMA TypeInit == Init => TypeOK
<1> SUFFICES ASSUME Init PROVE TypeOK
  OBVIOUS
<1>1. Zero \in Unit
  BY ImageAssumption DEF Unit
<1>2. frame \in [Caller -> Frame]
  BY ConstantsInode DEF Init, Frame
<1> QED
  BY <1>1, <1>2 DEF Init, TypeOK, Labels

LEMMA CallType ==
  ASSUME TypeOK, NEW r \in Caller, InitReadFile(r) \/ Call(r)
  PROVE  TypeOK'
<1>1. CASE InitReadFile(r)
  <2>1. pc' \in [Caller -> Labels]
    BY <1>1, GotoType DEF InitReadFile, Labels
  <2>2. disk.root \in Nat
    BY ImageAssumption DEF TypeOK, Image
  <2> QED
    BY <1>1, <2>1, <2>2 DEF InitReadFile, TypeOK
<1>2. CASE Call(r)
  <2>1. pc' \in [Caller -> Labels]
    BY <1>2, GotoType DEF Call, Labels
  <2>2. PICK p \in Path, n \in Room :
          Locals(r, [path |-> p, n |-> n, k |-> 0, last |-> FALSE,
                     next_ino |-> rootino, raw |-> 0, cur |-> ZeroInode,
                     tot |-> 0, idx |-> 0, irec |-> ZeroExtent, size |-> n])
    BY <1>2 DEF Call
  <2>3. [path |-> p, n |-> n, k |-> 0, last |-> FALSE,
         next_ino |-> rootino, raw |-> 0, cur |-> ZeroInode,
         tot |-> 0, idx |-> 0, irec |-> ZeroExtent, size |-> n] \in Frame
    BY CallerAssumption, ConstantsInode DEF Frame, TypeOK
  <2>4. frame' \in [Caller -> Frame]
    BY <2>2, <2>3, LocalsType
  <2> QED
    BY <1>2, <2>1, <2>4 DEF Call, TypeOK, shared
<1> QED
  BY <1>1, <1>2

LEMMA InodeType ==
  ASSUME TypeOK, NEW r \in Caller,
         SeekInode(r) \/ ReadBlock(r) \/ ResetBuf(r) \/ SkipToInode(r) \/ TakeInode(r) \/ CopyInode(r)
  PROVE  TypeOK'
<1>0. frame[r] \in Frame /\ disk \in Image
  BY ImageAssumption DEF TypeOK
<1>1. CASE SeekInode(r)
  <2>1. InodeBlock(frame[r].next_ino) * BlockSize \in Nat
    <3>1. frame[r].next_ino \in Nat /\ disk.seqno \in Nat
      BY <1>0 DEF Frame, Image
    <3>2. frame[r].next_ino \div BlockSize \in Nat
      BY <3>1, ImageAssumption, DivMod
    <3>3. AgBlocks * disk.seqno \in Nat
      BY <3>1, ImageAssumption
    <3> QED
      BY <3>2, <3>3, ImageAssumption DEF InodeBlock
  <2> QED
    BY <1>1, <2>1, SeekType DEF SeekInode, Labels
<1>2. CASE ReadBlock(r)
  <2>1. pc' \in [Caller -> Labels]
    BY <1>2, GotoType DEF ReadBlock, Labels
  <2>2. PICK m \in 0 .. BlockSize : Arrive(r, BlockSize, m) /\ block_buf' = Fill(block_buf, 0, m)
    BY <1>2 DEF ReadBlock
  <2>3. pos' \in Nat /\ tainted' \in [Caller -> BOOLEAN]
    BY <2>2, ArriveType, ImageAssumption
  <2>4. block_buf' \in [Buffer -> Unit]
    <3>1. Buffer \subseteq Nat /\ m \in Nat /\ block_buf \in [Buffer -> Unit]
      BY ImageAssumption DEF Buffer, TypeOK
    <3>2. Fill(block_buf, 0, m) \in [Buffer -> Unit]
      BY <3>1, FillType
    <3> QED
      BY <2>2, <3>2
  <2> QED
    BY <1>2, <2>1, <2>3, <2>4 DEF ReadBlock, TypeOK
<1>3. CASE ResetBuf(r)
  BY <1>3, GotoType DEF ResetBuf, TypeOK, Labels
<1>4. CASE SkipToInode(r)
  <2>1. frame[r].next_ino % BlockSize \in Nat
    <3>1. frame[r].next_ino \in Nat
      BY <1>0 DEF Frame
    <3> QED
      BY <3>1, ImageAssumption, DivMod
  <2>2. pc' \in [Caller -> Labels]
    BY <1>4, GotoType DEF SkipToInode, Labels
  <2> QED
    BY <1>4, <2>1, <2>2 DEF SkipToInode, TypeOK
<1>5. CASE TakeInode(r)
  <2>1. [frame[r] EXCEPT !.raw = block_bufp] \in Frame
    BY <1>0 DEF Frame, TypeOK
  <2>2. frame' \in [Caller -> Frame] /\ pc' \in [Caller -> Labels]
    BY <1>5, <2>1, LocalsType, GotoType DEF TakeInode, Labels
  <2> QED
    BY <1>5, <2>2 DEF TakeInode, TypeOK
<1>6. CASE CopyInode(r)
  <2>1. CASE Return(r, -3)
    BY <2>1, ReturnType DEF Code
  <2>2. ASSUME NEW i \in AtRaw(r), Locals(r, [frame[r] EXCEPT !.cur = i]),
               Goto(r, IF frame[r].last THEN "open" ELSE "header"),
               UNCHANGED <<shared, mem, rc, tainted>>
        PROVE  TypeOK'
    <3>1. [frame[r] EXCEPT !.cur = i] \in Frame
      BY <1>0, AtRawInode DEF Frame
    <3>2. frame' \in [Caller -> Frame] /\ pc' \in [Caller -> Labels]
      BY <2>2, <3>1, LocalsType, GotoType DEF Labels
    <3> QED
      BY <2>2, <3>2 DEF TypeOK, shared
  <2> QED
    BY <1>6, <2>1, <2>2 DEF CopyInode
<1> QED
  BY <1>1, <1>2, <1>3, <1>4, <1>5, <1>6

LEMMA PathType ==
  ASSUME TypeOK, NEW r \in Caller, NextComponent(r) \/ ReadHeader(r) \/ ScanEntry(r)
  PROVE  TypeOK'
<1>0. frame[r] \in Frame
  BY DEF TypeOK
<1>1. CASE NextComponent(r)
  <2>1. CASE Return(r, -3)
    BY <2>1, ReturnType DEF Code
  <2>2. ASSUME NEW b \in BOOLEAN, Goto(r, "seek"), Locals(r, [frame[r] EXCEPT !.last = b]),
               UNCHANGED <<shared, mem, rc, tainted>>
        PROVE  TypeOK'
    <3>1. [frame[r] EXCEPT !.last = b] \in Frame
      BY <1>0 DEF Frame
    <3>2. frame' \in [Caller -> Frame] /\ pc' \in [Caller -> Labels]
      BY <2>2, <3>1, LocalsType, GotoType DEF Labels
    <3> QED
      BY <2>2, <3>2 DEF TypeOK, shared
  <2> QED
    BY <1>1, <2>1, <2>2 DEF NextComponent
<1>2. CASE ReadHeader(r)
  <2>1. CASE Return(r, -2)
    BY <2>1, ReturnType DEF Code
  <2>2. ASSUME NEW i \in AtRaw(r), Goto(r, "scan"),
               Locals(r, [frame[r] EXCEPT !.tot = i.count + i.i8count, !.idx = 1]),
               UNCHANGED <<shared, mem, rc, tainted>>
        PROVE  TypeOK'
    <3>1. i.count + i.i8count \in Nat
      BY AtRawInode DEF Inode
    <3>2. [frame[r] EXCEPT !.tot = i.count + i.i8count, !.idx = 1] \in Frame
      BY <1>0, <3>1 DEF Frame
    <3>3. frame' \in [Caller -> Frame] /\ pc' \in [Caller -> Labels]
      BY <2>2, <3>2, LocalsType, GotoType DEF Labels
    <3> QED
      BY <2>2, <3>3 DEF TypeOK, shared
  <2> QED
    BY <1>2, <2>1, <2>2 DEF ReadHeader
<1>3. CASE ScanEntry(r)
  <2>1. CASE Return(r, -4)
    BY <2>1, ReturnType DEF Code
  <2>2. ASSUME NEW ino \in Nat, Goto(r, "next"),
               Locals(r, [frame[r] EXCEPT !.k = @ + 1, !.next_ino = ino]),
               UNCHANGED <<shared, mem, rc, tainted>>
        PROVE  TypeOK'
    <3>0. frame[r].k + 1 \in Nat
      BY <1>0 DEF Frame
    <3>1. [frame[r] EXCEPT !.k = @ + 1, !.next_ino = ino] \in Frame
      BY <1>0, <3>0 DEF Frame
    <3>2. frame' \in [Caller -> Frame] /\ pc' \in [Caller -> Labels]
      BY <2>2, <3>1, LocalsType, GotoType DEF Labels
    <3> QED
      BY <2>2, <3>2 DEF TypeOK, shared
  <2>3. ASSUME frame[r].tot # 0,
               Locals(r, [frame[r] EXCEPT !.tot = @ - 1, !.idx = @ + 1]),
               UNCHANGED <<shared, pc, mem, rc, tainted>>
        PROVE  TypeOK'
    <3>0. frame[r].tot - 1 \in Nat /\ frame[r].idx + 1 \in Nat
      BY <1>0, <2>3 DEF Frame
    <3>1. [frame[r] EXCEPT !.tot = @ - 1, !.idx = @ + 1] \in Frame
      BY <1>0, <3>0 DEF Frame
    <3>2. frame' \in [Caller -> Frame]
      BY <2>3, <3>1, LocalsType
    <3> QED
      BY <2>3, <3>2 DEF TypeOK, shared
  <2>4. frame[r].next_ino \in Nat
    BY <1>0 DEF Frame
  <2>5. \A i \in AtRaw(r) : \A e \in EntryAt(i, frame[r].idx) : e.ino \in Nat
    <3>1. ASSUME NEW i \in AtRaw(r) PROVE EntryAt(i, frame[r].idx) \subseteq Entry
      <4>1. i.ents \in Seq(Entry) /\ frame[r].idx \in Nat
        BY <1>0, AtRawInode DEF Inode, Frame
      <4> QED
        BY <4>1, StrayTyped DEF EntryAt
    <3> QED
      BY <3>1 DEF Entry
  <2> QED
    BY <1>3, <2>1, <2>2, <2>3, <2>4, <2>5 DEF ScanEntry
<1> QED
  BY <1>1, <1>2, <1>3

LEMMA AsSizeNat == ASSUME NEW x \in Nat PROVE AsSize(x) \in Nat
<1> DEFINE y == x - IntWord
<1>1. y \in Int
  BY ImageAssumption
<1> HIDE DEF y
<1>2. y % Word \in Nat
  BY <1>1, ModInWord, CallerAssumption
<1> QED
  BY <1>2 DEF AsSize, y

LEMMA FileType ==
  ASSUME TypeOK, NEW r \in Caller, OpenFile(r) \/ ReadExtent(r) \/ SeekData(r) \/ ReadData(r)
  PROVE  TypeOK'
<1>0. frame[r] \in Frame
  BY DEF TypeOK
<1>1. CASE OpenFile(r)
  <2>1. CASE Return(r, -5)
    BY <2>1, ReturnType DEF Code
  <2>2. ASSUME NEW i \in AtRaw(r), Goto(r, "extent"),
               Locals(r, [frame[r] EXCEPT !.size = i.size, !.tot = i.nextents, !.idx = 1]),
               UNCHANGED <<shared, mem, rc, tainted>>
        PROVE  TypeOK'
    <3>1. i.size \in Nat /\ i.nextents \in Nat
      BY AtRawInode DEF Inode
    <3>2. [frame[r] EXCEPT !.size = i.size, !.tot = i.nextents, !.idx = 1] \in Frame
      BY <1>0, <3>1 DEF Frame
    <3>3. frame' \in [Caller -> Frame] /\ pc' \in [Caller -> Labels]
      BY <2>2, <3>2, LocalsType, GotoType DEF Labels
    <3> QED
      BY <2>2, <3>3 DEF TypeOK, shared
  <2> QED
    BY <1>1, <2>1, <2>2 DEF OpenFile, Opened
<1>2. CASE ReadExtent(r)
  <2>1. CASE Return(r, 0)
    BY <2>1, ReturnType DEF Code
  <2>2. ASSUME NEW i \in AtRaw(r), NEW x \in ExtentAt(i, frame[r].idx),
               frame[r].tot # 0, Goto(r, "dseek"),
               Locals(r, [frame[r] EXCEPT !.irec = x, !.tot = @ - 1, !.idx = @ + 1]),
               UNCHANGED <<shared, mem, rc, tainted>>
        PROVE  TypeOK'
    <3>1. i.exts \in Seq(Extent) /\ frame[r].idx \in Nat
      BY <1>0, AtRawInode DEF Inode, Frame
    <3>2. x \in Extent
      BY <3>1, StrayTyped DEF ExtentAt
    <3>3. frame[r].tot - 1 \in Nat /\ frame[r].idx + 1 \in Nat
      BY <1>0, <2>2 DEF Frame
    <3>4. [frame[r] EXCEPT !.irec = x, !.tot = @ - 1, !.idx = @ + 1] \in Frame
      BY <1>0, <3>2, <3>3 DEF Frame
    <3>5. frame' \in [Caller -> Frame] /\ pc' \in [Caller -> Labels]
      BY <2>2, <3>4, LocalsType, GotoType DEF Labels
    <3> QED
      BY <2>2, <3>5 DEF TypeOK, shared
  <2> QED
    BY <1>2, <2>1, <2>2 DEF ReadExtent
<1>3. CASE SeekData(r)
  <2>1. frame[r].irec.start * BlockSize \in Nat
    BY <1>0, ImageAssumption DEF Frame, Extent
  <2> QED
    BY <1>3, <2>1, SeekType DEF SeekData, Labels
<1>4. CASE ReadData(r)
  <2> DEFINE whole == frame[r].irec.count * BlockSize
             some  == frame[r].size # 0 /\ frame[r].size < whole % IntWord
             n     == IF some THEN AsSize(frame[r].size) ELSE whole
             took  == IF some THEN frame[r].size ELSE whole % IntWord
  <2>1. whole \in Nat /\ frame[r].size \in Nat /\ frame[r].irec.off \in Nat
    BY <1>0, ImageAssumption DEF Frame, Extent
  <2> HIDE DEF n, took, some, whole
  <2>2. whole % IntWord \in Nat
    BY <2>1, DivMod, ImageAssumption
  <2>3. n \in Nat /\ took \in Nat
    BY <2>1, <2>2, AsSizeNat DEF n, took
  <2>4. (frame[r].size - took) % Word \in Nat
    <3> DEFINE left == frame[r].size - took
    <3>1. left \in Int
      BY <2>1, <2>3
    <3> HIDE DEF left
    <3>2. left % Word \in 0 .. Word - 1
      BY <3>1, ModInWord, CallerAssumption
    <3>3. left % Word \in Nat
      BY <3>2, CallerAssumption
    <3> QED
      BY <3>3 DEF left
  <2>5. PICK m \in 0 .. n :
          Arrive(r, n, m) /\ mem' = [mem EXCEPT ![r] = Fill(mem[r], frame[r].irec.off, m)]
    BY <1>4 DEF ReadData, n, some, whole
  <2>6. Locals(r, [frame[r] EXCEPT !.size = (frame[r].size - took) % Word]) /\ Goto(r, "extent")
    BY <1>4 DEF ReadData, took, some, whole
  <2>7. [frame[r] EXCEPT !.size = (frame[r].size - took) % Word] \in Frame
    BY <1>0, <2>4 DEF Frame
  <2>8. frame' \in [Caller -> Frame] /\ pc' \in [Caller -> Labels]
    BY <2>6, <2>7, LocalsType, GotoType DEF Labels
  <2>9. pos' \in Nat /\ tainted' \in [Caller -> BOOLEAN]
    BY <2>3, <2>5, ArriveType
  <2>10. mem' \in [Caller -> [Memory -> Unit \cup {Blank}]]
    <3>1. Memory \subseteq Nat /\ m \in Nat /\ mem[r] \in [Memory -> Unit \cup {Blank}]
      BY <2>3, CallerAssumption DEF Memory, TypeOK
    <3>2. Fill(mem[r], frame[r].irec.off, m) \in [Memory -> Unit \cup {Blank}]
      BY <2>1, <3>1, FillType
    <3> QED
      BY <2>5, <3>2 DEF TypeOK
  <2> QED
    BY <1>4, <2>8, <2>9, <2>10 DEF ReadData, TypeOK
<1> QED
  BY <1>1, <1>2, <1>3, <1>4

LEMMA TypeStep == TypeOK /\ [Next]_vars => TypeOK'
<1> SUFFICES ASSUME TypeOK, [Next]_vars PROVE TypeOK'
  OBVIOUS
<1>1. CASE UNCHANGED vars
  BY <1>1 DEF TypeOK, vars, shared
<1>2. ASSUME NEW r \in Caller, InitReadFile(r) \/ Call(r) PROVE TypeOK'
  BY <1>2, CallType
<1>3. ASSUME NEW r \in Caller, Work(r) PROVE TypeOK'
  BY <1>3, InodeType, PathType, FileType DEF Work
<1> QED
  BY <1>1, <1>2, <1>3 DEF Next

\* Every variable has its type in every reachable state.
THEOREM TypeCorrect == Spec => []TypeOK
BY TypeInit, TypeStep, PTL DEF Spec

(***************************************************************************)
(* Calls that do not overlap are answered by the image: IInv is inductive, *)
(* and the safety properties of ReadFile follow from it. On an image whose *)
(* seeks and reads succeed they are calls of the abstract service.         *)
(***************************************************************************)

\* What a step of one caller leaves to the others, and to the image.
LEMMA StepKeeps ==
  ASSUME TypeOK, NEW r \in Caller, InitReadFile(r) \/ Call(r) \/ Work(r)
  PROVE  /\ disk' = disk
         /\ \A q \in Caller \ {r} :
              /\ pc'[q] = pc[q] /\ frame'[q] = frame[q] /\ mem'[q] = mem[q]
              /\ rc'[q] = rc[q] /\ tainted'[q] = tainted[q]
<1> USE DEF TypeOK, Goto, Locals, Return, shared
<1>1. CASE InitReadFile(r)
  BY <1>1 DEF InitReadFile
<1>2. CASE Call(r)
  BY <1>2 DEF Call
<1>3. CASE NextComponent(r)
  BY <1>3 DEF NextComponent
<1>4. CASE SeekInode(r) \/ SeekData(r)
  BY <1>4 DEF SeekInode, SeekData, Seek
<1>5. CASE ReadBlock(r)
  BY <1>5 DEF ReadBlock, Arrive
<1>6. CASE ResetBuf(r) \/ SkipToInode(r) \/ TakeInode(r)
  BY <1>6 DEF ResetBuf, SkipToInode, TakeInode
<1>7. CASE CopyInode(r)
  BY <1>7 DEF CopyInode
<1>8. CASE ReadHeader(r) \/ ScanEntry(r)
  BY <1>8 DEF ReadHeader, ScanEntry
<1>9. CASE OpenFile(r) \/ ReadExtent(r)
  BY <1>9 DEF OpenFile, Opened, ReadExtent
<1>10. CASE ReadData(r)
  BY <1>10 DEF ReadData, Arrive
<1> QED
  BY <1>1, <1>2, <1>3, <1>4, <1>5, <1>6, <1>7, <1>8, <1>9, <1>10 DEF Work

\* A call that was not disturbed before a step of its own is one that is not
\* disturbed after it, or the step taints it.
LEMMA WorkTaints ==
  ASSUME TypeOK, NEW r \in Caller, Work(r), Clean(r)'
  PROVE  Clean(r)
<1>1. disk' = disk
  BY StepKeeps
<1>2. tainted' = tainted \/ tainted' = [tainted EXCEPT ![r] = TRUE]
  BY DEF Work, NextComponent, SeekInode, SeekData, Seek, ReadBlock, ReadData, Arrive, ResetBuf,
         SkipToInode, TakeInode, CopyInode, ReadHeader, ScanEntry, OpenFile, Opened,
         ReadExtent, Return
<1> QED
  BY <1>1, <1>2 DEF Clean, TypeOK

\* A caller whose state a step leaves alone is still all right if it is not in
\* a call: then nothing that is shared matters to it.
LEMMA IdleKept ==
  ASSUME NEW q \in Caller, CallOK(q), ~ Under(q),
         disk' = disk, pc'[q] = pc[q], frame'[q] = frame[q], mem'[q] = mem[q],
         rc'[q] = rc[q], tainted'[q] = tainted[q]
  PROVE  CallOK(q)'
<1>1. ~ Under(q)' /\ (Clean(q)' => Clean(q))
  BY DEF Under, Clean
<1>2. AnswerPart(q) => AnswerPart(q)'
  BY DEF AnswerPart, Untouched
<1>3. DonePart(q) => DonePart(q)'
  BY DEF DonePart, WalkPart
<1> QED
  BY <1>1, <1>2, <1>3 DEF CallOK

\* What the steps of one caller rest on, whatever the others are at.
Own(r) == TypeOK /\ Rooted /\ CallOK(r)

LEMMA OwnPart == ASSUME IInv, NEW r \in Caller PROVE Own(r)
BY DEF IInv, Own

\* What is known of a caller that is in a call nothing has tainted.
LEMMA CallFacts ==
  ASSUME NEW r \in Caller, Own(r), Clean(r), Under(r)
  PROVE  /\ disk \in Image /\ Supported(disk) /\ frame[r] \in Frame
         /\ rc[r] = Running /\ CallPart(r)
         /\ frame[r].next_ino \in Nat /\ InFirstGroup(disk, frame[r].next_ino)
         /\ Here(r) \in Inode
         /\ LocalDir(Here(r)) => SimpleDir(disk, Here(r))
         /\ Here(r).format = "extents" /\ ~ Here(r).ox => SimpleFile(Here(r))
<1>1. disk \in Image /\ frame[r] \in Frame /\ Supported(disk)
  BY ImageAssumption DEF Own, TypeOK, Clean
<1>2. rc[r] = Running /\ CallPart(r)
  BY DEF Own, CallOK
<1>3. frame[r].next_ino \in Nat /\ InFirstGroup(disk, frame[r].next_ino)
  BY <1>1, <1>2 DEF CallPart, WalkPart, Frame
<1> QED
  BY <1>1, <1>2, <1>3, SupportedInode DEF Here

\* raw points to the inode asked for.
LEMMA RawIsHere ==
  ASSUME NEW r \in Caller, Own(r), Clean(r), pc[r] \in {"copy"} \cup Parsed
  PROVE  AtRaw(r) = {Here(r)} /\ frame[r].raw \in Buffer
         /\ block_buf[frame[r].raw] = Here(r)
<1>1. Under(r)
  BY DEF Under, Parsed
<1>2. /\ disk \in Image /\ Here(r) \in Inode /\ CallPart(r)
      /\ frame[r].next_ino \in Nat /\ InFirstGroup(disk, frame[r].next_ino)
  BY <1>1, CallFacts
<1>3. frame[r].raw = frame[r].next_ino % BlockSize /\ frame[r].raw \in Buffer
  BY <1>2, InodePlace DEF CallPart, BufferPart, Buffer
<1>4. block_buf[frame[r].raw] = disk.units[BlockAt(r) + frame[r].raw]
  BY <1>2, <1>3 DEF CallPart, BufferPart
<1>5. Here(r) = disk.units[BlockAt(r) + frame[r].raw]
  BY <1>2, <1>3, InodePlace DEF Here, InodeAt, BlockAt
<1> QED
  BY <1>2, <1>3, <1>4, <1>5 DEF AtRaw, Parse

LEMMA InitInv == Init => IInv
<1> SUFFICES ASSUME Init PROVE IInv
  OBVIOUS
<1>1. TypeOK
  BY TypeInit
<1>2. ASSUME NEW r \in Caller PROVE ~ Under(r) /\ CallOK(r) /\ pc[r] = "start"
  BY DEF Init, Under, CallOK, AnswerPart, Untouched
<1> QED
  BY <1>1, <1>2 DEF IInv, OneAtATime, Rooted

LEMMA InitReadFileInv ==
  ASSUME NEW r \in Caller, Own(r), InitReadFile(r)
  PROVE  CallOK(r)'
<1>1. ~ Under(r) /\ ~ Under(r)' /\ pc'[r] = "idle"
  BY DEF InitReadFile, Goto, Under, Own, TypeOK
<1>2. Clean(r)' => Clean(r)
  BY DEF InitReadFile, Clean
<1>3. AnswerPart(r) => AnswerPart(r)'
  BY DEF InitReadFile, AnswerPart, Untouched
<1> QED
  BY <1>1, <1>2, <1>3 DEF CallOK, Own

LEMMA CallInv ==
  ASSUME TypeOK, Rooted, NEW r \in Caller, Call(r), Clean(r)'
  PROVE  CallOK(r)'
<1> DEFINE f == frame'[r]
<1>1. pc'[r] = "next" /\ rc'[r] = Running /\ mem'[r] = [j \in Memory |-> Blank] /\ disk' = disk
  BY DEF Call, Goto, TypeOK, shared
<1>2. f.k = 0 /\ f.next_ino = disk.root /\ f.size = f.n /\ f.path \in Path
  <2>1. rootino = disk.root
    BY DEF Call, Rooted
  <2>2. PICK p \in Path, n \in Room :
          Locals(r, [path |-> p, n |-> n, k |-> 0, last |-> FALSE,
                     next_ino |-> rootino, raw |-> 0, cur |-> ZeroInode,
                     tot |-> 0, idx |-> 0, irec |-> ZeroExtent, size |-> n])
    BY DEF Call
  <2> QED
    BY <2>1, <2>2 DEF Locals, TypeOK
<1>3. Supported(disk) /\ disk \in Image
  BY <1>1, ImageAssumption DEF Clean, TypeOK
<1>4. WalkPart(r)'
  <2>1. f.path.comps \in Seq(Name)
    BY <1>2, CallerAssumption
  <2>2. Walked(disk, f.path, 0, disk.root) /\ disk.root \in Named(disk)
    BY ResolvesRoot DEF Walked
  <2>3. InFirstGroup(disk, disk.root)
    BY <1>3 DEF Supported
  <2>4. 0 \in 0 .. Len(f.path.comps)
    BY <2>1
  <2> QED
    BY <1>1, <1>2, <2>2, <2>3, <2>4 DEF WalkPart
<1>5. PhasePart(r)' /\ BufferPart(r)' /\ ScanPart(r)'
  BY <1>1 DEF PhasePart, BufferPart, ScanPart, Parsed
<1>6. FilePart(r)'
  BY <1>1, <1>2 DEF FilePart, Untouched
<1> QED
  BY <1>1, <1>4, <1>5, <1>6 DEF CallOK, CallPart, Under

\* A call that returns code c with nothing written is right if the image gives
\* a reason for c.
LEMMA ReturnInv ==
  ASSUME NEW r \in Caller, Own(r), Under(r), Clean(r), NEW c \in Code, Return(r, c), c # Running,
         WalkPart(r), Answer(disk, frame[r].path, frame[r].n, c, mem[r]),
         c = 0 => Holds(disk, frame[r].next_ino, frame[r].n, mem[r])
  PROVE  CallOK(r)'
<1>1. /\ pc'[r] = "done" /\ rc'[r] = c /\ mem' = mem /\ disk' = disk
      /\ frame'[r] = [frame[r] EXCEPT !.raw = 0, !.cur = ZeroInode, !.tot = 0, !.idx = 0,
                                      !.irec = ZeroExtent, !.size = 0, !.last = FALSE]
  BY DEF Return, Goto, Locals, Own, TypeOK, shared
<1>2. frame[r] \in Frame
  BY DEF Own, TypeOK
<1>3. /\ frame'[r].path = frame[r].path /\ frame'[r].n = frame[r].n
      /\ frame'[r].k = frame[r].k /\ frame'[r].next_ino = frame[r].next_ino
  BY <1>1, <1>2 DEF Frame
<1>4. DonePart(r)'
  BY <1>1, <1>3 DEF WalkPart, DonePart
<1>5. AnswerPart(r)'
  BY <1>1, <1>3 DEF AnswerPart
<1> QED
  BY <1>1, <1>4, <1>5 DEF CallOK, Under

LEMMA NextComponentInv ==
  ASSUME NEW r \in Caller, Own(r), NextComponent(r), Clean(r)
  PROVE  CallOK(r)'
<1> DEFINE f == frame[r]
           more == f.k < Len(f.path.comps)
<1>1. pc[r] = "next" /\ Under(r)
  BY DEF NextComponent, Under
<1>2. CallPart(r) /\ rc[r] = Running /\ f \in Frame
  BY <1>1, CallFacts
<1>3. f.path.comps \in Seq(Name) /\ f.k \in 0 .. Len(f.path.comps) /\ Untouched(r)
      /\ f.path.abs \in BOOLEAN
  BY <1>1, <1>2 DEF CallPart, WalkPart, FilePart, Frame
<1>4. CASE more /\ ~ f.path.abs
  <2>1. Return(r, -3)
    BY <1>4 DEF NextComponent
  <2>2. f.path.comps # << >>
    BY <1>3, <1>4
  <2>3. Answer(disk, f.path, f.n, -3, mem[r])
    <3>1. \A j \in DOMAIN mem[r] : mem[r][j] = Blank
      BY <1>3 DEF Untouched, Own, TypeOK
    <3> QED
      BY <1>4, <2>2, <3>1 DEF Answer, Unsupported
  <2> QED
    BY <1>1, <1>2, <2>1, <2>3, ReturnInv DEF Code, Running, CallPart
<1>5. CASE ~ (more /\ ~ f.path.abs)
  <2>1. /\ pc'[r] = "seek" /\ mem' = mem /\ rc' = rc /\ disk' = disk
        /\ frame'[r] = [f EXCEPT !.last = ~ more]
    BY <1>5 DEF NextComponent, Goto, Locals, Own, TypeOK, shared
  <2>2. /\ frame'[r].path = f.path /\ frame'[r].n = f.n /\ frame'[r].k = f.k
        /\ frame'[r].next_ino = f.next_ino /\ frame'[r].last = ~ more /\ frame'[r].size = f.size
    BY <1>2, <2>1 DEF Frame
  <2>3. WalkPart(r)'
    BY <1>2, <2>1, <2>2 DEF CallPart, WalkPart
  <2>4. PhasePart(r)'
    <3>1. f.k \in Nat /\ Len(f.path.comps) \in Nat /\ f.k <= Len(f.path.comps)
      BY <1>3
    <3>2. CASE more
      <4>1. frame'[r].last = FALSE /\ f.path.abs
        BY <1>5, <2>2, <3>2
      <4> QED
        BY <2>1, <2>2, <3>2, <4>1 DEF PhasePart
    <3>3. CASE ~ more
      <4>1. frame'[r].last = TRUE
        BY <2>2, <3>3
      <4>2. f.k = Len(f.path.comps)
        BY <3>1, <3>3
      <4> QED
        BY <2>1, <2>2, <4>1, <4>2 DEF PhasePart
    <3> QED
      BY <3>2, <3>3
  <2>5. BufferPart(r)' /\ ScanPart(r)'
    BY <2>1 DEF BufferPart, ScanPart, Parsed
  <2>6. FilePart(r)'
    BY <1>1, <1>2, <2>1, <2>2 DEF CallPart, FilePart, Untouched
  <2> QED
    BY <1>2, <2>1, <2>3, <2>4, <2>5, <2>6 DEF CallOK, CallPart, Under
<1> QED
  BY <1>4, <1>5

\* The steps that load a block leave the walk and the memory alone.
LEMMA SeekInodeInv ==
  ASSUME NEW r \in Caller, Own(r), SeekInode(r), Clean(r), Clean(r)'
  PROVE  CallOK(r)'
<1>1. pc[r] = "seek" /\ Under(r)
  BY DEF SeekInode, Under
<1>2. CallPart(r) /\ rc[r] = Running /\ frame[r] \in Frame /\ disk \in Image /\ Supported(disk)
  BY <1>1, CallFacts
<1>3. /\ pc'[r] = "read" /\ frame' = frame /\ mem' = mem /\ rc' = rc /\ disk' = disk
      /\ pos' = InodeBlock(frame[r].next_ino) * BlockSize
  BY DEF SeekInode, Seek, Goto, Clean, Own, TypeOK
<1>4. pos' = BlockAt(r)
  <2>1. disk.seqno = 0 /\ frame[r].next_ino \div BlockSize \in Nat
    BY <1>2, DivMod, ImageAssumption DEF Supported, Frame
  <2>2. InodeBlock(frame[r].next_ino) = frame[r].next_ino \div BlockSize
    BY <2>1, ImageAssumption DEF InodeBlock
  <2> QED
    BY <1>3, <2>2 DEF BlockAt
<1>5. WalkPart(r)' /\ PhasePart(r)' /\ ScanPart(r)' /\ FilePart(r)'
  BY <1>1, <1>2, <1>3 DEF CallPart, WalkPart, PhasePart, ScanPart, FilePart, Untouched
<1>6. BufferPart(r)'
  BY <1>3, <1>4 DEF BufferPart, Parsed, BlockAt
<1> QED
  BY <1>2, <1>3, <1>5, <1>6 DEF CallOK, CallPart, Under

LEMMA ReadBlockInv ==
  ASSUME NEW r \in Caller, Own(r), ReadBlock(r), Clean(r), Clean(r)'
  PROVE  CallOK(r)'
<1>1. pc[r] = "read" /\ Under(r)
  BY DEF ReadBlock, Under
<1>2. /\ CallPart(r) /\ rc[r] = Running /\ frame[r] \in Frame /\ disk \in Image
      /\ frame[r].next_ino \in Nat /\ InFirstGroup(disk, frame[r].next_ino)
  BY <1>1, CallFacts
<1>3. pc'[r] = "reset" /\ frame' = frame /\ mem' = mem /\ rc' = rc /\ disk' = disk
  BY DEF ReadBlock, Goto, Own, TypeOK
<1>4. block_buf' = Fill(block_buf, 0, BlockSize)
  <2>1. PICK m \in 0 .. BlockSize : Arrive(r, BlockSize, m) /\ block_buf' = Fill(block_buf, 0, m)
    BY DEF ReadBlock
  <2>2. ~ tainted'[r] /\ tainted \in [Caller -> BOOLEAN]
    BY DEF Clean, Own, TypeOK
  <2>3. m = BlockSize
    BY <2>1, <2>2 DEF Arrive
  <2> QED
    BY <2>1, <2>3
<1>5. \A j \in Buffer : block_buf'[j] = disk.units[BlockAt(r) + j]
  <2>1. pos = BlockAt(r) /\ block_buf \in [Buffer -> Unit] /\ BlockAt(r) \in Nat
    BY <1>1, <1>2, InodePlace DEF CallPart, BufferPart, BlockAt, Own, TypeOK
  <2>2. \A j \in Buffer : BlockAt(r) + j \in Address
    BY <1>2, InodePlace DEF BlockAt, Buffer
  <2>3. ASSUME NEW j \in Buffer PROVE block_buf'[j] = disk.units[BlockAt(r) + j]
    <3>1. j \in Nat /\ j - 0 \in 0 .. BlockSize - 1 /\ pos + j - 0 = BlockAt(r) + j
      BY <2>1, ImageAssumption DEF Buffer
    <3> QED
      BY <1>4, <2>1, <2>2, <3>1 DEF Fill
  <2> QED
    BY <2>3
<1>6. WalkPart(r)' /\ PhasePart(r)' /\ ScanPart(r)' /\ FilePart(r)'
  BY <1>1, <1>2, <1>3 DEF CallPart, WalkPart, PhasePart, ScanPart, FilePart, Untouched
<1>7. BufferPart(r)'
  BY <1>3, <1>5 DEF BufferPart, Parsed, BlockAt
<1> QED
  BY <1>2, <1>3, <1>6, <1>7 DEF CallOK, CallPart, Under

LEMMA TakeInodeInv ==
  ASSUME NEW r \in Caller, Own(r), ResetBuf(r) \/ SkipToInode(r) \/ TakeInode(r), Clean(r)
  PROVE  CallOK(r)'
<1>1. pc[r] \in {"reset", "skip", "take"} /\ Under(r)
  BY DEF ResetBuf, SkipToInode, TakeInode, Under
<1>2. /\ CallPart(r) /\ rc[r] = Running /\ frame[r] \in Frame
      /\ frame[r].next_ino % BlockSize \in Nat
  BY <1>1, CallFacts, DivMod, ImageAssumption
<1>3. /\ pc[r] = "reset" => pc'[r] = "skip" /\ frame'[r] = frame[r] /\ block_bufp' = 0
      /\ pc[r] = "skip" => pc'[r] = "take" /\ frame'[r] = frame[r]
                           /\ block_bufp' = block_bufp + (frame[r].next_ino % BlockSize)
      /\ pc[r] = "take" => pc'[r] = "copy" /\ frame'[r] = [frame[r] EXCEPT !.raw = block_bufp]
      /\ block_buf' = block_buf /\ mem' = mem /\ rc' = rc /\ disk' = disk
  BY DEF ResetBuf, SkipToInode, TakeInode, Goto, Locals, Own, TypeOK
<1>4. /\ frame'[r].path = frame[r].path /\ frame'[r].n = frame[r].n
      /\ frame'[r].k = frame[r].k /\ frame'[r].next_ino = frame[r].next_ino
      /\ frame'[r].last = frame[r].last /\ frame'[r].size = frame[r].size
      /\ pc[r] = "take" => frame'[r].raw = block_bufp
  BY <1>1, <1>2, <1>3 DEF Frame
<1>5. pc'[r] \in {"skip", "take", "copy"}
  BY <1>1, <1>3
<1>6. WalkPart(r)' /\ PhasePart(r)' /\ ScanPart(r)'
  BY <1>1, <1>2, <1>3, <1>4, <1>5 DEF CallPart, WalkPart, PhasePart, ScanPart
<1>7. FilePart(r)'
  BY <1>1, <1>2, <1>3, <1>4, <1>5 DEF CallPart, FilePart, Untouched
<1>8. BufferPart(r)'
  BY <1>1, <1>2, <1>3, <1>4, <1>5 DEF CallPart, BufferPart, Parsed, BlockAt
<1> QED
  BY <1>2, <1>3, <1>5, <1>6, <1>7, <1>8 DEF CallOK, CallPart, Under

LEMMA CopyInodeInv ==
  ASSUME NEW r \in Caller, Own(r), CopyInode(r), Clean(r)
  PROVE  CallOK(r)'
<1> DEFINE f == frame[r]
           i == Here(r)
<1>1. pc[r] = "copy" /\ Under(r)
  BY DEF CopyInode, Under
<1>2. CallPart(r) /\ rc[r] = Running /\ f \in Frame /\ AtRaw(r) = {i} /\ i \in Inode
  BY <1>1, CallFacts, RawIsHere
<1>3. CASE Return(r, -3) /\ ~ IF f.last THEN ~ i.ox /\ i.format = "extents" ELSE LocalDir(i)
  <2>1. Walked(disk, f.path, f.k, f.next_ino) /\ f.next_ino \in Named(disk)
        /\ f.k \in 0 .. Len(f.path.comps) /\ Len(f.path.comps) \in Nat /\ Untouched(r)
    BY <1>1, <1>2 DEF CallPart, WalkPart, FilePart, Frame
  <2>2. IF f.last THEN f.k = Len(f.path.comps) ELSE f.k < Len(f.path.comps) /\ f.path.abs
    BY <1>1, <1>2 DEF CallPart, PhasePart
  <2>3. Unsupported(disk, f.path)
    <3>1. CASE f.last
      BY <1>3, <2>1, <2>2, <3>1 DEF Unsupported, Reaches, Here
    <3>2. CASE ~ f.last
      <4>1. f.k \in 0 .. Len(f.path.comps) - 1
        BY <2>1, <2>2, <3>2
      <4> QED
        BY <1>3, <2>1, <3>2, <4>1 DEF Unsupported, Here
    <3> QED
      BY <3>1, <3>2
  <2>4. Answer(disk, f.path, f.n, -3, mem[r])
    <3>1. \A j \in DOMAIN mem[r] : mem[r][j] = Blank
      BY <2>1 DEF Untouched, Own, TypeOK
    <3> QED
      BY <2>3, <3>1 DEF Answer
  <2> QED
    BY <1>1, <1>2, <1>3, <2>4, ReturnInv DEF Code, Running, CallPart
<1>4. CASE /\ IF f.last THEN ~ i.ox /\ i.format = "extents" ELSE LocalDir(i)
           /\ Goto(r, IF f.last THEN "open" ELSE "header")
           /\ Locals(r, [f EXCEPT !.cur = i])
           /\ UNCHANGED <<shared, mem, rc, tainted>>
  <2>1. /\ pc'[r] = IF f.last THEN "open" ELSE "header"
        /\ mem' = mem /\ rc' = rc /\ disk' = disk /\ block_buf' = block_buf
        /\ frame'[r] = [f EXCEPT !.cur = i]
    BY <1>4 DEF Goto, Locals, Own, TypeOK, shared
  <2>2. /\ frame'[r].path = f.path /\ frame'[r].n = f.n /\ frame'[r].k = f.k
        /\ frame'[r].next_ino = f.next_ino /\ frame'[r].last = f.last
        /\ frame'[r].size = f.size /\ frame'[r].raw = f.raw /\ frame'[r].cur = i
    BY <1>2, <2>1 DEF Frame
  <2>3. pc'[r] \in {"open", "header"} /\ (pc'[r] = "open" <=> f.last)
    BY <2>1
  <2>4. WalkPart(r)' /\ ScanPart(r)' /\ FilePart(r)'
    BY <1>1, <1>2, <2>1, <2>2, <2>3 DEF CallPart, WalkPart, ScanPart, FilePart, Untouched
  <2>5. Here(r)' = i
    BY <2>1, <2>2 DEF Here
  <2>6. PhasePart(r)'
    BY <1>1, <1>2, <1>4, <2>1, <2>2, <2>3, <2>5 DEF CallPart, PhasePart
  <2>7. BufferPart(r)'
    BY <1>1, <1>2, <2>1, <2>2, <2>3, <2>5 DEF CallPart, BufferPart, Parsed, BlockAt
  <2> QED
    BY <1>2, <2>1, <2>3, <2>4, <2>6, <2>7 DEF CallOK, CallPart, Under
<1> QED
  BY <1>2, <1>3, <1>4 DEF CopyInode

LEMMA ReadHeaderInv ==
  ASSUME NEW r \in Caller, Own(r), ReadHeader(r), Clean(r)
  PROVE  CallOK(r)'
<1> DEFINE f == frame[r]
           i == Here(r)
<1>1. pc[r] = "header" /\ Under(r)
  BY DEF ReadHeader, Under
<1>2. /\ CallPart(r) /\ rc[r] = Running /\ f \in Frame /\ AtRaw(r) = {i} /\ i \in Inode
      /\ LocalDir(i) => SimpleDir(disk, i)
  BY <1>1, CallFacts, RawIsHere DEF Parsed
<1>3. LocalDir(i) /\ SimpleDir(disk, i) /\ ~ f.last /\ f.k < Len(f.path.comps) /\ f.path.abs
      /\ i.count \in Nat /\ i.i8count \in Nat
  BY <1>1, <1>2 DEF CallPart, PhasePart, Inode
<1>4. CASE Return(r, -2) /\ ~ ((i.count = 0) # (i.i8count = 0))
  <2>1. Walked(disk, f.path, f.k, f.next_ino) /\ f.next_ino \in Named(disk)
        /\ f.k \in 0 .. Len(f.path.comps) /\ Len(f.path.comps) \in Nat /\ Untouched(r)
    BY <1>1, <1>2 DEF CallPart, WalkPart, FilePart, Frame
  <2>2. i.count = 0 \/ i.i8count > 0
    BY <1>3, <1>4
  <2>3. f.k \in 0 .. Len(f.path.comps) - 1
    BY <1>3, <2>1
  <2>4. OddDir(disk, f.path)
    BY <1>3, <2>1, <2>2, <2>3 DEF OddDir, Here
  <2>5. Answer(disk, f.path, f.n, -2, mem[r])
    <3>1. \A j \in DOMAIN mem[r] : mem[r][j] = Blank
      BY <2>1 DEF Untouched, Own, TypeOK
    <3> QED
      BY <2>4, <3>1 DEF Answer
  <2> QED
    BY <1>1, <1>2, <1>4, <2>5, ReturnInv DEF Code, Running, CallPart
<1>5. CASE /\ (i.count = 0) # (i.i8count = 0)
           /\ Goto(r, "scan")
           /\ Locals(r, [f EXCEPT !.tot = i.count + i.i8count, !.idx = 1])
           /\ UNCHANGED <<shared, mem, rc, tainted>>
  <2>1. i.i8count = 0 /\ i.count > 0
    BY <1>3, <1>5 DEF SimpleDir
  <2>2. /\ pc'[r] = "scan" /\ mem' = mem /\ rc' = rc /\ disk' = disk /\ block_buf' = block_buf
        /\ frame'[r] = [f EXCEPT !.tot = i.count + i.i8count, !.idx = 1]
    BY <1>5 DEF Goto, Locals, Own, TypeOK, shared
  <2>3. /\ frame'[r].path = f.path /\ frame'[r].n = f.n /\ frame'[r].k = f.k
        /\ frame'[r].next_ino = f.next_ino /\ frame'[r].last = f.last
        /\ frame'[r].size = f.size /\ frame'[r].raw = f.raw /\ frame'[r].cur = f.cur
        /\ frame'[r].tot = i.count /\ frame'[r].idx = 1
    BY <1>2, <1>3, <2>1, <2>2 DEF Frame
  <2>4. Here(r)' = i
    BY <2>2, <2>3 DEF Here
  <2>5. WalkPart(r)' /\ PhasePart(r)' /\ FilePart(r)'
    BY <1>1, <1>2, <2>2, <2>3, <2>4 DEF CallPart, WalkPart, PhasePart, FilePart, Untouched
  <2>6. ScanPart(r)'
    BY <1>3, <2>1, <2>2, <2>3, <2>4 DEF ScanPart
  <2>7. BufferPart(r)'
    BY <1>1, <1>2, <2>2, <2>3, <2>4 DEF CallPart, BufferPart, Parsed, BlockAt
  <2> QED
    BY <1>2, <2>2, <2>5, <2>6, <2>7 DEF CallOK, CallPart, Under
<1> QED
  BY <1>2, <1>4, <1>5 DEF ReadHeader

\* The walk goes on from a component that was found, or that was empty.
LEMMA DescendInv ==
  ASSUME NEW r \in Caller, Own(r), pc[r] = "scan", Clean(r), NEW ino \in Named(disk),
         ino \in Nat, InFirstGroup(disk, ino),
         LeadsTo(disk, frame[r].next_ino, Sought(r), ino),
         Goto(r, "next"), Locals(r, [frame[r] EXCEPT !.k = @ + 1, !.next_ino = ino]),
         UNCHANGED <<shared, mem, rc, tainted>>
  PROVE  CallOK(r)'
<1> DEFINE f == frame[r]
<1>1. Under(r)
  BY DEF Under
<1>2. CallPart(r) /\ rc[r] = Running /\ f \in Frame
  BY <1>1, CallFacts
<1>3. /\ f.k < Len(f.path.comps) /\ f.path.abs /\ Untouched(r) /\ f.k \in Nat
      /\ f.size = f.n /\ Len(f.path.comps) \in Nat
  BY <1>2 DEF CallPart, PhasePart, FilePart, Frame
<1>4. /\ pc'[r] = "next" /\ mem' = mem /\ rc' = rc /\ disk' = disk
      /\ frame'[r] = [f EXCEPT !.k = @ + 1, !.next_ino = ino]
  BY DEF Goto, Locals, Own, TypeOK, shared
<1>5. /\ frame'[r].path = f.path /\ frame'[r].n = f.n /\ frame'[r].k = f.k + 1
      /\ frame'[r].next_ino = ino /\ frame'[r].size = f.size
  BY <1>2, <1>4 DEF Frame
<1>6. Walked(disk, f.path, f.k + 1, ino)
  <2>1. Resolves(disk, f.path.comps, f.k, f.next_ino)
    BY <1>2 DEF CallPart, WalkPart, Walked
  <2>2. LeadsTo(disk, f.next_ino, f.path.comps[f.k + 1], ino)
    BY DEF Sought
  <2>3. Resolves(disk, f.path.comps, f.k + 1, ino)
    BY <1>3, <2>1, <2>2, ResolvesStep
  <2> QED
    BY <1>3, <2>3 DEF Walked
<1>7. f.k + 1 \in 0 .. Len(f.path.comps)
  BY <1>3
<1>8. WalkPart(r)'
  BY <1>4, <1>5, <1>6, <1>7 DEF WalkPart
<1>9. PhasePart(r)' /\ BufferPart(r)' /\ ScanPart(r)'
  BY <1>4 DEF PhasePart, BufferPart, ScanPart, Parsed
<1>10. FilePart(r)'
  BY <1>3, <1>4, <1>5 DEF FilePart, Untouched
<1> QED
  BY <1>2, <1>4, <1>8, <1>9, <1>10 DEF CallOK, CallPart, Under

\* An entry of the scan is one of the live entries of a simple directory.
LEMMA ScannedEntry ==
  ASSUME NEW r \in Caller, Own(r), pc[r] = "scan", Clean(r), frame[r].tot # 0
  PROVE  LET f == frame[r]  i == Here(r)  e == i.ents[f.idx] IN
         /\ f.idx \in 1 .. i.count /\ EntryAt(i, f.idx) = {e} /\ e \in Live(i) /\ e \in Entry
         /\ InFirstGroup(disk, e.ino) /\ e.name # Empty
<1> DEFINE f == frame[r]
           i == Here(r)
<1>1. Under(r)
  BY DEF Under
<1>2. CallPart(r) /\ f \in Frame /\ i \in Inode /\ SimpleDir(disk, i)
  BY <1>1, CallFacts DEF CallPart, PhasePart
<1>3. f.idx >= 1 /\ f.tot + f.idx = i.count + 1 /\ f.tot \in Nat /\ f.idx \in Nat
      /\ i.count \in Nat
  BY <1>2 DEF CallPart, ScanPart, Frame, Inode
<1>4. f.idx \in 1 .. i.count
  BY <1>3
<1>5. i.ents \in Seq(Entry) /\ f.idx \in 1 .. Len(i.ents)
  BY <1>2, <1>3, <1>4 DEF Inode, SimpleDir
<1>6. i.ents[f.idx] \in Entry
  BY <1>5
<1> QED
  BY <1>2, <1>4, <1>5, <1>6 DEF EntryAt, Live, SimpleDir

LEMMA ScanEntryInv ==
  ASSUME NEW r \in Caller, Own(r), ScanEntry(r), Clean(r)
  PROVE  CallOK(r)'
<1> DEFINE f == frame[r]
           i == Here(r)
           name == f.path.comps[f.k + 1]
<1>1. pc[r] = "scan" /\ Under(r)
  BY DEF ScanEntry, Under
<1>2. /\ CallPart(r) /\ rc[r] = Running /\ f \in Frame /\ AtRaw(r) = {i} /\ i \in Inode
      /\ f.next_ino \in Nat /\ InFirstGroup(disk, f.next_ino) /\ disk \in Image
  BY <1>1, CallFacts, RawIsHere DEF Parsed
<1>3. LocalDir(i) /\ f.k < Len(f.path.comps) /\ f.path.abs /\ name = Sought(r)
      /\ f.next_ino \in Named(disk)
  BY <1>1, <1>2 DEF CallPart, PhasePart, WalkPart, Sought
<1>4. CASE f.tot = 0 /\ name = Empty
  <2>1. LeadsTo(disk, f.next_ino, Sought(r), f.next_ino)
    BY <1>3, <1>4 DEF LeadsTo, Here
  <2>2. Goto(r, "next") /\ Locals(r, [f EXCEPT !.k = @ + 1, !.next_ino = f.next_ino])
        /\ UNCHANGED <<shared, mem, rc, tainted>>
    BY <1>4 DEF ScanEntry
  <2> QED
    BY <1>1, <1>2, <1>3, <2>1, <2>2, DescendInv
<1>5. CASE f.tot = 0 /\ name # Empty
  <2>1. Return(r, -4)
    BY <1>5 DEF ScanEntry
  <2>2. Walked(disk, f.path, f.k, f.next_ino) /\ f.k \in 0 .. Len(f.path.comps) - 1
        /\ Untouched(r)
    BY <1>1, <1>2, <1>3 DEF CallPart, WalkPart, FilePart, Frame
  <2>3. ASSUME NEW b \in Named(disk) PROVE ~ LeadsTo(disk, f.next_ino, name, b)
    <3>1. SUFFICES ASSUME [name |-> name, ino |-> b] \in Live(i) PROVE FALSE
      BY <1>5 DEF LeadsTo, Here
    <3>2. PICK j \in 1 .. i.count : i.ents[j] = [name |-> name, ino |-> b]
      BY <3>1 DEF Live
    <3>3. f.idx - 1 = i.count
      <4>1. f.tot + f.idx = i.count + 1 /\ f.idx \in Nat /\ i.count \in Nat
        BY <1>1, <1>2 DEF CallPart, ScanPart, Frame, Inode
      <4> QED
        BY <1>5, <4>1
    <3>4. i.ents[j].name # Sought(r)
      BY <1>1, <1>2, <3>3 DEF CallPart, ScanPart
    <3> QED
      BY <1>3, <3>2, <3>4
  <2>4. Missing(disk, f.path)
    BY <1>3, <2>2, <2>3 DEF Missing, Here
  <2>5. Answer(disk, f.path, f.n, -4, mem[r])
    <3>1. \A j \in DOMAIN mem[r] : mem[r][j] = Blank
      BY <2>2 DEF Untouched, Own, TypeOK
    <3> QED
      BY <2>4, <3>1 DEF Answer
  <2> QED
    BY <1>1, <1>2, <2>1, <2>5, ReturnInv DEF Code, Running, CallPart
<1>6. CASE f.tot # 0 /\ i.ents[f.idx].name = name
  <2> DEFINE e == i.ents[f.idx]
  <2>1. EntryAt(i, f.idx) = {e} /\ e \in Live(i) /\ e \in Entry /\ InFirstGroup(disk, e.ino)
        /\ e.name # Empty
    BY <1>1, <1>6, ScannedEntry
  <2>2. e.ino \in Named(disk) /\ e.ino \in Nat
    BY <1>2, <2>1, LiveIsNamed DEF Here, Entry
  <2>3. e = [name |-> name, ino |-> e.ino]
    BY <1>6, <2>1 DEF Entry
  <2>4. LeadsTo(disk, f.next_ino, Sought(r), e.ino)
    <3>1. [name |-> Sought(r), ino |-> e.ino] \in Live(i) /\ Sought(r) # Empty
      BY <1>3, <1>6, <2>1, <2>3
    <3> QED
      BY <1>3, <3>1 DEF LeadsTo, Here
  <2>5. Goto(r, "next") /\ Locals(r, [f EXCEPT !.k = @ + 1, !.next_ino = e.ino])
        /\ UNCHANGED <<shared, mem, rc, tainted>>
    BY <1>2, <1>6, <2>1 DEF ScanEntry
  <2> QED
    BY <1>1, <2>1, <2>2, <2>4, <2>5, DescendInv
<1>7. CASE f.tot # 0 /\ i.ents[f.idx].name # name
  <2>1. EntryAt(i, f.idx) = {i.ents[f.idx]} /\ f.idx \in 1 .. i.count
    BY <1>1, <1>7, ScannedEntry
  <2>2. /\ pc' = pc /\ mem' = mem /\ rc' = rc /\ disk' = disk /\ block_buf' = block_buf
        /\ frame'[r] = [f EXCEPT !.tot = @ - 1, !.idx = @ + 1]
    BY <1>2, <1>7, <2>1 DEF ScanEntry, Locals, Own, TypeOK, shared
  <2>3. /\ frame'[r].path = f.path /\ frame'[r].n = f.n /\ frame'[r].k = f.k
        /\ frame'[r].next_ino = f.next_ino /\ frame'[r].last = f.last
        /\ frame'[r].size = f.size /\ frame'[r].raw = f.raw /\ frame'[r].cur = f.cur
        /\ frame'[r].tot = f.tot - 1 /\ frame'[r].idx = f.idx + 1
    BY <1>2, <2>2 DEF Frame
  <2>4. Here(r)' = i /\ Sought(r)' = Sought(r)
    BY <2>2, <2>3 DEF Here, Sought
  <2>5. WalkPart(r)' /\ PhasePart(r)' /\ FilePart(r)'
    BY <1>1, <1>2, <2>2, <2>3, <2>4 DEF CallPart, WalkPart, PhasePart, FilePart, Untouched
  <2>6. ScanPart(r)'
    <3>1. /\ i.count > 0 /\ f.tot + f.idx = i.count + 1 /\ f.tot \in Nat /\ f.idx \in Nat
          /\ i.count \in Nat /\ \A j \in 1 .. f.idx - 1 : i.ents[j].name # Sought(r)
      BY <1>1, <1>2 DEF CallPart, ScanPart, Frame, Inode
    <3>2. ASSUME NEW j \in 1 .. (f.idx + 1) - 1 PROVE i.ents[j].name # Sought(r)
      <4>1. CASE j = f.idx
        BY <1>3, <1>7, <2>1, <4>1
      <4>2. CASE j # f.idx
        BY <3>1, <4>2
      <4> QED
        BY <4>1, <4>2
    <3>3. f.idx + 1 >= 1 /\ (f.tot - 1) + (f.idx + 1) = i.count + 1
      BY <3>1
    <3> QED
      BY <2>3, <2>4, <3>1, <3>2, <3>3 DEF ScanPart
  <2>7. BufferPart(r)'
    BY <1>1, <1>2, <2>2, <2>3, <2>4 DEF CallPart, BufferPart, Parsed, BlockAt
  <2> QED
    BY <1>1, <1>2, <2>2, <2>5, <2>6, <2>7 DEF CallOK, CallPart, Under
<1> QED
  BY <1>4, <1>5, <1>6, <1>7

LEMMA OpenFileInv ==
  ASSUME NEW r \in Caller, Own(r), OpenFile(r), Clean(r)
  PROVE  CallOK(r)'
<1> DEFINE f == frame[r]
           i == Here(r)
<1>1. pc[r] = "open" /\ Under(r)
  BY DEF OpenFile, Opened, Under
<1>2. /\ CallPart(r) /\ rc[r] = Running /\ f \in Frame /\ AtRaw(r) = {i} /\ i \in Inode
  BY <1>1, CallFacts, RawIsHere DEF Parsed
<1>3. f.size = f.n /\ Untouched(r) /\ f.last /\ f.k = Len(f.path.comps)
      /\ f.next_ino \in Named(disk) /\ Reaches(disk, f.path, f.next_ino)
  BY <1>1, <1>2 DEF CallPart, FilePart, PhasePart, WalkPart, Reaches
<1>4. i.size \in Nat /\ f.n \in Nat
  BY <1>2 DEF Inode, Frame
<1>5. CASE Return(r, -5) /\ f.size < i.size
  <2>1. TooLarge(disk, f.path, f.n)
    BY <1>3, <1>4, <1>5 DEF TooLarge, Here
  <2>2. Answer(disk, f.path, f.n, -5, mem[r])
    <3>1. \A j \in DOMAIN mem[r] : mem[r][j] = Blank
      BY <1>3 DEF Untouched, Own, TypeOK
    <3> QED
      BY <2>1, <3>1 DEF Answer
  <2> QED
    BY <1>1, <1>2, <1>5, <2>2, ReturnInv DEF Code, Running, CallPart
<1>55. i.nextents = Len(i.exts)
  <2>1. i.format = "extents" /\ ~ i.ox /\ (i.format = "extents" /\ ~ i.ox => SimpleFile(i))
    BY <1>1, <1>2, CallFacts DEF CallPart, PhasePart
  <2> QED
    BY <2>1 DEF SimpleFile
<1>6. CASE /\ ~ f.size < i.size
           /\ Goto(r, "extent")
           /\ Locals(r, [f EXCEPT !.size = i.size, !.tot = i.nextents, !.idx = 1])
           /\ UNCHANGED <<shared, mem, rc, tainted>>
  <2>1. /\ pc'[r] = "extent" /\ mem' = mem /\ rc' = rc /\ disk' = disk /\ block_buf' = block_buf
        /\ frame'[r] = [f EXCEPT !.size = i.size, !.tot = i.nextents, !.idx = 1]
    BY <1>6 DEF Goto, Locals, Own, TypeOK, shared
  <2>2. /\ frame'[r].path = f.path /\ frame'[r].n = f.n /\ frame'[r].k = f.k
        /\ frame'[r].next_ino = f.next_ino /\ frame'[r].last = f.last
        /\ frame'[r].size = i.size /\ frame'[r].raw = f.raw /\ frame'[r].cur = f.cur
        /\ frame'[r].tot = Len(i.exts) /\ frame'[r].idx = 1
    BY <1>2, <1>55, <2>1 DEF Frame
  <2>3. Here(r)' = i /\ i.size <= f.n
    BY <1>3, <1>4, <1>6, <2>1, <2>2 DEF Here
  <2>4. WalkPart(r)' /\ PhasePart(r)' /\ ScanPart(r)'
    BY <1>1, <1>2, <2>1, <2>2, <2>3 DEF CallPart, WalkPart, PhasePart, ScanPart
  <2>5. FilePart(r)'
    BY <1>3, <2>1, <2>2, <2>3 DEF FilePart, Untouched
  <2>6. BufferPart(r)'
    BY <1>1, <1>2, <2>1, <2>2, <2>3 DEF CallPart, BufferPart, Parsed, BlockAt
  <2> QED
    BY <1>2, <2>1, <2>4, <2>5, <2>6 DEF CallOK, CallPart, Under
<1> QED
  BY <1>2, <1>5, <1>6 DEF OpenFile, Opened

LEMMA ReadExtentInv ==
  ASSUME NEW r \in Caller, Own(r), ReadExtent(r), Clean(r)
  PROVE  CallOK(r)'
<1> DEFINE f == frame[r]
           i == Here(r)
<1>1. pc[r] = "extent" /\ Under(r)
  BY DEF ReadExtent, Under
<1>2. /\ CallPart(r) /\ rc[r] = Running /\ f \in Frame /\ AtRaw(r) = {i} /\ i \in Inode
      /\ i.format = "extents" /\ ~ i.ox => SimpleFile(i)
  BY <1>1, CallFacts, RawIsHere DEF Parsed
<1>3. SimpleFile(i) /\ f.last /\ f.k = Len(f.path.comps) /\ i.size <= f.n
      /\ f.next_ino \in Named(disk) /\ Reaches(disk, f.path, f.next_ino)
      /\ i.size \in Nat /\ Len(i.exts) \in {0, 1}
  BY <1>1, <1>2 DEF CallPart, FilePart, PhasePart, WalkPart, Reaches, SimpleFile, Inode
<1>4. \/ f.idx = 1 /\ f.tot = Len(i.exts) /\ f.size = i.size /\ Untouched(r)
      \/ f.tot = 0 /\ Holds(disk, f.next_ino, f.n, mem[r])
  BY <1>1, <1>2 DEF CallPart, FilePart
<1>5. CASE f.tot = 0
  <2>1. Return(r, 0)
    BY <1>5 DEF ReadExtent
  <2>2. Holds(disk, f.next_ino, f.n, mem[r])
    <3>1. SUFFICES ASSUME f.tot = Len(i.exts), Untouched(r)
                   PROVE  Holds(disk, f.next_ino, f.n, mem[r])
      BY <1>4
    <3>2. i.size = 0 /\ i.kind = "reg"
      BY <1>3, <1>5, <3>1 DEF SimpleFile
    <3>3. DOMAIN mem[r] = Memory /\ Memory \subseteq Nat
      BY CallerAssumption DEF Own, TypeOK, Memory
    <3>4. ASSUME NEW j \in DOMAIN mem[r]
          PROVE  IF j < i.size THEN Contains(disk, i, j, mem[r][j]) ELSE mem[r][j] = Blank
      <4>1. j \in Nat /\ mem[r][j] = Blank
        BY <3>1, <3>3 DEF Untouched
      <4>2. ~ j < i.size
        BY <3>2, <4>1
      <4> QED
        BY <4>1, <4>2
    <3> QED
      BY <1>2, <1>3, <3>2, <3>4 DEF Holds, Here
  <2>3. Answer(disk, f.path, f.n, 0, mem[r])
    BY <1>3, <2>2 DEF Answer, Gives
  <2> QED
    BY <1>1, <1>2, <2>1, <2>2, <2>3, ReturnInv DEF Code, Running, CallPart
<1>6. CASE f.tot # 0
  <2>1. f.idx = 1 /\ f.tot = 1 /\ Len(i.exts) = 1 /\ f.size = i.size /\ Untouched(r)
    BY <1>3, <1>4, <1>6
  <2>2. /\ Goto(r, "dseek") /\ UNCHANGED <<shared, mem, rc, tainted>>
        /\ Locals(r, [f EXCEPT !.irec = i.exts[1], !.tot = @ - 1, !.idx = @ + 1])
    <3>1. ExtentAt(i, f.idx) = {i.exts[1]}
      BY <2>1 DEF ExtentAt
    <3> QED
      BY <1>2, <1>6, <3>1 DEF ReadExtent
  <2>3. /\ pc'[r] = "dseek" /\ mem' = mem /\ rc' = rc /\ disk' = disk /\ block_buf' = block_buf
        /\ frame'[r] = [f EXCEPT !.irec = i.exts[1], !.tot = @ - 1, !.idx = @ + 1]
    BY <2>2 DEF Goto, Locals, Own, TypeOK, shared
  <2>4. /\ frame'[r].path = f.path /\ frame'[r].n = f.n /\ frame'[r].k = f.k
        /\ frame'[r].next_ino = f.next_ino /\ frame'[r].last = f.last
        /\ frame'[r].size = f.size /\ frame'[r].raw = f.raw /\ frame'[r].cur = f.cur
        /\ frame'[r].tot = f.tot - 1 /\ frame'[r].irec = i.exts[1]
    BY <1>2, <2>3 DEF Frame
  <2>5. Here(r)' = i /\ frame'[r].tot = 0 /\ frame'[r].irec = i.exts[1]
    BY <2>1, <2>3, <2>4 DEF Here
  <2>6. WalkPart(r)' /\ PhasePart(r)' /\ ScanPart(r)'
    BY <1>1, <1>2, <2>3, <2>4, <2>5 DEF CallPart, WalkPart, PhasePart, ScanPart
  <2>7. FilePart(r)'
    BY <1>3, <2>1, <2>3, <2>4, <2>5 DEF FilePart, Untouched
  <2>8. BufferPart(r)'
    BY <1>1, <1>2, <2>3, <2>4, <2>5 DEF CallPart, BufferPart, Parsed, BlockAt
  <2> QED
    BY <1>2, <2>3, <2>6, <2>7, <2>8 DEF CallOK, CallPart, Under
<1> QED
  BY <1>5, <1>6

LEMMA SeekDataInv ==
  ASSUME NEW r \in Caller, Own(r), SeekData(r), Clean(r), Clean(r)'
  PROVE  CallOK(r)'
<1>1. pc[r] = "dseek" /\ Under(r)
  BY DEF SeekData, Under
<1>2. CallPart(r) /\ rc[r] = Running /\ frame[r] \in Frame
  BY <1>1, CallFacts
<1>3. /\ pc'[r] = "dread" /\ frame' = frame /\ mem' = mem /\ rc' = rc /\ disk' = disk
      /\ block_buf' = block_buf /\ pos' = frame[r].irec.start * BlockSize
  BY DEF SeekData, Seek, Goto, Clean, Own, TypeOK
<1>4. Here(r)' = Here(r)
  BY <1>3 DEF Here
<1>5. WalkPart(r)' /\ PhasePart(r)' /\ ScanPart(r)' /\ FilePart(r)'
  BY <1>1, <1>2, <1>3, <1>4 DEF CallPart, WalkPart, PhasePart, ScanPart, FilePart, Untouched
<1>6. BufferPart(r)'
  BY <1>1, <1>2, <1>3, <1>4 DEF CallPart, BufferPart, Parsed, BlockAt
<1> QED
  BY <1>2, <1>3, <1>5, <1>6 DEF CallOK, CallPart, Under

\* The one extent of the file, cut to its size, ends up at the front of mem.
LEMMA ReadDataInv ==
  ASSUME NEW r \in Caller, Own(r), ReadData(r), Clean(r), Clean(r)'
  PROVE  CallOK(r)'
<1> DEFINE f     == frame[r]
           i     == Here(r)
           whole == f.irec.count * BlockSize
           some  == f.size # 0 /\ f.size < whole % IntWord
           n     == IF some THEN AsSize(f.size) ELSE whole
           took  == IF some THEN f.size ELSE whole % IntWord
<1>1. pc[r] = "dread" /\ Under(r)
  BY DEF ReadData, Under
<1>2. /\ CallPart(r) /\ rc[r] = Running /\ f \in Frame /\ i \in Inode /\ disk \in Image
      /\ i.format = "extents" /\ ~ i.ox => SimpleFile(i)
  BY <1>1, CallFacts
<1>3. /\ SimpleFile(i) /\ i.size <= f.n /\ f.k = Len(f.path.comps)
      /\ f.next_ino \in Named(disk) /\ Reaches(disk, f.path, f.next_ino)
      /\ f.tot = 0 /\ Len(i.exts) = 1 /\ f.irec = i.exts[1] /\ f.size = i.size
      /\ Untouched(r) /\ pos = i.exts[1].start * BlockSize /\ i.size \in Nat
  BY <1>1, <1>2 DEF CallPart, FilePart, PhasePart, WalkPart, Reaches, Inode
<1>4. i.kind = "reg" /\ f.irec.off = 0 /\ 0 < i.size /\ i.size <= whole /\ whole < IntWord
      /\ 2 * i.size < IntWord
  BY <1>3 DEF SimpleFile
<1>5. whole \in Nat
  BY <1>2, ImageAssumption DEF Frame, Extent
<1> HIDE DEF whole, some, n, took
<1>6. whole % IntWord = whole
  BY <1>4, <1>5, DivSmall, ImageAssumption
<1>7. n = i.size
  BY <1>3, <1>4, <1>5, <1>6 DEF n, some, AsSize
<1>8. mem' = [mem EXCEPT ![r] = Fill(mem[r], 0, i.size)]
  <2>1. PICK m \in 0 .. n :
          Arrive(r, n, m) /\ mem' = [mem EXCEPT ![r] = Fill(mem[r], f.irec.off, m)]
    BY DEF ReadData, n, some, whole
  <2>2. ~ tainted'[r] /\ tainted \in [Caller -> BOOLEAN]
    BY DEF Clean, Own, TypeOK
  <2>3. m = n
    BY <2>1, <2>2 DEF Arrive
  <2> QED
    BY <1>4, <1>7, <2>1, <2>3
<1>9. /\ pc'[r] = "extent" /\ rc' = rc /\ disk' = disk /\ block_buf' = block_buf
      /\ frame'[r] = [f EXCEPT !.size = (f.size - took) % Word]
  BY DEF ReadData, Goto, Locals, Own, TypeOK, took, some, whole
<1>10. /\ frame'[r].path = f.path /\ frame'[r].n = f.n /\ frame'[r].k = f.k
       /\ frame'[r].next_ino = f.next_ino /\ frame'[r].last = f.last
       /\ frame'[r].raw = f.raw /\ frame'[r].cur = f.cur /\ frame'[r].tot = f.tot
  BY <1>2, <1>9 DEF Frame
<1>11. Here(r)' = i
  BY <1>9, <1>10 DEF Here
<1>12. Holds(disk, f.next_ino, f.n, mem'[r])
  <2>1. mem[r] \in [Memory -> Unit \cup {Blank}] /\ mem'[r] = Fill(mem[r], 0, i.size)
        /\ Memory \subseteq Nat
    BY <1>8, CallerAssumption DEF Own, TypeOK, Memory
  <2>2. DOMAIN mem'[r] = Memory
    BY <2>1 DEF Fill
  <2>3. ASSUME NEW j \in Memory
        PROVE  IF j < i.size THEN Contains(disk, i, j, mem'[r][j]) ELSE mem'[r][j] = Blank
    <3>1. j \in Nat /\ j - 0 = j /\ pos \in Nat /\ pos + j - 0 = pos + j
      BY <2>1 DEF Own, TypeOK
    <3>2. CASE j < i.size
      <4>1. pos + j \in Address /\ Contains(disk, i, j, disk.units[pos + j])
        BY <1>2, <1>3, <3>1, <3>2, OneExtentContents
      <4>2. j - 0 \in 0 .. i.size - 1
        BY <1>3, <3>1, <3>2
      <4>3. mem'[r][j] = disk.units[pos + j]
        BY <2>1, <3>1, <4>1, <4>2 DEF Fill
      <4> QED
        BY <3>2, <4>1, <4>3
    <3>3. CASE ~ j < i.size
      <4>1. j - 0 \notin 0 .. i.size - 1
        BY <1>3, <3>1, <3>3
      <4>2. mem'[r][j] = mem[r][j]
        BY <2>1, <4>1 DEF Fill
      <4> QED
        BY <1>3, <3>3, <4>2 DEF Untouched
    <3> QED
      BY <3>2, <3>3
  <2> QED
    BY <1>2, <1>3, <1>4, <2>2, <2>3 DEF Holds, Here
<1>13. WalkPart(r)' /\ PhasePart(r)' /\ ScanPart(r)'
  BY <1>1, <1>2, <1>9, <1>10, <1>11 DEF CallPart, WalkPart, PhasePart, ScanPart
<1>14. FilePart(r)'
  BY <1>3, <1>9, <1>10, <1>11, <1>12 DEF FilePart
<1>15. BufferPart(r)'
  BY <1>1, <1>2, <1>9, <1>10, <1>11 DEF CallPart, BufferPart, Parsed, BlockAt
<1> QED
  BY <1>2, <1>9, <1>13, <1>14, <1>15 DEF CallOK, CallPart, Under

LEMMA WorkInv ==
  ASSUME NEW r \in Caller, Own(r), Work(r)
  PROVE  CallOK(r)'
<1>1. SUFFICES ASSUME Clean(r)' PROVE CallOK(r)'
  BY DEF CallOK
<1>2. Clean(r)
  BY <1>1, WorkTaints DEF Own
<1> QED
  BY <1>1, <1>2, NextComponentInv, SeekInodeInv, ReadBlockInv, TakeInodeInv, CopyInodeInv,
     ReadHeaderInv, ScanEntryInv, OpenFileInv, ReadExtentInv, SeekDataInv, ReadDataInv DEF Work

LEMMA WorkIsUnder == ASSUME NEW r \in Caller, Work(r) PROVE Under(r)
BY DEF Work, Under, NextComponent, SeekInode, SeekData, ReadBlock, ReadData, ResetBuf,
       SkipToInode, TakeInode, CopyInode, ReadHeader, ScanEntry, OpenFile, Opened, ReadExtent

\* rootino stays what the image says.
LEMMA RootedInv ==
  ASSUME TypeOK, Rooted, NEW r \in Caller, InitReadFile(r) \/ Call(r) \/ Work(r)
  PROVE  Rooted'
<1>1. disk' = disk /\ \A q \in Caller \ {r} : pc'[q] = pc[q]
  BY StepKeeps
<1>2. CASE InitReadFile(r)
  BY <1>1, <1>2 DEF InitReadFile, Rooted
<1>3. CASE Call(r) \/ Work(r)
  <2>1. rootino' = rootino
    BY <1>3 DEF Call, Work, NextComponent, SeekInode, SeekData, Seek, ReadBlock, ReadData,
                ResetBuf, SkipToInode, TakeInode, CopyInode, ReadHeader, ScanEntry, OpenFile,
                Opened, ReadExtent, Return, shared
  <2>2. pc[r] # "start"
    BY <1>3, WorkIsUnder DEF Call, Under
  <2> QED
    BY <1>1, <2>1, <2>2 DEF Rooted
<1> QED
  BY <1>2, <1>3

\* One caller works at a time.
LEMMA TurnsInv ==
  ASSUME ~ Overlap, IInv, NEW r \in Caller, InitReadFile(r) \/ Call(r) \/ Work(r)
  PROVE  OneAtATime'
<1>1. \A q \in Caller \ {r} : Under(q)' => Under(q)
  BY StepKeeps DEF Under, IInv
<1>2. CASE InitReadFile(r)
  <2>1. ~ Under(r)'
    BY <1>2 DEF InitReadFile, Goto, Under, IInv, TypeOK
  <2> QED
    BY <1>1, <2>1 DEF OneAtATime, IInv
<1>3. CASE Call(r)
  <2>1. \A q \in Caller : ~ Under(q)
    BY <1>3 DEF Call
  <2> QED
    BY <1>1, <2>1 DEF OneAtATime
<1>4. CASE Work(r)
  <2>1. \A q \in Caller \ {r} : ~ Under(q)
    BY <1>4, WorkIsUnder DEF OneAtATime, IInv
  <2> QED
    BY <1>1, <2>1 DEF OneAtATime
<1> QED
  BY <1>2, <1>3, <1>4

\* A call that is under way is not disturbed by init_read_file_from_disk in
\* another caller, nor one that is over by anything.
LEMMA OtherInv ==
  ASSUME TypeOK, NEW r \in Caller, InitReadFile(r) \/ Call(r) \/ Work(r),
         NEW q \in Caller \ {r}, CallOK(q), Under(q) => InitReadFile(r)
  PROVE  CallOK(q)'
<1>1. /\ disk' = disk /\ pc'[q] = pc[q] /\ frame'[q] = frame[q] /\ mem'[q] = mem[q]
      /\ rc'[q] = rc[q] /\ tainted'[q] = tainted[q]
  BY StepKeeps
<1>2. CASE ~ Under(q)
  BY <1>1, <1>2, IdleKept
<1>3. CASE Under(q)
  <2>1. pos' = pos /\ block_buf' = block_buf /\ block_bufp' = block_bufp
    BY <1>3 DEF InitReadFile
  <2> QED
    BY <1>1, <1>3, <2>1 DEF CallOK, Clean, Under, Untouched, CallPart, WalkPart, PhasePart,
                            BufferPart, ScanPart, FilePart, Here, Sought, BlockAt
<1> QED
  BY <1>2, <1>3

LEMMA StepInv ==
  ASSUME ~ Overlap, IInv, [Next]_vars
  PROVE  IInv'
<1>1. TypeOK'
  BY TypeStep DEF IInv
<1>2. CASE UNCHANGED vars
  BY <1>2 DEF vars, shared, IInv, TypeOK, OneAtATime, Rooted, CallOK, Clean, Under, AnswerPart,
              DonePart, Untouched, CallPart, WalkPart, PhasePart, BufferPart, ScanPart, FilePart,
              Here, Sought, BlockAt
<1>3. ASSUME NEW r \in Caller, InitReadFile(r) \/ Call(r) \/ Work(r) PROVE IInv'
  <2>1. OneAtATime' /\ Rooted'
    BY <1>3, TurnsInv, RootedInv DEF IInv
  <2>2. CallOK(r)'
    BY <1>3, OwnPart, InitReadFileInv, CallInv, WorkInv DEF CallOK, IInv
  <2>3. ASSUME NEW q \in Caller \ {r} PROVE CallOK(q)'
    <3>1. Under(q) => InitReadFile(r)
      BY <1>3, WorkIsUnder DEF Call, OneAtATime, IInv
    <3> QED
      BY <1>3, <3>1, OtherInv DEF IInv
  <2> QED
    BY <1>1, <2>1, <2>2, <2>3 DEF IInv
<1> QED
  BY <1>2, <1>3 DEF Next

\* The invariant of calls that do not overlap.
THEOREM Invariance == ASSUME ~ Overlap PROVE Spec => []IInv
<1>1. IInv /\ [Next]_vars => IInv'
  BY StepInv
<1> QED
  BY <1>1, InitInv, PTL DEF Spec

-----------------------------------------------------------------------------
(***************************************************************************)
(* What follows from the invariant.                                        *)
(***************************************************************************)
LEMMA InvParsed == IInv => ParsedIsAsked
<1> SUFFICES ASSUME IInv, NEW r \in Caller, Clean(r), pc[r] \in Parsed
             PROVE  /\ frame[r].raw \in Buffer
                    /\ block_buf[frame[r].raw] = InodeAt(disk, frame[r].next_ino)
                    /\ frame[r].cur = InodeAt(disk, frame[r].next_ino)
  BY DEF ParsedIsAsked
<1>1. CallPart(r)
  BY OwnPart, CallFacts DEF Parsed, Under
<1> QED
  BY <1>1, OwnPart, RawIsHere DEF CallPart, BufferPart, Here

LEMMA InvWalk == IInv => WalkFollowsPath
<1> SUFFICES ASSUME IInv, NEW r \in Caller, Clean(r), Under(r) \/ pc[r] = "done"
             PROVE  Resolves(disk, frame[r].path.comps, frame[r].k, frame[r].next_ino)
  BY DEF WalkFollowsPath
<1>1. WalkPart(r)
  BY DEF IInv, CallOK, CallPart, DonePart, Under
<1> QED
  BY <1>1 DEF WalkPart, Walked

LEMMA InvAnswer == IInv => AnswerIsRight
BY DEF IInv, CallOK, Under, AnswerPart, DonePart, AnswerIsRight

\* A right answer leaves nothing past the room.
LEMMA AnswerInRoom ==
  ASSUME TypeOK, NEW r \in Caller, NEW c, NEW j \in Memory, j >= frame[r].n,
         Answer(disk, frame[r].path, frame[r].n, c, mem[r]), Supported(disk)
  PROVE  mem[r][j] = Blank
<1>1. DOMAIN mem[r] = Memory /\ j \in Nat /\ frame[r].n \in Nat /\ disk \in Image
  BY CallerAssumption, ImageAssumption DEF TypeOK, Memory, Frame
<1>2. CASE Gives(disk, frame[r].path, frame[r].n, mem[r])
  <2>1. PICK ino \in Named(disk) :
          /\ InodeAt(disk, ino) \in Inode /\ InodeAt(disk, ino).size <= frame[r].n
          /\ \A x \in DOMAIN mem[r] : IF x < InodeAt(disk, ino).size
                                      THEN Contains(disk, InodeAt(disk, ino), x, mem[r][x])
                                      ELSE mem[r][x] = Blank
    BY <1>2 DEF Gives, Holds
  <2>2. InodeAt(disk, ino).size \in Nat
    BY <2>1 DEF Inode
  <2>3. ~ j < InodeAt(disk, ino).size
    BY <1>1, <2>1, <2>2
  <2> QED
    BY <1>1, <2>1, <2>3
<1>3. CASE \A x \in DOMAIN mem[r] : mem[r][x] = Blank
  BY <1>1, <1>3
<1> QED
  BY <1>2, <1>3 DEF Answer

LEMMA InvRoom == IInv => StaysInRoom
<1> SUFFICES ASSUME IInv, NEW r \in Caller, Clean(r), NEW j \in Memory, j >= frame[r].n
             PROVE  mem[r][j] = Blank
  BY DEF StaysInRoom
<1>1. CASE Untouched(r)
  BY <1>1 DEF Untouched
<1>2. ASSUME NEW c, Answer(disk, frame[r].path, frame[r].n, c, mem[r]) PROVE mem[r][j] = Blank
  BY <1>2, AnswerInRoom DEF IInv, Clean
<1>3. CASE Under(r)
  <2>1. FilePart(r)
    BY <1>3, OwnPart, CallFacts DEF CallPart
  <2>2. CASE /\ frame[r].tot = 0 /\ pc[r] = "extent"
             /\ Holds(disk, frame[r].next_ino, frame[r].n, mem[r])
    <3>1. Gives(disk, frame[r].path, frame[r].n, mem[r])
      BY <1>3, <2>2, OwnPart, CallFacts DEF CallPart, WalkPart, PhasePart, Reaches, Gives
    <3> QED
      BY <1>2, <3>1 DEF Answer
  <2> QED
    BY <1>1, <2>1, <2>2 DEF FilePart
<1>4. CASE ~ Under(r)
  BY <1>1, <1>2, <1>4 DEF IInv, CallOK, AnswerPart
<1> QED
  BY <1>3, <1>4

\* The inode that is parsed is the one that was asked for.
THEOREM ParsedCorrect == ASSUME ~ Overlap PROVE Spec => []ParsedIsAsked
BY Invariance, InvParsed, PTL

\* The walk follows the path.
THEOREM WalkCorrect == ASSUME ~ Overlap PROVE Spec => []WalkFollowsPath
BY Invariance, InvWalk, PTL

\* What a call returns is right by the image.
THEOREM AnswerCorrect == ASSUME ~ Overlap PROVE Spec => []AnswerIsRight
BY Invariance, InvAnswer, PTL

\* Nothing past the room is written.
THEOREM RoomCorrect == ASSUME ~ Overlap PROVE Spec => []StaysInRoom
BY Invariance, InvRoom, PTL

(***************************************************************************)
(* The refinement of ReadService.                                          *)
(***************************************************************************)
Untainted == \A r \in Caller : ~ tainted[r]

LEMMA UntaintedInit == Init => Untainted
BY DEF Init, Untainted

LEMMA UntaintedStep == ASSUME ~ Faults, TypeOK, Untainted, [Next]_vars PROVE Untainted'
<1>1. CASE UNCHANGED vars
  BY <1>1 DEF vars, Untainted
<1>2. ASSUME NEW r \in Caller, InitReadFile(r) PROVE tainted' = tainted
  BY <1>2 DEF InitReadFile
<1>3. ASSUME NEW r \in Caller, Call(r) PROVE tainted' = [tainted EXCEPT ![r] = FALSE]
  BY <1>3 DEF Call
<1>4. ASSUME NEW r \in Caller, Work(r) PROVE tainted' = tainted
  BY <1>4 DEF Work, NextComponent, SeekInode, SeekData, Seek, ReadBlock, ReadData, Arrive,
       ResetBuf, SkipToInode, TakeInode, CopyInode, ReadHeader, ScanEntry, OpenFile, Opened,
       ReadExtent, Return
<1> QED
  BY <1>1, <1>2, <1>3, <1>4 DEF Next, Untainted, TypeOK

LEMMA WorkStaysBusy ==
  ASSUME TypeOK, NEW r \in Caller, Work(r)
  PROVE  pc'[r] \notin {"start", "idle"}
<1> USE DEF TypeOK, Goto, Return
<1>1. CASE NextComponent(r) \/ SeekInode(r) \/ SeekData(r) \/ ReadBlock(r) \/ ResetBuf(r)
  BY <1>1 DEF NextComponent, SeekInode, SeekData, Seek, ReadBlock, ResetBuf
<1>2. CASE SkipToInode(r) \/ TakeInode(r) \/ CopyInode(r) \/ ReadHeader(r)
  BY <1>2 DEF SkipToInode, TakeInode, CopyInode, ReadHeader
<1>3. CASE ScanEntry(r)
  BY <1>3 DEF ScanEntry
<1>4. CASE OpenFile(r) \/ ReadExtent(r) \/ ReadData(r)
  BY <1>4 DEF OpenFile, Opened, ReadExtent, ReadData
<1> QED
  BY <1>1, <1>2, <1>3, <1>4 DEF Work

\* The arguments of a call stay what they are until the next one.
LEMMA ReturnKeepsRequest ==
  ASSUME TypeOK, NEW r \in Caller, NEW c, Return(r, c)
  PROVE  frame'[r].path = frame[r].path /\ frame'[r].n = frame[r].n
<1>1. frame[r] \in Frame
  BY DEF TypeOK
<1>2. frame'[r] = [frame[r] EXCEPT !.raw = 0, !.cur = ZeroInode, !.tot = 0, !.idx = 0,
                                   !.irec = ZeroExtent, !.size = 0, !.last = FALSE]
  BY DEF TypeOK, Return, Locals
<1> QED
  BY <1>1, <1>2 DEF Frame

LEMMA WorkKeepsRequest ==
  ASSUME TypeOK, NEW r \in Caller, Work(r)
  PROVE  frame'[r].path = frame[r].path /\ frame'[r].n = frame[r].n
<1>1. /\ frame[r] \in Frame
      /\ frame' = frame => frame'[r] = frame[r]
      /\ \A g : Locals(r, g) => frame'[r] = g
  BY DEF TypeOK, Locals
<1>2. \A c : Return(r, c) => frame'[r].path = frame[r].path /\ frame'[r].n = frame[r].n
  BY ReturnKeepsRequest
<1>3. CASE NextComponent(r)
  BY <1>1, <1>2, <1>3 DEF NextComponent, Frame
<1>4. CASE SeekInode(r) \/ SeekData(r) \/ ReadBlock(r) \/ ResetBuf(r) \/ SkipToInode(r)
  BY <1>1, <1>4 DEF SeekInode, SeekData, Seek, ReadBlock, ResetBuf, SkipToInode
<1>5. CASE TakeInode(r)
  BY <1>1, <1>5 DEF TakeInode, Frame
<1>6. CASE CopyInode(r)
  BY <1>1, <1>2, <1>6 DEF CopyInode, Frame
<1>7. CASE ReadHeader(r)
  BY <1>1, <1>2, <1>7 DEF ReadHeader, Frame
<1>8. CASE ScanEntry(r)
  BY <1>1, <1>2, <1>8 DEF ScanEntry, Frame
<1>9. CASE OpenFile(r)
  BY <1>1, <1>2, <1>9 DEF OpenFile, Opened, Frame
<1>10. CASE ReadExtent(r)
  BY <1>1, <1>2, <1>10 DEF ReadExtent, Frame
<1>11. CASE ReadData(r)
  BY <1>1, <1>11 DEF ReadData, Frame
<1> QED
  BY <1>3, <1>4, <1>5, <1>6, <1>7, <1>8, <1>9, <1>10, <1>11 DEF Work

(***************************************************************************)
(* Every step is a step of the service, or changes nothing it shows.       *)
(***************************************************************************)
LEMMA InitMaps == Init => Service!Init
BY DEF Init, Service!Init, Service!NoCall, Service!Nothing, Under, Memory

LEMMA InitReadFileMaps ==
  ASSUME TypeOK, NEW r \in Caller, InitReadFile(r)
  PROVE  Service!Forget(r) \/ UNCHANGED Service!vars
<1>1. /\ disk' = disk /\ frame' = frame /\ mem' = mem /\ rc' = rc
      /\ pc'[r] = "idle" /\ \A q \in Caller \ {r} : pc'[q] = pc[q]
  BY DEF InitReadFile, Goto, TypeOK
<1>2. CASE pc[r] = "start"
  BY <1>1, <1>2 DEF Service!vars, Under
<1>3. CASE pc[r] = "done"
  <2>1. ~ Under(r) /\ ~ Under(r)' /\ \A q \in Caller \ {r} : Under(q)' = Under(q)
    BY <1>1, <1>3 DEF Under
  <2> QED
    BY <1>1, <1>3, <2>1 DEF Service!Forget, Service!Silent, Service!Nothing, Memory, Under
<1> QED
  BY <1>2, <1>3 DEF InitReadFile

LEMMA CallMaps ==
  ASSUME ~ Overlap, TypeOK, NEW r \in Caller, Call(r)
  PROVE  Service!Ask(r)
<1>1. /\ disk' = disk /\ ~ Under(r) /\ pc'[r] = "next"
      /\ \A q \in Caller \ {r} : /\ pc'[q] = pc[q] /\ frame'[q] = frame[q]
                                /\ rc'[q] = rc[q] /\ mem'[q] = mem[q]
  BY StepKeeps DEF Call, Under, Goto, TypeOK
<1>2. PICK p \in Path, n \in Room : frame'[r].path = p /\ frame'[r].n = n
  <2>1. PICK p \in Path, n \in Room :
          Locals(r, [path |-> p, n |-> n, k |-> 0, last |-> FALSE,
                     next_ino |-> rootino, raw |-> 0, cur |-> ZeroInode,
                     tot |-> 0, idx |-> 0, irec |-> ZeroExtent, size |-> n])
    BY DEF Call
  <2> QED
    BY <2>1 DEF Locals, TypeOK
<1>3. Under(r)' /\ \A q \in Caller \ {r} : Under(q)' = Under(q)
  BY <1>1 DEF Under
<1>4. [q \in Caller |-> [path |-> frame'[q].path, n |-> frame'[q].n]]
      = [[q \in Caller |-> [path |-> frame[q].path, n |-> frame[q].n]]
           EXCEPT ![r] = [path |-> p, n |-> n]]
  BY <1>1, <1>2
<1>5. Service!Silent(r)
  BY <1>1, <1>3 DEF Service!Silent, Service!Nothing, Memory
<1> QED
  BY <1>1, <1>2, <1>3, <1>4, <1>5 DEF Service!Ask

LEMMA WorkMaps ==
  ASSUME ~ Faults, IInv, IInv', Untainted', NEW r \in Caller, Work(r)
  PROVE  Service!Reply(r) \/ UNCHANGED Service!vars
<1>1. /\ disk' = disk /\ Under(r) /\ pc'[r] \notin {"start", "idle"}
      /\ frame'[r].path = frame[r].path /\ frame'[r].n = frame[r].n
      /\ \A q \in Caller \ {r} : /\ pc'[q] = pc[q] /\ frame'[q] = frame[q]
                                /\ rc'[q] = rc[q] /\ mem'[q] = mem[q]
  BY StepKeeps, WorkIsUnder, WorkStaysBusy, WorkKeepsRequest DEF IInv
<1>2. pc[r] # "done" /\ \A q \in Caller \ {r} : Under(q)' = Under(q)
  BY <1>1 DEF Under
<1>3. CASE pc'[r] = "done"
  <2>1. Supported(disk) =>
          Answer(disk, frame[r].path, frame[r].n, rc'[r], mem'[r])
    BY <1>1, <1>3 DEF IInv, CallOK, AnswerPart, DonePart, Clean, Under, Untainted
  <2>2. ~ Under(r)'
    BY <1>3 DEF Under
  <2> QED
    BY <1>1, <1>2, <1>3, <2>1, <2>2 DEF Service!Reply
<1>4. CASE pc'[r] # "done"
  <2>1. Under(r)'
    BY <1>1, <1>4 DEF Under
  <2> QED
    BY <1>1, <1>2, <1>4, <2>1 DEF Service!vars
<1> QED
  BY <1>3, <1>4

LEMMA StepMaps ==
  ASSUME ~ Overlap, ~ Faults, IInv, IInv', Untainted', [Next]_vars
  PROVE  [Service!Next]_(Service!vars)
<1>1. CASE UNCHANGED vars
  BY <1>1 DEF vars, shared, Service!vars, Under
<1>2. ASSUME NEW r \in Caller, InitReadFile(r) \/ Call(r) \/ Work(r)
      PROVE  [Service!Next]_(Service!vars)
  BY <1>2, InitReadFileMaps, CallMaps, WorkMaps DEF IInv, Service!Next
<1> QED
  BY <1>1, <1>2 DEF Next

\* Calls that do not overlap and whose seeks and reads succeed are calls of the
\* service: each is answered once, rightly, and changes nothing another caller
\* sees (read_file_from_disk as hello.c uses it, read_file.c 185-327).
THEOREM Refinement == ASSUME ~ Overlap, ~ Faults PROVE Spec => ImplementsService
<1>1. Untainted /\ TypeOK /\ [Next]_vars => Untainted'
  BY UntaintedStep
<1>2. IInv => TypeOK
  BY DEF IInv
<1>3. IInv /\ IInv' /\ Untainted' /\ [Next]_vars => [Service!Next]_(Service!vars)
  BY StepMaps
<1>4. Spec => []IInv
  BY Invariance
<1> QED
  BY <1>1, <1>2, <1>3, <1>4, InitMaps, UntaintedInit, PTL
     DEF Spec, ImplementsService, Service!Spec

(***************************************************************************)
(* The driver leaves nothing behind, and a request whose read ran alone is *)
(* answered by the image: the invariant of one call, proved for calls that *)
(* take turns, holds of the calls that nothing overlapped, whatever the    *)
(* others have left in the static variables.                               *)
(***************************************************************************)
Bytes == UNION {[0 .. n - 1 -> Unit \cup {Blank}] : n \in Nat}
Irp == [stage : {"free", "init", "call", "work", "done"}, kind : {"read", "write"},
        len : Nat, info : Nat, buf : Bytes]

IrpTypeOK ==
  /\ loaded \in BOOLEAN /\ device \in BOOLEAN /\ link \in BOOLEAN /\ handle \in BOOLEAN
  /\ irp \in [Caller -> Irp] /\ alone \in [Caller -> BOOLEAN]

\* Device, link and handle come and go with the driver, and a request is under
\* way only while the device is open.
HasDevice == /\ device = loaded /\ link = loaded
             /\ handle => loaded
             /\ \A r \in Caller : Pending(r) => handle

\* Where a thread is in ReadRoutine tells where it is in the call.
InStage(r) ==
  /\ irp[r].stage \in {"free", "init", "done"} => pc[r] \in {"start", "done"}
  /\ irp[r].stage = "done" /\ irp[r].kind = "read" => pc[r] = "done"
  /\ irp[r].stage = "call" => pc[r] = "idle"
  /\ irp[r].stage = "work" => pc[r] \notin {"start", "idle"}

\* A call that is under way and has been alone so far is alone.
Solo == \A r, q \in Caller : alone[r] /\ Under(r) /\ Under(q) => r = q

\* A request hands up the front of the memory that its call has filled.
HandedUp(r) ==
  irp[r].stage = "done" /\ irp[r].kind = "read" =>
    /\ irp[r].len \in Length
    /\ irp[r].buf = [j \in 0 .. irp[r].len - 1 |-> mem[r][j]]

CallsOK == /\ TypeOK /\ Rooted /\ Solo
           /\ \A r \in Caller : alone[r] => CallOK(r)
RequestsOK == /\ IrpTypeOK /\ HasDevice
              /\ \A r \in Caller : /\ InStage(r) /\ HandedUp(r)
                                   /\ Pending(r) => irp[r].len \in Length

DInv == CallsOK /\ RequestsOK

LEMMA LengthFacts == Length \subseteq Nat /\ \A n \in Length : 0 .. n - 1 \subseteq Memory
BY LengthAssumption, CallerAssumption DEF Memory

LEMMA NoIrpType == NoIrp \in Irp /\ NoIrp.stage = "free" /\ NoIrp.len = 0
<1>1. << >> \in Bytes
  <2>1. << >> \in [0 .. 0 - 1 -> Unit \cup {Blank}]
    <3>1. 0 .. 0 - 1 = {}
      OBVIOUS
    <3>2. DOMAIN << >> = {} /\ << >> = [x \in {} |-> Blank]
      OBVIOUS
    <3> QED
      BY <3>1, <3>2
  <2> QED
    BY <2>1 DEF Bytes
<1> QED
  BY <1>1 DEF NoIrp, Irp

LEMMA DInvInit == DriverInit => DInv
<1> SUFFICES ASSUME DriverInit PROVE DInv
  OBVIOUS
<1>1. TypeOK
  BY TypeInit DEF DriverInit
<1>2. \A r \in Caller : pc[r] = "start" /\ irp[r] = NoIrp /\ ~ alone[r]
  BY DEF DriverInit, Init
<1>3. CallsOK
  BY <1>1, <1>2 DEF CallsOK, Rooted, Solo
<1>4. IrpTypeOK
  BY NoIrpType DEF DriverInit, IrpTypeOK
<1> QED
  BY <1>2, <1>3, <1>4, NoIrpType DEF DInv, RequestsOK, DriverInit, HasDevice, Pending, InStage, HandedUp

(***************************************************************************)
(* The calls.                                                              *)
(***************************************************************************)
LEMMA QuietCalls ==
  ASSUME CallsOK, UNCHANGED vars, alone' = alone
  PROVE  CallsOK'
BY DEF CallsOK, vars, shared, TypeOK, Rooted, Solo, CallOK, Clean, Under, AnswerPart,
       DonePart, Untouched, CallPart, WalkPart, PhasePart, BufferPart, ScanPart, FilePart,
       Here, Sought, BlockAt

LEMMA PrepareCalls ==
  ASSUME CallsOK, NEW r \in Caller, InitReadFile(r), alone' = alone
  PROVE  CallsOK'
<1>1. TypeOK'
  BY TypeStep DEF CallsOK, Next
<1>2. Rooted'
  BY RootedInv DEF CallsOK
<1>3. ASSUME NEW q \in Caller, alone[q] PROVE CallOK(q)'
  <2>1. CASE q = r
    BY <1>3, <2>1, InitReadFileInv DEF CallsOK, Own
  <2>2. CASE q # r
    BY <1>3, <2>2, OtherInv DEF CallsOK
  <2> QED
    BY <2>1, <2>2
<1>4. ~ Under(r)' /\ \A q \in Caller \ {r} : Under(q)' = Under(q)
  BY StepKeeps DEF InitReadFile, Goto, Under, CallsOK, TypeOK
<1>5. Solo'
  BY <1>4 DEF CallsOK, Solo
<1> QED
  BY <1>1, <1>2, <1>3, <1>5 DEF CallsOK

\* A call that begins spoils those it overlaps, and itself if there are any.
LEMMA StartCalls ==
  ASSUME CallsOK, NEW r \in Caller, Call(r), alone \in [Caller -> BOOLEAN],
         alone' = [q \in Caller |-> IF q = r THEN \A p \in Caller : ~ Under(p)
                                    ELSE alone[q] /\ ~ Under(q)]
  PROVE  CallsOK'
<1>1. TypeOK'
  BY TypeStep DEF CallsOK, Next
<1>2. Rooted'
  BY RootedInv DEF CallsOK
<1>3. ASSUME NEW q \in Caller, alone'[q] PROVE CallOK(q)'
  <2>1. CASE q = r
    BY <2>1, CallInv DEF CallsOK, CallOK
  <2>2. CASE q # r
    <3>1. alone[q] /\ ~ Under(q)
      BY <1>3, <2>2
    <3> QED
      BY <2>2, <3>1, OtherInv DEF CallsOK
  <2> QED
    BY <2>1, <2>2
<1>4. \A q \in Caller \ {r} : Under(q)' = Under(q)
  BY StepKeeps DEF Under, CallsOK
<1>5. Solo'
  BY <1>4 DEF Solo
<1> QED
  BY <1>1, <1>2, <1>3, <1>5 DEF CallsOK

LEMMA WorkCalls ==
  ASSUME CallsOK, NEW r \in Caller, Work(r), alone' = alone
  PROVE  CallsOK'
<1>1. TypeOK'
  BY TypeStep DEF CallsOK, Next
<1>2. Rooted'
  BY RootedInv DEF CallsOK
<1>3. Under(r)
  BY WorkIsUnder
<1>4. ASSUME NEW q \in Caller, alone[q] PROVE CallOK(q)'
  <2>1. CASE q = r
    BY <1>4, <2>1, WorkInv DEF CallsOK, Own
  <2>2. CASE q # r
    <3>1. ~ Under(q)
      BY <1>3, <1>4, <2>2 DEF CallsOK, Solo
    <3> QED
      BY <1>4, <2>2, <3>1, OtherInv DEF CallsOK
  <2> QED
    BY <2>1, <2>2
<1>5. \A q \in Caller : Under(q)' => Under(q)
  BY <1>3, StepKeeps DEF Under, CallsOK
<1>6. Solo'
  BY <1>5 DEF CallsOK, Solo
<1> QED
  BY <1>1, <1>2, <1>4, <1>6 DEF CallsOK

LEMMA UnloadCalls == ASSUME CallsOK, HelloDDKUnload PROVE CallsOK'
<1>1. TypeOK'
  BY ImageAssumption DEF HelloDDKUnload, CallsOK, TypeOK, Labels, Unit
<1>2. \A r \in Caller : pc'[r] = "start" /\ ~ alone'[r]
  BY DEF HelloDDKUnload
<1> QED
  BY <1>1, <1>2 DEF CallsOK, Rooted, Solo

(***************************************************************************)
(* The requests.                                                           *)
(***************************************************************************)
\* A request goes on: what its new state has to be like.
LEMMA RequestStep ==
  ASSUME RequestsOK, NEW r \in Caller, NEW o \in Irp, irp' = [irp EXCEPT ![r] = o],
         UNCHANGED <<loaded, device, link, handle>>, handle,
         alone' \in [Caller -> BOOLEAN],
         \A q \in Caller \ {r} : pc'[q] = pc[q] /\ mem'[q] = mem[q],
         o.stage \in {"free", "init", "done"} => pc'[r] \in {"start", "done"},
         o.stage = "call" => pc'[r] = "idle",
         o.stage = "work" => pc'[r] \notin {"start", "idle"},
         o.stage \in {"init", "call", "work"} => o.len \in Length,
         o.stage = "done" /\ o.kind = "read" =>
           /\ pc'[r] = "done" /\ o.len \in Length
           /\ o.buf = [j \in 0 .. o.len - 1 |-> mem'[r][j]]
  PROVE  RequestsOK'
<1>1. /\ irp' \in [Caller -> Irp] /\ irp'[r] = o
      /\ \A q \in Caller \ {r} : irp'[q] = irp[q]
  BY DEF RequestsOK, IrpTypeOK
<1>2. IrpTypeOK' /\ HasDevice'
  BY <1>1 DEF RequestsOK, IrpTypeOK, HasDevice, Pending
<1>3. ASSUME NEW q \in Caller
      PROVE  /\ InStage(q)' /\ HandedUp(q)'
             /\ Pending(q)' => irp'[q].len \in Length
  <2>1. CASE q = r
    BY <1>1, <2>1 DEF InStage, HandedUp, Pending
  <2>2. CASE q # r
    <3>1. irp'[q] = irp[q] /\ pc'[q] = pc[q] /\ mem'[q] = mem[q]
      BY <1>1, <2>2
    <3>2. /\ InStage(q) /\ HandedUp(q)
          /\ Pending(q) => irp[q].len \in Length
      BY DEF RequestsOK
    <3> QED
      BY <3>1, <3>2 DEF InStage, HandedUp, Pending
  <2> QED
    BY <2>1, <2>2
<1> QED
  BY <1>2, <1>3 DEF RequestsOK

\* The steps that leave all requests alone.
LEMMA QuietRequests ==
  ASSUME RequestsOK, irp' = irp, alone' = alone, pc' = pc, mem' = mem,
         loaded' \in BOOLEAN, device' = loaded', link' = loaded',
         handle' \in BOOLEAN, handle' => loaded', \A r \in Caller : Pending(r) => handle'
  PROVE  RequestsOK'
BY DEF RequestsOK, IrpTypeOK, HasDevice, Pending, InStage, HandedUp

LEMMA EntryInv ==
  ASSUME DInv, DriverEntry \/ HelloDDKUnload \/ Create \/ Close
  PROVE  DInv'
<1>1. CASE DriverEntry
  <2>1. UNCHANGED <<vars, handle, irp, alone, pc, mem>> /\ ~ loaded
    BY <1>1 DEF DriverEntry, vars, shared
  <2>2. ~ handle /\ handle \in BOOLEAN /\ \A r \in Caller : ~ Pending(r)
    BY <2>1 DEF DInv, RequestsOK, HasDevice, IrpTypeOK
  <2>3. loaded' \in BOOLEAN /\ device' = loaded' /\ link' = loaded'
    BY <1>1, <2>1 DEF DriverEntry, CreateDevice, DInv, RequestsOK, HasDevice, IrpTypeOK
  <2> QED
    BY <2>1, <2>2, <2>3, QuietCalls, QuietRequests DEF DInv
<1>2. CASE HelloDDKUnload
  <2>1. /\ loaded' = FALSE /\ device' = FALSE /\ link' = FALSE /\ handle' = FALSE
        /\ irp' = [r \in Caller |-> NoIrp] /\ alone' = [r \in Caller |-> FALSE]
        /\ pc' = [r \in Caller |-> "start"]
    BY <1>2 DEF HelloDDKUnload, DInv, RequestsOK, IrpTypeOK
  <2>2. IrpTypeOK'
    BY <2>1, NoIrpType DEF IrpTypeOK
  <2>3. RequestsOK'
    BY <2>1, <2>2, NoIrpType DEF RequestsOK, HasDevice, Pending, InStage, HandedUp
  <2> QED
    BY <1>2, <2>3, UnloadCalls DEF DInv
<1>3. CASE Create
  <2>1. UNCHANGED <<vars, loaded, device, link, irp, alone, pc, mem>> /\ loaded /\ handle' = TRUE
    BY <1>3 DEF Create, vars, shared
  <2> QED
    BY <2>1, QuietCalls, QuietRequests DEF DInv, RequestsOK, HasDevice, IrpTypeOK
<1>4. CASE Close
  <2>1. /\ UNCHANGED <<vars, loaded, device, link, irp, alone, pc, mem>> /\ handle' = FALSE
        /\ \A r \in Caller : ~ Pending(r)
    BY <1>4 DEF Close, vars, shared
  <2> QED
    BY <2>1, QuietCalls, QuietRequests DEF DInv, RequestsOK, HasDevice, IrpTypeOK
<1> QED
  BY <1>1, <1>2, <1>3, <1>4

\* What is known of the request of r.
LEMMA RequestFacts ==
  ASSUME DInv, NEW r \in Caller
  PROVE  /\ irp \in [Caller -> Irp] /\ irp[r] \in Irp
         /\ alone \in [Caller -> BOOLEAN]
         /\ Pending(r) => handle /\ irp[r].len \in Length
         /\ InStage(r) /\ mem[r] \in [Memory -> Unit \cup {Blank}]
<1>1. IrpTypeOK /\ HasDevice /\ InStage(r) /\ TypeOK
  BY DEF DInv, RequestsOK, CallsOK
<1>2. Pending(r) => irp[r].len \in Length
  BY DEF DInv, RequestsOK, Pending
<1>3. mem[r] \in [Memory -> Unit \cup {Blank}]
  BY <1>1 DEF TypeOK
<1> QED
  BY <1>1, <1>2, <1>3 DEF IrpTypeOK, HasDevice

LEMMA GivenInv ==
  ASSUME DInv, NEW r \in Caller, WriteRoutine(r) \/ Accept(r)
  PROVE  DInv'
<1>1. /\ UNCHANGED <<vars, dvars, alone, pc, mem, loaded, device, link, handle>>
      /\ handle /\ ~ Pending(r)
  BY DEF WriteRoutine, Accept, vars, shared, dvars
<1>2. irp[r].stage \in {"free", "done"} /\ pc[r] \in {"start", "done"}
  BY <1>1, RequestFacts DEF Pending, InStage, Irp
<1>3. CallsOK'
  BY <1>1, QuietCalls DEF DInv
<1>4. CASE WriteRoutine(r)
  <2> DEFINE o == [NoIrp EXCEPT !.stage = "done", !.kind = "write"]
  <2>1. irp' = [irp EXCEPT ![r] = o]
    BY <1>4 DEF WriteRoutine
  <2>2. o \in Irp /\ o.stage = "done" /\ o.kind = "write"
    BY NoIrpType DEF Irp
  <2> HIDE DEF o
  <2> QED
    BY <1>1, <1>2, <1>3, <2>1, <2>2, RequestStep, RequestFacts DEF DInv
<1>5. CASE Accept(r)
  <2>1. PICK n \in Length : irp' = [irp EXCEPT ![r] = [NoIrp EXCEPT !.stage = "init", !.len = n]]
    BY <1>5 DEF Accept
  <2> DEFINE o == [NoIrp EXCEPT !.stage = "init", !.len = n]
  <2>2. o \in Irp /\ o.stage = "init" /\ o.len = n
    BY NoIrpType, LengthFacts DEF Irp
  <2>3. irp' = [irp EXCEPT ![r] = o]
    BY <2>1
  <2> HIDE DEF o
  <2> QED
    BY <1>1, <1>2, <1>3, <2>2, <2>3, RequestStep, RequestFacts DEF DInv
<1> QED
  BY <1>4, <1>5

LEMMA ReadRoutineInv ==
  ASSUME DInv, NEW r \in Caller, ReadRoutine(r)
  PROVE  DInv'
<1>1. CASE Prepare(r)
  <2> DEFINE o == [irp[r] EXCEPT !.stage = "call"]
  <2>1. /\ irp[r].stage = "init" /\ InitReadFile(r) /\ irp' = [irp EXCEPT ![r] = o]
        /\ UNCHANGED <<alone, loaded, device, link, handle>>
    BY <1>1, RequestFacts DEF Prepare, dvars
  <2>2. pc'[r] = "idle" /\ \A q \in Caller \ {r} : pc'[q] = pc[q] /\ mem'[q] = mem[q]
    BY <2>1, StepKeeps DEF InitReadFile, Goto, DInv, CallsOK, TypeOK
  <2>3. o \in Irp /\ o.stage = "call" /\ o.len = irp[r].len
    BY RequestFacts DEF Irp
  <2>4. handle /\ irp[r].len \in Length
    BY <2>1, RequestFacts DEF Pending
  <2>5. CallsOK'
    BY <2>1, PrepareCalls DEF DInv
  <2> HIDE DEF o
  <2> QED
    BY <2>1, <2>2, <2>3, <2>4, <2>5, RequestStep, RequestFacts DEF DInv
<1>2. CASE Start(r)
  <2> DEFINE o == [irp[r] EXCEPT !.stage = "work"]
  <2>1. /\ irp[r].stage = "call" /\ Call(r) /\ irp' = [irp EXCEPT ![r] = o]
        /\ UNCHANGED <<loaded, device, link, handle>>
        /\ alone' = [q \in Caller |-> IF q = r THEN \A p \in Caller : ~ Under(p)
                                       ELSE alone[q] /\ ~ Under(q)]
    BY <1>2, RequestFacts DEF Start, dvars
  <2>2. pc'[r] = "next" /\ \A q \in Caller \ {r} : pc'[q] = pc[q] /\ mem'[q] = mem[q]
    BY <2>1, StepKeeps DEF Call, Goto, DInv, CallsOK, TypeOK
  <2>3. o \in Irp /\ o.stage = "work" /\ o.len = irp[r].len
    BY RequestFacts DEF Irp
  <2>4. handle /\ irp[r].len \in Length
    BY <2>1, RequestFacts DEF Pending
  <2>5. alone' \in [Caller -> BOOLEAN]
    BY <2>1, RequestFacts
  <2>6. CallsOK'
    BY <2>1, StartCalls, RequestFacts DEF DInv
  <2> HIDE DEF o
  <2> QED
    BY <2>1, <2>2, <2>3, <2>4, <2>5, <2>6, RequestStep DEF DInv
<1>3. CASE Step(r)
  <2>1. Work(r) /\ UNCHANGED <<irp, alone, loaded, device, link, handle>>
    BY <1>3 DEF Step, dvars
  <2>2. pc'[r] \notin {"start", "idle"} /\ \A q \in Caller \ {r} : pc'[q] = pc[q] /\ mem'[q] = mem[q]
    BY <2>1, StepKeeps, WorkStaysBusy DEF DInv, CallsOK
  <2>3. irp[r].stage = "work"
    BY <2>1, WorkIsUnder, RequestFacts DEF InStage, Under, Irp
  <2>4. CallsOK'
    BY <2>1, WorkCalls DEF DInv
  <2>5. irp' = [irp EXCEPT ![r] = irp[r]]
    BY <2>1, RequestFacts
  <2>6. handle /\ irp[r].len \in Length
    BY <2>3, RequestFacts DEF Pending
  <2> QED
    BY <2>1, <2>2, <2>3, <2>4, <2>5, <2>6, RequestStep, RequestFacts DEF DInv
<1>4. CASE Complete(r)
  <2> DEFINE b == [j \in 0 .. irp[r].len - 1 |-> mem[r][j]]
             o == [irp[r] EXCEPT !.stage = "done", !.info = irp[r].len, !.buf = b]
  <2>1. /\ irp[r].stage = "work" /\ pc[r] = "done" /\ irp' = [irp EXCEPT ![r] = o]
        /\ UNCHANGED <<vars, alone, loaded, device, link, handle, pc, mem>>
    BY <1>4, RequestFacts DEF Complete, dvars, vars, shared
  <2>2. handle /\ irp[r].len \in Length
    BY <2>1, RequestFacts DEF Pending
  <2>3. b \in Bytes
    <3>1. irp[r].len \in Nat /\ 0 .. irp[r].len - 1 \subseteq Memory
      BY <2>2, LengthFacts
    <3>2. b \in [0 .. irp[r].len - 1 -> Unit \cup {Blank}]
      BY <3>1, RequestFacts
    <3> QED
      BY <3>1, <3>2 DEF Bytes
  <2> HIDE DEF b
  <2>4. o \in Irp /\ o.stage = "done" /\ o.len = irp[r].len /\ o.buf = b
    BY <2>2, <2>3, LengthFacts, RequestFacts DEF Irp
  <2>5. CallsOK'
    BY <2>1, QuietCalls DEF DInv
  <2>6. b = [j \in 0 .. irp[r].len - 1 |-> mem'[r][j]]
    BY <2>1 DEF b
  <2> HIDE DEF o
  <2> QED
    BY <2>1, <2>2, <2>4, <2>5, <2>6, RequestStep, RequestFacts DEF DInv
<1> QED
  BY <1>1, <1>2, <1>3, <1>4 DEF ReadRoutine

LEMMA DInvStep == DInv /\ [DriverNext]_all => DInv'
<1> SUFFICES ASSUME DInv, [DriverNext]_all PROVE DInv'
  OBVIOUS
<1>1. CASE UNCHANGED all
  <2>1. UNCHANGED <<vars, loaded, device, link, handle, irp, alone, pc, mem>>
    BY <1>1 DEF all, dvars, vars, shared
  <2> QED
    BY <2>1, QuietCalls, QuietRequests DEF DInv, RequestsOK, HasDevice, IrpTypeOK
<1> QED
  BY <1>1, EntryInv, GivenInv, ReadRoutineInv DEF DriverNext

LEMMA DriverInvariant == DriverSpec => []DInv
BY DInvInit, DInvStep, PTL DEF DriverSpec

-----------------------------------------------------------------------------
\* Unloading and loading again keep every variable of the reader in its type,
\* whatever calls overlap.
THEOREM DriverTypeCorrect == DriverSpec => []TypeOK
<1>1. DInv => TypeOK
  BY DEF DInv, CallsOK
<1> QED
  BY <1>1, DriverInvariant, PTL

\* A driver that is not loaded has left neither device nor link, and no read is
\* under way without it (DriverEntry with CreateDevice, and HelloDDKUnload).
THEOREM NothingIsLeft == DriverSpec => []NothingLeft
<1>1. ASSUME DInv PROVE NothingLeft
  <2>1. \A r \in Caller : Under(r) => Pending(r)
    BY <1>1, RequestFacts DEF InStage, Under, Pending, Irp
  <2> QED
    BY <1>1, <2>1 DEF DInv, RequestsOK, HasDevice, NothingLeft
<1> QED
  BY <1>1, DriverInvariant, PTL

\* While no seek or read fails, nothing is tainted: unloading does not.
LEMMA UntaintedDriver ==
  ASSUME ~ Faults, DInv, Untainted, [DriverNext]_all
  PROVE  Untainted'
<1>1. TypeOK
  BY DEF DInv, CallsOK
<1>2. CASE UNCHANGED tainted
  BY <1>2 DEF Untainted
<1>3. CASE \E r \in Caller : InitReadFile(r) \/ Call(r) \/ Work(r)
  BY <1>1, <1>3, UntaintedStep DEF Next
<1>4. UNCHANGED tainted \/ \E r \in Caller : InitReadFile(r) \/ Call(r) \/ Work(r)
  BY DEF DriverNext, DriverEntry, HelloDDKUnload, Create, Close, WriteRoutine, Accept,
         ReadRoutine, Prepare, Start, Step, Complete, all, vars
<1> QED
  BY <1>2, <1>3, <1>4

\* A request whose read ran alone is answered by the image.
LEMMA AloneIsRight ==
  ASSUME DInv, Untainted, NEW r \in Caller, ReadDone(r), alone[r]
  PROVE  /\ Answer(disk, frame[r].path, frame[r].n, rc[r], mem[r])
         /\ rc[r] = 0 =>
              LET i == InodeAt(disk, frame[r].next_ino) IN
              \A j \in DOMAIN irp[r].buf : j < i.size => Contains(disk, i, j, irp[r].buf[j])
<1>1. pc[r] = "done" /\ ~ Under(r)
  BY RequestFacts DEF ReadDone, InStage, Under
<1>2. CallOK(r) /\ Clean(r) /\ DOMAIN mem[r] = Memory
  BY DEF DInv, CallsOK, TypeOK, Clean, Untainted, ReadDone
<1>3. AnswerPart(r) /\ DonePart(r)
  BY <1>1, <1>2 DEF CallOK
<1>4. Answer(disk, frame[r].path, frame[r].n, rc[r], mem[r])
  BY <1>3 DEF AnswerPart, DonePart
<1>5. irp[r].len \in Length /\ irp[r].buf = [j \in 0 .. irp[r].len - 1 |-> mem[r][j]]
  BY DEF DInv, RequestsOK, HandedUp, ReadDone
<1>6. 0 .. irp[r].len - 1 \subseteq DOMAIN mem[r]
  BY <1>2, <1>5, LengthFacts
<1>7. ASSUME rc[r] = 0, NEW j \in DOMAIN irp[r].buf, j < InodeAt(disk, frame[r].next_ino).size
      PROVE  Contains(disk, InodeAt(disk, frame[r].next_ino), j, irp[r].buf[j])
  <2>1. Holds(disk, frame[r].next_ino, frame[r].n, mem[r])
    BY <1>3, <1>7 DEF DonePart
  <2>2. j \in DOMAIN mem[r] /\ irp[r].buf[j] = mem[r][j]
    BY <1>5, <1>6, <1>7
  <2> QED
    BY <1>7, <2>1, <2>2 DEF Holds
<1> QED
  BY <1>4, <1>7

\* A driver request whose read met no other one has the code and the memory that
\* the image gives its path, and when the code says success it is completed with
\* the bytes at the front of the file, whatever reads before it left in the
\* static variables (ReadRoutine); where seeks and reads do not fail.
THEOREM AloneIsAnswered == ASSUME ~ Faults PROVE DriverSpec => []AloneReadsRight
<1>1. DriverInit => Untainted
  BY UntaintedInit DEF DriverInit
<1>2. DInv /\ Untainted /\ [DriverNext]_all => Untainted'
  BY UntaintedDriver
<1>3. DInv /\ Untainted => AloneReadsRight
  BY AloneIsRight DEF AloneReadsRight
<1> QED
  BY <1>1, <1>2, <1>3, DriverInvariant, PTL DEF DriverSpec
=============================================================================
