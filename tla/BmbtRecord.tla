----------------------------- MODULE BmbtRecord -----------------------------
(***************************************************************************)
(* The extent records of xfsd_bmap_btree.c, word by word: a flag bit and   *)
(* the start offset over the high bits of the start block in l0, its low   *)
(* bits over the block count in l1.  One record is in memory, one in a     *)
(* block of the tree with the bytes of its words in disk order.            *)
(*                                                                         *)
(* Widths are constants, given as the number of values they hold, so that  *)
(* v << n is v times a width, v >> n is \div, the two masks are Lo and Hi  *)
(* and the | of parts that do not meet is their sum.  A word has as many   *)
(* bytes as it takes to tell the orders apart: two.                        *)
(***************************************************************************)
EXTENDS Integers

CONSTANTS
  OffN,   \* values of a start offset: 2^54
  HiN,    \* of the bits of a start block in l0: 2^9
  LoN,    \* of its bits in l1: 2^43
  CntN,   \* of a block count: 2^21
  FsbN,   \* of xfs_fsblock_t without XFS_BIG_BLKNOS: 2^32
  ValN,   \* of the value inside a null start block: 2^17
  ByteN,  \* of half a word: 2^32
  Offs, Blocks, Counts  \* the arguments that calls are made with

Word == 2 * OffN * HiN

ASSUME WidthAssumption ==
  /\ {OffN, HiN, LoN, CntN, FsbN, ValN, ByteN} \subseteq Nat \ {0}
  /\ LoN * CntN = Word /\ ByteN * ByteN = Word
  /\ FsbN < LoN /\ ValN < FsbN /\ FsbN % ValN = 0 /\ LoN % FsbN = 0

ASSUME ArgumentAssumption ==
  /\ 0 \in Blocks /\ 0 \in Counts
  /\ Offs \subseteq 0..(OffN - 1)
  /\ Blocks \subseteq 0..(HiN * LoN - 1)
  /\ Counts \subseteq 0..(CntN - 1)

VARIABLES
  big,   \* the build: XFS_BIG_BLKNOS
  host,  \* xfs_bmbt_rec_host_t
  disk,  \* xfs_bmbt_rec_t
  call   \* the call made last, for the properties: [op, arg]

vars == <<big, host, disk, call>>

(***************************************************************************)
(* Words.                                                                  *)
(***************************************************************************)
Shl(v, n) == (v * n) % Word
Lo(v, n) == v % n
Hi(v, n) == v - Lo(v, n)
Flag == OffN * HiN
Swap(w) == (w % ByteN) * ByteN + w \div ByteN  \* cpu_to_be64, be64_to_cpu
Swapped(r) == [l0 |-> Swap(r.l0), l1 |-> Swap(r.l1)]

\* A delayed allocation: all ones above the value.
IsNullStart(b) == b \div ValN = FsbN \div ValN - 1
IsNullDStart(b) == b \div ValN = (HiN * LoN) \div ValN - 1
IsNull(b) == IF big THEN IsNullDStart(b) ELSE IsNullStart(b)

(***************************************************************************)
(* Reading a record.                                                       *)
(***************************************************************************)
DiskBlock(r) == Lo(r.l0, HiN) * LoN + r.l1 \div CntN
StartOff(r) == Lo(r.l0, Flag) \div HiN
StartBlock(r) == IF big THEN DiskBlock(r) ELSE Lo(r.l1 \div CntN, FsbN)
BlockCount(r) == Lo(r.l1, CntN)
Unwritten(r) == r.l0 \div Flag # 0
GetAll(r) == [off |-> StartOff(r), block |-> StartBlock(r),
              count |-> BlockCount(r), unwritten |-> Unwritten(r)]

(***************************************************************************)
(* Writing one, whole or a field of it.                                    *)
(***************************************************************************)
BlockLow(b) == IF big THEN b \div LoN ELSE IF IsNull(b) THEN HiN - 1 ELSE 0
BlockHigh(b) == IF ~big /\ IsNull(b) THEN (LoN - FsbN + b) * CntN ELSE Shl(b, CntN)

SetAllF(f) ==
  [l0 |-> (IF f.unwritten THEN Flag ELSE 0) + Shl(f.off, HiN) + BlockLow(f.block),
   l1 |-> BlockHigh(f.block) + Lo(f.count, CntN)]
BlockCountSet(r, v) == [r EXCEPT !.l1 = Hi(r.l1, CntN) + Lo(v, CntN)]
\* A bug: the high bits of the block before are left where they are.
StartBlockSetLow(r, v) ==
  [l0 |-> IF big \/ IsNull(v) THEN Hi(r.l0, HiN) + BlockLow(v) ELSE r.l0,
   l1 |-> BlockHigh(v) + Lo(r.l1, CntN)]
StartBlockSet(r, v) == [l0 |-> Hi(r.l0, HiN) + BlockLow(v),
                        l1 |-> BlockHigh(v) + Lo(r.l1, CntN)]
\* A bug: the mask of the bits to keep is left out.
StartOffSetBare(r, v) == [r EXCEPT !.l0 = Hi(r.l0, Flag) + Shl(v, HiN)]
StartOffSet(r, v) == [r EXCEPT !.l0 = Hi(r.l0, Flag) + Shl(v, HiN) + Lo(r.l0, HiN)]
\* A bug: the flag is added to a record that has it.
StateSetAdded(r, v) == [r EXCEPT !.l0 = IF v THEN r.l0 + Flag ELSE Lo(r.l0, Flag)]
StateSet(r, v) == [r EXCEPT !.l0 = Lo(r.l0, Flag) + IF v THEN Flag ELSE 0]

(***************************************************************************)
(* Keys: a record's start offset in disk order.                            *)
(***************************************************************************)
KeyOf(r) == Swap(StartOff(Swapped(r)))             \* xfs_bmbt_init_key_from_rec
RecFromKey(k) == Swapped(SetAllF([off |-> Swap(k), block |-> 0, count |-> 0, unwritten |-> FALSE]))
KeyDiff(k, off) ==                                 \* in an __int64_t
  LET d == (Swap(k) - off) % Word IN IF d < Flag THEN d ELSE d - Word
KeysInOrder(k1, k2) == Swap(k1) < Swap(k2)
\* A bug: the last block of the first record may be the second's.
RecsInOrderLess(r1, r2) ==
  StartOff(Swapped(r1)) + BlockCount(Swapped(r1)) <= StartOff(Swapped(r2)) + 1
RecsInOrder(r1, r2) ==
  StartOff(Swapped(r1)) + BlockCount(Swapped(r1)) <= StartOff(Swapped(r2))

(***************************************************************************)
(* The calls.  The callers keep to what the functions assert: a start      *)
(* block of the build's width, no unwritten record of no blocks.           *)
(***************************************************************************)
Field == {f \in [off : Offs, block : Blocks, count : Counts, unwritten : BOOLEAN] :
            f.count = 0 => ~f.unwritten}
Fits(b) == big \/ b < FsbN

Init == /\ big \in BOOLEAN
        /\ \E f, g \in {e \in Field : Fits(e.block)} :
             host = SetAllF(f) /\ disk = Swapped(SetAllF(g))
        /\ call = [op |-> "none"]

\* A function that leaves a record in memory, and one that leaves one in a block.
ToHost(r, c) == host' = r /\ call' = c /\ UNCHANGED <<big, disk>>
ToDisk(r, c) == disk' = r /\ call' = c /\ UNCHANGED <<big, host>>

SetAll(f) == ToHost(SetAllF(f), [op |-> "set_all", arg |-> f])
SetStartOff(v) == ToHost(StartOffSet(host, v), [op |-> "off", arg |-> v])
SetStartBlock(v) == ToHost(StartBlockSet(host, v), [op |-> "block", arg |-> v])
SetBlockCount(v) == /\ v = 0 => ~Unwritten(host)
                    /\ ToHost(BlockCountSet(host, v), [op |-> "count", arg |-> v])
SetState(v) == /\ v => BlockCount(host) # 0
               /\ ToHost(StateSet(host, v), [op |-> "unwritten", arg |-> v])
DiskSetAll(f) == ToDisk(Swapped(SetAllF(f)), [op |-> "disk_set_all", arg |-> f])
Load == ToHost(Swapped(disk), [op |-> "load"])
\* xfs_iextents_copy leaves a delayed allocation out.
Flush == /\ ~IsNull(StartBlock(host))
         /\ ToDisk(Swapped(host), [op |-> "flush"])
Rekey == /\ KeyOf(disk) # 0
         /\ ToDisk(RecFromKey(KeyOf(disk)), [op |-> "rekey"])

Next == \/ \E f \in {e \in Field : Fits(e.block)} : SetAll(f) \/ DiskSetAll(f)
        \/ \E v \in Offs : SetStartOff(v)
        \/ \E v \in {b \in Blocks : Fits(b)} : SetStartBlock(v)
        \/ \E v \in Counts : SetBlockCount(v)
        \/ \E v \in BOOLEAN : SetState(v)
        \/ Load \/ Flush \/ Rekey

Spec == Init /\ [][Next]_vars

(***************************************************************************)
(* Properties.                                                             *)
(***************************************************************************)
Words == [l0 : 0..(Word - 1), l1 : 0..(Word - 1)]

\* Words stay words: no setter carries out of the 64 bits.
TypeOK == big \in BOOLEAN /\ host \in Words /\ disk \in Words

\* Whatever was set before, a field read is the field last set: the setters
\* do not disturb each other in the words they share, in either build and in
\* either byte order.
Fields == INSTANCE ExtentFields WITH host <- GetAll(host), disk <- GetAll(Swapped(disk))
ImplementsFields == Fields!Spec

\* What __xfs_bmbt_get_all and xfs_bmbt_get_startblock assert where a block
\* number is narrow: what it cannot hold is all ones, a delayed allocation's.
NarrowHolds ==
  \A r \in {host, Swapped(disk)} :
    ~big => DiskBlock(r) \div FsbN = 0 \/ IsNullDStart(DiskBlock(r))

\* Records that recs_inorder lets stand after each other have keys that keys_inorder
\* does, and a search by key_diff for a block of the first stops at it.
LookupFinds ==
  LET next == Swapped(host) IN
  RecsInOrder(disk, next) /\ BlockCount(Swapped(disk)) > 0 =>
    /\ KeysInOrder(KeyOf(disk), KeyOf(next))
    /\ \A o \in 0..(OffN - 1) :
         StartOff(Swapped(disk)) <= o /\ o < StartOff(Swapped(disk)) + BlockCount(Swapped(disk)) =>
           KeyDiff(KeyOf(disk), o) <= 0 /\ 0 < KeyDiff(KeyOf(next), o)
=============================================================================
