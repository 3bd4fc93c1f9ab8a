--------------------------- MODULE BmbtRecordProofs ---------------------------
(***************************************************************************)
(* The extent records for every width the code may give their fields: a    *)
(* word is the sum of its parts, a setter changes its part and no other,   *)
(* and so the two words implement four fields.                             *)
(***************************************************************************)
EXTENDS BmbtRecord, TLAPS

(***************************************************************************)
(* Numbers made of a high and a low part.                                  *)
(***************************************************************************)
LEMMA DivMod == ASSUME NEW x \in Nat, NEW n \in Nat \ {0}
                PROVE  x \div n \in Nat /\ x % n \in 0 .. n - 1 /\ x = (x \div n) * n + (x % n)
OBVIOUS

LEMMA TimesNat == ASSUME NEW a \in Nat, NEW n \in Nat PROVE a * n \in Nat /\ (a + 1) * n = a * n + n
OBVIOUS

LEMMA TimesMonotone == ASSUME NEW a \in Nat, NEW b \in Nat, NEW n \in Nat, a <= b PROVE a * n <= b * n
OBVIOUS

LEMMA TimesAssociates == ASSUME NEW a \in Nat, NEW b \in Nat, NEW c \in Nat
                         PROVE  (a * b) * c = a * (b * c) /\ a * b = b * a
OBVIOUS

LEMMA TimesDistributes == ASSUME NEW a \in Nat, NEW b \in Nat, NEW c \in Nat
                          PROVE  (a + b) * c = a * c + b * c
OBVIOUS

\* A number below another times n has a high part below the other.
LEMMA PartsBelow ==
  ASSUME NEW a \in Nat, NEW m \in Nat, NEW n \in Nat \ {0}, NEW x \in 0 .. n - 1, a < m
  PROVE  a * n + x \in 0 .. m * n - 1
<1>1. (a + 1) * n <= m * n /\ (a + 1) * n = a * n + n /\ a * n \in Nat /\ m * n \in Nat
  BY TimesMonotone, TimesNat
<1> QED
  BY <1>1

\* There is one way to part a number.
LEMMA PartsUnique ==
  ASSUME NEW a \in Nat, NEW b \in Nat, NEW n \in Nat \ {0},
         NEW x \in 0 .. n - 1, NEW y \in 0 .. n - 1, a * n + x = b * n + y
  PROVE  a = b /\ x = y
<1>1. ASSUME NEW c \in Nat, NEW d \in Nat, NEW u \in 0 .. n - 1, NEW v \in 0 .. n - 1, c < d
      PROVE  c * n + u < d * n + v
  BY <1>1, PartsBelow, TimesNat
<1>2. a * n \in Nat /\ b * n \in Nat
  BY TimesNat
<1>3. ~ a < b /\ ~ b < a
  BY <1>1, <1>2
<1> QED
  BY <1>2, <1>3

LEMMA PartsRead ==
  ASSUME NEW a \in Nat, NEW n \in Nat \ {0}, NEW x \in 0 .. n - 1
  PROVE  (a * n + x) \div n = a /\ (a * n + x) % n = x
<1>1. a * n + x \in Nat
  BY TimesNat
<1> DEFINE y == a * n + x
<1>2. y \div n \in Nat /\ y % n \in 0 .. n - 1 /\ y = (y \div n) * n + (y % n)
  BY <1>1, DivMod
<1>3. y = a * n + x
  OBVIOUS
<1> HIDE DEF y
<1> DEFINE q == y \div n
           z == y % n
<1>4. q \in Nat /\ z \in 0 .. n - 1 /\ a * n + x = q * n + z
  BY <1>2, <1>3
<1> HIDE DEF q, z
<1>5. a = q /\ x = z
  BY <1>4, PartsUnique
<1> QED
  BY <1>5 DEF q, z, y

LEMMA HighBelow ==
  ASSUME NEW m \in Nat, NEW n \in Nat \ {0}, NEW x \in 0 .. m * n - 1
  PROVE  x \div n \in Nat /\ x \div n < m /\ x % n \in 0 .. n - 1 /\ x = (x \div n) * n + (x % n)
<1>1. m * n \in Nat
  BY TimesNat
<1>2. x \in Nat
  BY <1>1
<1> DEFINE q == x \div n
           z == x % n
<1>3. q \in Nat /\ z \in 0 .. n - 1 /\ x = q * n + z
  BY <1>2, DivMod
<1> HIDE DEF q, z
<1>4. ASSUME m <= q PROVE FALSE
  BY <1>1, <1>3, <1>4, TimesMonotone, TimesNat
<1> QED
  BY <1>3, <1>4 DEF q, z

\* A low part cut from a longer low part is cut from the whole.
LEMMA LowOfLow ==
  ASSUME NEW a \in Nat, NEW m \in Nat \ {0}, NEW n \in Nat \ {0}, NEW x \in 0 .. m * n - 1
  PROVE  (a * (m * n) + x) % n = x % n
<1>1. x \div n \in Nat /\ x % n \in 0 .. n - 1 /\ x = (x \div n) * n + (x % n)
  BY HighBelow
<1> DEFINE q == x \div n
           z == x % n
<1>2. q \in Nat /\ z \in 0 .. n - 1 /\ x = q * n + z
  BY <1>1
<1> HIDE DEF q, z
<1>3. a * m \in Nat /\ (a * m) * n = a * (m * n) /\ (a * m + q) * n = (a * m) * n + q * n
  BY <1>2, TimesNat, TimesAssociates, TimesDistributes
<1>4. a * (m * n) + x = (a * m + q) * n + z
  BY <1>2, <1>3, TimesNat
<1>5. ((a * m + q) * n + z) % n = z
  BY <1>2, <1>3, PartsRead
<1> QED
  BY <1>4, <1>5 DEF z

(***************************************************************************)
(* The parts of a record: flag, offset and the high bits of the block in   *)
(* l0, the low bits and the count in l1.                                   *)
(***************************************************************************)
Record(u, o, h, l, c) == [l0 |-> u * Flag + (o * HiN + h), l1 |-> l * CntN + c]
InParts(u, o, h, l, c) ==
  u \in 0 .. 1 /\ o \in 0 .. OffN - 1 /\ h \in 0 .. HiN - 1 /\ l \in 0 .. LoN - 1 /\ c \in 0 .. CntN - 1

LEMMA Widths ==
  /\ OffN \in Nat \ {0} /\ HiN \in Nat \ {0} /\ LoN \in Nat \ {0} /\ CntN \in Nat \ {0}
  /\ FsbN \in Nat \ {0} /\ ValN \in Nat \ {0} /\ ByteN \in Nat \ {0}
  /\ Flag \in Nat \ {0} /\ Word = 2 * Flag /\ Word \in Nat \ {0}
  /\ LoN * CntN = Word /\ ByteN * ByteN = Word /\ OffN <= Flag
<1>1. /\ OffN \in Nat \ {0} /\ HiN \in Nat \ {0} /\ LoN \in Nat \ {0} /\ CntN \in Nat \ {0}
      /\ FsbN \in Nat \ {0} /\ ValN \in Nat \ {0} /\ ByteN \in Nat \ {0}
      /\ LoN * CntN = Word /\ ByteN * ByteN = Word
  BY WidthAssumption
<1>2. Flag \in Nat /\ Flag = HiN * OffN /\ 1 * OffN <= HiN * OffN
  BY <1>1, TimesNat, TimesAssociates, TimesMonotone DEF Flag
<1>3. Word = 2 * Flag
  BY <1>1, TimesAssociates DEF Word, Flag
<1> QED
  BY <1>1, <1>2, <1>3

LEMMA ArgumentsFit ==
  /\ \A o \in Offs : o \in 0 .. OffN - 1
  /\ \A b \in Blocks : b \in 0 .. HiN * LoN - 1
  /\ \A c \in Counts : c \in 0 .. CntN - 1
  /\ \A f \in Field : f.off \in 0 .. OffN - 1 /\ f.block \in 0 .. HiN * LoN - 1
                      /\ f.count \in 0 .. CntN - 1 /\ f.unwritten \in BOOLEAN
BY ArgumentAssumption DEF Field

\* What the masks and shifts of the getters and setters cut out of a record.
LEMMA Cuts ==
  ASSUME NEW u, NEW o, NEW h, NEW l, NEW c, InParts(u, o, h, l, c)
  PROVE  LET r == Record(u, o, h, l, c) IN
         /\ r \in Words
         /\ r.l0 = u * Flag + (o * HiN + h) /\ r.l1 = l * CntN + c
         /\ Lo(r.l0, Flag) = o * HiN + h /\ Hi(r.l0, Flag) = u * Flag /\ r.l0 \div Flag = u
         /\ Lo(r.l0, HiN) = h /\ Hi(r.l0, HiN) = u * Flag + o * HiN
         /\ Lo(r.l0, Flag) \div HiN = o
         /\ Lo(r.l1, CntN) = c /\ Hi(r.l1, CntN) = l * CntN /\ r.l1 \div CntN = l
         /\ o * HiN \in 0 .. Flag - 1 /\ u * Flag \in Nat /\ l * CntN \in 0 .. Word - 1
<1> DEFINE low == o * HiN + h
           w0 == u * Flag + low
           w1 == l * CntN + c
<1>1. u \in Nat /\ o \in Nat /\ l \in Nat /\ u < 2 /\ o < OffN /\ l < LoN
      /\ h \in 0 .. HiN - 1 /\ c \in 0 .. CntN - 1
  BY Widths DEF InParts
<1>2. o * HiN \in Nat /\ u * Flag \in Nat /\ l * CntN \in Nat
  BY <1>1, Widths, TimesNat
<1>3. low \in 0 .. Flag - 1 /\ low \div HiN = o /\ low % HiN = h
  BY <1>1, Widths, PartsBelow, PartsRead DEF Flag
<1>4. w1 \in 0 .. Word - 1 /\ w1 \div CntN = l /\ w1 % CntN = c
  <2>1. w1 \in 0 .. LoN * CntN - 1
    BY <1>1, Widths, PartsBelow
  <2> QED
    BY <1>1, <2>1, Widths, PartsRead
<1>5. w0 % HiN = h
  <2>1. (u * (OffN * HiN) + low) % HiN = low % HiN
    BY <1>1, <1>3, Widths, LowOfLow DEF Flag
  <2> QED
    BY <1>3, <2>1 DEF Flag
<1>6. o * HiN = low - h /\ o * HiN <= low
  BY <1>1, <1>2
<1> HIDE DEF low
<1>7. w0 \in 0 .. Word - 1 /\ w0 \div Flag = u /\ w0 % Flag = low
  <2>1. w0 \in 0 .. 2 * Flag - 1
    BY <1>1, <1>3, Widths, PartsBelow
  <2> QED
    BY <1>1, <1>3, <2>1, Widths, PartsRead
<1>8. Record(u, o, h, l, c) = [l0 |-> w0, l1 |-> w1]
  BY DEF Record, low
<1>9. /\ w0 - (w0 % Flag) = u * Flag /\ w0 - (w0 % HiN) = u * Flag + o * HiN
      /\ w1 - (w1 % CntN) = l * CntN
      /\ o * HiN \in 0 .. Flag - 1 /\ l * CntN \in 0 .. Word - 1
  <2> DEFINE uf == u * Flag
             oh == o * HiN
             lc == l * CntN
  <2>1. uf \in Nat /\ oh \in Nat /\ lc \in Nat
    BY <1>2
  <2>2. w0 = uf + low /\ w1 = lc + c /\ oh = low - h /\ oh <= low
    BY <1>6
  <2> HIDE DEF uf, oh, lc, w0, w1
  <2>3. w0 - (w0 % Flag) = uf /\ w1 - (w1 % CntN) = lc /\ oh \in 0 .. Flag - 1 /\ lc \in 0 .. Word - 1
    BY <2>1, <2>2, <1>1, <1>3, <1>4, <1>7, Widths
  <2>4. w0 - (w0 % HiN) = uf + oh
    BY <2>1, <2>2, <1>1, <1>3, <1>5
  <2> QED
    BY <2>3, <2>4 DEF uf, oh, lc
<1> HIDE DEF w0, w1
<1> DEFINE r == Record(u, o, h, l, c)
<1>10. r.l0 = w0 /\ r.l1 = w1 /\ r \in Words
  BY <1>4, <1>7, <1>8 DEF Words
<1> HIDE DEF r
<1>11. w0 = u * Flag + (o * HiN + h) /\ w1 = l * CntN + c /\ low = o * HiN + h
  BY DEF w0, w1, low
<1>12. /\ Lo(r.l0, Flag) = o * HiN + h /\ Hi(r.l0, Flag) = u * Flag /\ r.l0 \div Flag = u
       /\ Lo(r.l0, HiN) = h /\ Hi(r.l0, HiN) = u * Flag + o * HiN
       /\ Lo(r.l0, Flag) \div HiN = o
       /\ Lo(r.l1, CntN) = c /\ Hi(r.l1, CntN) = l * CntN /\ r.l1 \div CntN = l
  <2>1. low \div HiN = o /\ w0 \div Flag = u /\ w1 \div CntN = l
    BY <1>3, <1>4, <1>7
  <2> QED
    BY <2>1, <1>4, <1>5, <1>7, <1>9, <1>10, <1>11 DEF Lo, Hi
<1> QED
  BY <1>2, <1>9, <1>10, <1>11, <1>12 DEF r

\* Every record has parts.
LEMMA Parted ==
  ASSUME NEW r \in Words
  PROVE  \E u, o, h, l, c : InParts(u, o, h, l, c) /\ r = Record(u, o, h, l, c)
<1> DEFINE u == r.l0 \div Flag
           x == r.l0 % Flag
           o == x \div HiN
           h == x % HiN
           l == r.l1 \div CntN
           c == r.l1 % CntN
<1>1. r.l0 \in 0 .. 2 * Flag - 1 /\ r.l1 \in 0 .. LoN * CntN - 1 /\ r = [l0 |-> r.l0, l1 |-> r.l1]
  BY Widths DEF Words
<1>2. u \in Nat /\ u < 2 /\ x \in 0 .. Flag - 1 /\ r.l0 = u * Flag + x
  BY <1>1, Widths, HighBelow
<1>3. l \in Nat /\ l < LoN /\ c \in 0 .. CntN - 1 /\ r.l1 = l * CntN + c
  BY <1>1, Widths, HighBelow
<1> HIDE DEF x
<1>4. o \in Nat /\ o < OffN /\ h \in 0 .. HiN - 1 /\ x = o * HiN + h
  BY <1>2, Widths, HighBelow DEF Flag
<1> HIDE DEF u, o, h, l, c
<1>5. InParts(u, o, h, l, c)
  BY <1>2, <1>3, <1>4, Widths DEF InParts
<1>6. r = Record(u, o, h, l, c)
  BY <1>1, <1>2, <1>3, <1>4 DEF Record
<1> QED
  BY <1>5, <1>6

(***************************************************************************)
(* Start blocks in their two parts.                                        *)
(***************************************************************************)
Mid(b) == IF ~ big /\ IsNull(b) THEN LoN - FsbN + b ELSE b % LoN
NarrowRight(n) == n \div FsbN = 0 \/ IsNullDStart(n)

LEMMA ShiftedOffset == ASSUME NEW o \in 0 .. OffN - 1 PROVE Shl(o, HiN) = o * HiN
<1>1. o \in Nat /\ o < OffN /\ 0 \in 0 .. HiN - 1
  BY Widths
<1>2. o * HiN + 0 \in 0 .. Flag - 1 /\ o * HiN \in Nat
  BY <1>1, Widths, PartsBelow, TimesNat DEF Flag
<1> DEFINE w == o * HiN
<1>3. w \in Nat /\ w < Word
  BY <1>2, Widths
<1> HIDE DEF w
<1>4. w % Word = w
  BY <1>3, Widths
<1> QED
  BY <1>4 DEF Shl, w

LEMMA ShiftedBlock == ASSUME NEW b \in Nat PROVE Shl(b, CntN) = (b % LoN) * CntN
<1> DEFINE q == b \div LoN
           m == b % LoN
<1>1. q \in Nat /\ m \in 0 .. LoN - 1 /\ b = q * LoN + m
  BY Widths, DivMod
<1> HIDE DEF q, m
<1>2. b * CntN = q * Word + m * CntN
  BY <1>1, Widths, TimesNat, TimesAssociates, TimesDistributes
<1>3. m * CntN \in 0 .. Word - 1
  <2>1. m \in Nat /\ m < LoN /\ 0 \in 0 .. CntN - 1
    BY <1>1, Widths
  <2>2. m * CntN + 0 \in 0 .. LoN * CntN - 1 /\ m * CntN \in Nat
    BY <2>1, Widths, PartsBelow, TimesNat
  <2> QED
    BY <2>2, Widths
<1> DEFINE z == m * CntN
<1> HIDE DEF z
<1>4. (q * Word + z) % Word = z
  <2>1. z \in 0 .. Word - 1
    BY <1>3 DEF z
  <2> QED
    BY <1>1, <2>1, Widths, PartsRead
<1>5. b * CntN = q * Word + z
  BY <1>2 DEF z
<1>6. (b * CntN) % Word = z
  BY <1>4, <1>5
<1> QED
  BY <1>6 DEF Shl, m, z

\* A delayed allocation's start block, widened: all ones above what it was.
LEMMA Widened ==
  ASSUME NEW b \in 0 .. FsbN - 1, IsNullStart(b)
  PROVE  /\ LoN - FsbN + b \in 0 .. LoN - 1
         /\ (LoN - FsbN + b) % FsbN = b
         /\ IsNullDStart((HiN - 1) * LoN + (LoN - FsbN + b))
<1> DEFINE kf == FsbN \div ValN
           kl == LoN \div FsbN
           y == b % ValN
           K == (HiN * kl) * kf
<1>1. kf \in Nat /\ kl \in Nat /\ FsbN = kf * ValN /\ LoN = kl * FsbN
  <2>1. FsbN % ValN = 0 /\ LoN % FsbN = 0
    BY WidthAssumption
  <2>2. kf \in Nat /\ FsbN = kf * ValN + (FsbN % ValN) /\ kl \in Nat /\ LoN = kl * FsbN + (LoN % FsbN)
    BY Widths, DivMod
  <2> HIDE DEF kf, kl
  <2>3. kf * ValN \in Nat /\ kl * FsbN \in Nat
    BY <2>2, Widths, TimesNat
  <2> QED
    BY <2>1, <2>2, <2>3
<1>2. b \in Nat /\ y \in 0 .. ValN - 1 /\ b = (kf - 1) * ValN + y
  <2>1. b \in Nat /\ b \div ValN = kf - 1
    BY Widths DEF IsNullStart
  <2>2. b = (b \div ValN) * ValN + y /\ y \in 0 .. ValN - 1
    BY <2>1, Widths, DivMod
  <2> HIDE DEF kf, y
  <2> QED
    BY <2>1, <2>2
<1> HIDE DEF kf, kl, y
<1>3. kl # 0 /\ kf # 0
  <2>1. 0 * FsbN = 0 /\ 0 * ValN = 0
    BY Widths
  <2> QED
    BY <1>1, <2>1, Widths
<1>4. HiN * LoN = K * ValN /\ K \in Nat
  BY <1>1, Widths, TimesAssociates, TimesNat
<1>5. K # 0
  <2>1. 0 * ValN = 0 /\ 1 * LoN <= HiN * LoN /\ HiN * LoN \in Nat
    BY Widths, TimesMonotone, TimesNat
  <2> QED
    BY <1>4, <2>1, Widths
<1> HIDE DEF K
<1>6. (kl - 1) * FsbN + FsbN = LoN /\ (kl - 1) * FsbN \in Nat
  <2>1. kl - 1 \in Nat /\ (kl - 1) + 1 = kl
    BY <1>1, <1>3
  <2> QED
    BY <1>1, <2>1, Widths, TimesNat
<1>7. LoN - FsbN + b = (kl - 1) * FsbN + b /\ LoN - FsbN + b \in 0 .. LoN - 1
  BY <1>6, Widths
<1>8. ((kl - 1) * FsbN + b) % FsbN = b
  BY <1>1, <1>3, Widths, PartsRead
<1>9. (HiN - 1) * LoN + (LoN - FsbN + b) = (K - 1) * ValN + y
  <2> DEFINE hl == (HiN - 1) * LoN
             kv == (K - 1) * ValN
             fv == (kf - 1) * ValN
  <2>1. HiN - 1 \in Nat /\ K - 1 \in Nat /\ kf - 1 \in Nat
        /\ (HiN - 1) + 1 = HiN /\ (K - 1) + 1 = K /\ (kf - 1) + 1 = kf
    BY <1>1, <1>3, <1>4, <1>5, Widths
  <2>2. hl \in Nat /\ hl + LoN = HiN * LoN /\ kv \in Nat /\ kv + ValN = K * ValN
        /\ fv \in Nat /\ fv + ValN = kf * ValN
    BY <2>1, Widths, TimesNat
  <2>3. b = fv + y
    BY <1>2
  <2> HIDE DEF hl, kv, fv
  <2>4. hl + LoN = kv + ValN /\ FsbN = fv + ValN
    BY <2>2, <1>4, <1>1
  <2>5. hl + (LoN - FsbN + b) = kv + y
    BY <2>2, <2>3, <2>4, <1>2, Widths
  <2> QED
    BY <2>5 DEF hl, kv
<1>10. ((K - 1) * ValN + y) \div ValN = K - 1 /\ (HiN * LoN) \div ValN = K
  <2>1. K - 1 \in Nat /\ 0 \in 0 .. ValN - 1
    BY <1>4, <1>5, Widths
  <2>2. (K * ValN + 0) \div ValN = K /\ K * ValN \in Nat
    BY <2>1, <1>4, Widths, PartsRead, TimesNat
  <2>3. K * ValN + 0 = K * ValN
    BY <2>2
  <2> QED
    BY <2>1, <2>2, <2>3, <1>2, <1>4, Widths, PartsRead
<1> QED
  BY <1>7, <1>8, <1>9, <1>10 DEF IsNullDStart

LEMMA BlockParts ==
  ASSUME big \in BOOLEAN, NEW b \in 0 .. HiN * LoN - 1, Fits(b)
  PROVE  /\ BlockLow(b) \in 0 .. HiN - 1 /\ Mid(b) \in 0 .. LoN - 1
         /\ BlockHigh(b) = Mid(b) * CntN
         /\ big => BlockLow(b) * LoN + Mid(b) = b
         /\ ~ big => Lo(Mid(b), FsbN) = b /\ NarrowRight(BlockLow(b) * LoN + Mid(b))
<1>1. b \in Nat
  BY Widths, TimesNat
<1>2. CASE big
  <2>1. b \div LoN \in Nat /\ b \div LoN < HiN /\ b % LoN \in 0 .. LoN - 1
        /\ b = (b \div LoN) * LoN + (b % LoN)
    BY Widths, HighBelow
  <2>2. BlockLow(b) = b \div LoN /\ Mid(b) = b % LoN /\ BlockHigh(b) = Shl(b, CntN)
    BY <1>2 DEF BlockLow, Mid, BlockHigh
  <2>3. BlockHigh(b) = Mid(b) * CntN
    BY <1>1, <2>2, ShiftedBlock, Zenon
  <2>4. BlockLow(b) \in 0 .. HiN - 1
    BY <2>1, <2>2, Widths
  <2>5. BlockLow(b) * LoN + Mid(b) = b
    BY <2>1, <2>2, Zenon
  <2> QED
    BY <1>2, <2>1, <2>2, <2>3, <2>4, <2>5, Zenon
<1>3. CASE ~ big /\ IsNull(b)
  <2>1. b \in 0 .. FsbN - 1 /\ IsNullStart(b)
    BY <1>1, <1>3, Widths DEF Fits, IsNull
  <2>2. BlockLow(b) = HiN - 1 /\ Mid(b) = LoN - FsbN + b /\ BlockHigh(b) = (LoN - FsbN + b) * CntN
    BY <1>3 DEF BlockLow, Mid, BlockHigh
  <2>3. /\ LoN - FsbN + b \in 0 .. LoN - 1
        /\ (LoN - FsbN + b) % FsbN = b
        /\ IsNullDStart((HiN - 1) * LoN + (LoN - FsbN + b))
    BY <2>1, Widened
  <2>4. BlockLow(b) \in 0 .. HiN - 1
    BY <2>2, Widths
  <2> QED
    BY <1>3, <2>2, <2>3, <2>4, Zenon DEF Lo, NarrowRight
<1>4. CASE ~ big /\ ~ IsNull(b)
  <2>1. b < FsbN /\ b < LoN
    BY <1>1, <1>4, Widths, WidthAssumption DEF Fits
  <2>2. b % LoN = b /\ b % FsbN = b /\ b \div FsbN = 0
    BY <1>1, <2>1, Widths
  <2>3. BlockLow(b) = 0 /\ Mid(b) = b /\ BlockHigh(b) = Shl(b, CntN)
    BY <1>4, <2>2 DEF BlockLow, Mid, BlockHigh
  <2>4. 0 * LoN + b = b /\ BlockLow(b) \in 0 .. HiN - 1 /\ Mid(b) \in 0 .. LoN - 1
    BY <1>1, <2>1, <2>3, Widths
  <2>5. BlockHigh(b) = Mid(b) * CntN
    BY <1>1, <2>2, <2>3, ShiftedBlock, Zenon
  <2>6. BlockLow(b) * LoN + Mid(b) = b
    BY <2>3, <2>4, Zenon
  <2> QED
    BY <1>4, <2>2, <2>3, <2>4, <2>5, <2>6, Zenon DEF Lo, NarrowRight
<1> QED
  BY <1>2, <1>3, <1>4

(***************************************************************************)
(* What is read from a record, and what each setter makes of its parts.    *)
(***************************************************************************)
Bit(v) == IF v THEN 1 ELSE 0
BlockIn(h, l) == IF big THEN h * LoN + l ELSE Lo(l, FsbN)

LEMMA ReadParts ==
  ASSUME NEW u, NEW o, NEW h, NEW l, NEW c, InParts(u, o, h, l, c)
  PROVE  LET r == Record(u, o, h, l, c) IN
         /\ DiskBlock(r) = h * LoN + l /\ StartBlock(r) = BlockIn(h, l)
         /\ StartOff(r) = o /\ BlockCount(r) = c /\ (Unwritten(r) <=> u = 1)
         /\ GetAll(r) = [off |-> o, block |-> BlockIn(h, l), count |-> c, unwritten |-> (u = 1)]
<1> DEFINE r == Record(u, o, h, l, c)
<1>1. r.l0 \div Flag = u /\ Lo(r.l0, HiN) = h /\ Lo(r.l0, Flag) \div HiN = o
      /\ Lo(r.l1, CntN) = c /\ r.l1 \div CntN = l
  BY Cuts
<1> HIDE DEF r
<1>2. StartOff(r) = o /\ BlockCount(r) = c /\ DiskBlock(r) = h * LoN + l
  BY <1>1, Zenon DEF StartOff, BlockCount, DiskBlock
<1>3. StartBlock(r) = BlockIn(h, l)
  BY <1>1, <1>2, Zenon DEF StartBlock, BlockIn
<1>4. Unwritten(r) <=> u # 0
  BY <1>1, Zenon DEF Unwritten
<1>5. (u # 0) <=> (u = 1)
  BY DEF InParts
<1>6. Unwritten(r) = (u = 1)
  BY <1>1, <1>5 DEF Unwritten
<1>7. GetAll(r) = [off |-> o, block |-> BlockIn(h, l), count |-> c, unwritten |-> (u = 1)]
  BY <1>2, <1>3, <1>6, Zenon DEF GetAll
<1> QED
  BY <1>2, <1>3, <1>4, <1>5, <1>7, Zenon DEF r

LEMMA SetAllParts ==
  ASSUME big \in BOOLEAN, NEW f \in [off : 0 .. OffN - 1, block : 0 .. HiN * LoN - 1,
                                      count : 0 .. CntN - 1, unwritten : BOOLEAN],
         Fits(f.block)
  PROVE  /\ InParts(Bit(f.unwritten), f.off, BlockLow(f.block), Mid(f.block), f.count)
         /\ SetAllF(f) = Record(Bit(f.unwritten), f.off, BlockLow(f.block), Mid(f.block), f.count)
<1> DEFINE o == f.off
           b == f.block
           c == f.count
           h == BlockLow(b)
           l == Mid(b)
           fl == IF f.unwritten THEN Flag ELSE 0
<1>1. o \in 0 .. OffN - 1 /\ b \in 0 .. HiN * LoN - 1 /\ c \in 0 .. CntN - 1
      /\ f.unwritten \in BOOLEAN
  OBVIOUS
<1>2. h \in 0 .. HiN - 1 /\ l \in 0 .. LoN - 1 /\ BlockHigh(b) = l * CntN
  BY <1>1, BlockParts
<1>3. Shl(o, HiN) = o * HiN /\ o * HiN \in Nat
  BY <1>1, ShiftedOffset, Widths, TimesNat
<1>4. c % CntN = c
  BY <1>1, Widths
<1>5. fl = Bit(f.unwritten) * Flag /\ fl \in Nat /\ Bit(f.unwritten) \in 0 .. 1
  BY <1>1, Widths DEF Bit
<1>6. SetAllF(f) = [l0 |-> fl + Shl(o, HiN) + h, l1 |-> BlockHigh(b) + c]
  BY <1>4, Zenon DEF SetAllF, Lo
<1> HIDE DEF h, l, fl, o, b, c
<1>7. fl + Shl(o, HiN) + h = fl + (o * HiN + h)
  BY <1>2, <1>3, <1>5, Widths
<1>8. SetAllF(f) = Record(Bit(f.unwritten), o, h, l, c)
  BY <1>2, <1>5, <1>6, <1>7, Zenon DEF Record
<1>9. InParts(Bit(f.unwritten), o, h, l, c)
  BY <1>1, <1>2, <1>5, Zenon DEF InParts
<1> QED
  BY <1>8, <1>9 DEF h, l, o, b, c

LEMMA SetParts ==
  ASSUME NEW u, NEW o, NEW h, NEW l, NEW c, InParts(u, o, h, l, c)
  PROVE  LET r == Record(u, o, h, l, c) IN
         /\ \A v \in 0 .. OffN - 1 : StartOffSet(r, v) = Record(u, v, h, l, c)
         /\ \A v \in 0 .. CntN - 1 : BlockCountSet(r, v) = Record(u, o, h, l, v)
         /\ \A v \in BOOLEAN : StateSet(r, v) = Record(Bit(v), o, h, l, c)
         /\ big \in BOOLEAN => \A v \in 0 .. HiN * LoN - 1 : Fits(v) =>
              StartBlockSet(r, v) = Record(u, o, BlockLow(v), Mid(v), c)
<1> DEFINE r == Record(u, o, h, l, c)
           uf == u * Flag
           oh == o * HiN
           lc == l * CntN
<1>1. Hi(r.l0, Flag) = uf /\ Lo(r.l0, HiN) = h /\ Lo(r.l0, Flag) = oh + h
      /\ Hi(r.l0, HiN) = uf + oh
      /\ Hi(r.l1, CntN) = lc /\ Lo(r.l1, CntN) = c
  BY Cuts
<1>2. uf \in Nat /\ oh \in Nat /\ lc \in Nat /\ h \in Nat /\ c \in Nat
  BY Widths, TimesNat DEF InParts
<1>3. r = [l0 |-> uf + (oh + h), l1 |-> lc + c]
  BY DEF Record
<1> HIDE DEF r, uf, oh, lc
<1>4. ASSUME NEW v \in 0 .. OffN - 1 PROVE StartOffSet(r, v) = Record(u, v, h, l, c)
  <2> DEFINE vh == v * HiN
  <2>1. Shl(v, HiN) = vh /\ vh \in Nat
    BY ShiftedOffset, Widths, TimesNat
  <2>2. StartOffSet(r, v) = [l0 |-> uf + Shl(v, HiN) + h, l1 |-> lc + c]
    BY <1>1, <1>3 DEF StartOffSet
  <2> HIDE DEF vh
  <2>3. uf + Shl(v, HiN) + h = uf + (vh + h)
    BY <1>2, <2>1
  <2>4. StartOffSet(r, v) = [l0 |-> uf + (vh + h), l1 |-> lc + c]
    BY <2>2, <2>3, Zenon
  <2> QED
    BY <2>4, Zenon DEF Record, uf, vh, lc
<1>5. ASSUME NEW v \in 0 .. CntN - 1 PROVE BlockCountSet(r, v) = Record(u, o, h, l, v)
  <2>1. Lo(v, CntN) = v
    BY Widths DEF Lo
  <2>2. BlockCountSet(r, v) = [l0 |-> uf + (oh + h), l1 |-> lc + v]
    BY <1>1, <1>3, <2>1 DEF BlockCountSet
  <2> QED
    BY <2>2, Zenon DEF Record, uf, oh, lc
<1>6. ASSUME NEW v \in BOOLEAN PROVE StateSet(r, v) = Record(Bit(v), o, h, l, c)
  <2> DEFINE fl == IF v THEN Flag ELSE 0
  <2>1. fl = Bit(v) * Flag /\ fl \in Nat
    BY Widths DEF Bit
  <2>2. StateSet(r, v) = [l0 |-> (oh + h) + fl, l1 |-> lc + c]
    BY <1>1, <1>3 DEF StateSet
  <2> HIDE DEF fl
  <2>3. (oh + h) + fl = fl + (oh + h)
    BY <1>2, <2>1
  <2> QED
    BY <2>1, <2>2, <2>3, Zenon DEF Record, oh, lc
<1>7. ASSUME big \in BOOLEAN, NEW v \in 0 .. HiN * LoN - 1, Fits(v)
      PROVE  StartBlockSet(r, v) = Record(u, o, BlockLow(v), Mid(v), c)
  <2>1. BlockLow(v) \in 0 .. HiN - 1 /\ BlockHigh(v) = Mid(v) * CntN
    BY <1>7, BlockParts
  <2>2. StartBlockSet(r, v) = [l0 |-> (uf + oh) + BlockLow(v), l1 |-> BlockHigh(v) + c]
    BY <1>1, Zenon DEF StartBlockSet
  <2>3. (uf + oh) + BlockLow(v) = uf + (oh + BlockLow(v))
    BY <1>2, <2>1, Widths
  <2> QED
    BY <2>1, <2>2, <2>3, Zenon DEF Record, uf, oh
<1> QED
  BY <1>4, <1>5, <1>6, <1>7 DEF r

(***************************************************************************)
(* Good records: two words, and a block number that the build can hold.    *)
(***************************************************************************)
Good(r) == r \in Words /\ (~ big => NarrowRight(DiskBlock(r)))

LEMMA FieldRange ==
  ASSUME NEW f \in Field
  PROVE  f \in [off : 0 .. OffN - 1, block : 0 .. HiN * LoN - 1, count : 0 .. CntN - 1,
                unwritten : BOOLEAN]
BY ArgumentAssumption DEF Field

\* A record set whole is read back.
LEMMA GoodSetAll ==
  ASSUME big \in BOOLEAN, NEW f \in [off : 0 .. OffN - 1, block : 0 .. HiN * LoN - 1,
                                      count : 0 .. CntN - 1, unwritten : BOOLEAN],
         Fits(f.block)
  PROVE  Good(SetAllF(f)) /\ GetAll(SetAllF(f)) = f
<1> DEFINE b == f.block
           h == BlockLow(b)
           l == Mid(b)
           u == Bit(f.unwritten)
<1>1. InParts(u, f.off, h, l, f.count) /\ SetAllF(f) = Record(u, f.off, h, l, f.count)
  BY SetAllParts
<1>2. b \in 0 .. HiN * LoN - 1 /\ f.unwritten \in BOOLEAN
      /\ f = [off |-> f.off, block |-> b, count |-> f.count, unwritten |-> f.unwritten]
  OBVIOUS
<1>3. BlockIn(h, l) = b /\ (~ big => NarrowRight(h * LoN + l))
  BY <1>2, BlockParts DEF BlockIn
<1>4. (u = 1) = f.unwritten
  BY <1>2 DEF Bit
<1> HIDE DEF h, l, u, b
<1>5. SetAllF(f) \in Words
  BY <1>1, Cuts
<1>6. DiskBlock(SetAllF(f)) = h * LoN + l
      /\ GetAll(SetAllF(f)) = [off |-> f.off, block |-> BlockIn(h, l), count |-> f.count, unwritten |-> (u = 1)]
  BY <1>1, ReadParts
<1> QED
  BY <1>2, <1>3, <1>4, <1>5, <1>6 DEF Good

\* A field set is read back, and the others are as they were.
LEMMA GoodSetters ==
  ASSUME NEW r, Good(r), big \in BOOLEAN
  PROVE  /\ \A v \in 0 .. OffN - 1 :
              Good(StartOffSet(r, v)) /\ GetAll(StartOffSet(r, v)) = [GetAll(r) EXCEPT !["off"] = v]
         /\ \A v \in 0 .. CntN - 1 :
              Good(BlockCountSet(r, v)) /\ GetAll(BlockCountSet(r, v)) = [GetAll(r) EXCEPT !["count"] = v]
         /\ \A v \in BOOLEAN :
              Good(StateSet(r, v)) /\ GetAll(StateSet(r, v)) = [GetAll(r) EXCEPT !["unwritten"] = v]
         /\ \A v \in 0 .. HiN * LoN - 1 : Fits(v) =>
              Good(StartBlockSet(r, v)) /\ GetAll(StartBlockSet(r, v)) = [GetAll(r) EXCEPT !["block"] = v]
<1>1. PICK u, o, h, l, c : InParts(u, o, h, l, c) /\ r = Record(u, o, h, l, c)
  BY Parted DEF Good
<1>2. GetAll(r) = [off |-> o, block |-> BlockIn(h, l), count |-> c, unwritten |-> (u = 1)]
      /\ DiskBlock(r) = h * LoN + l /\ (~ big => NarrowRight(h * LoN + l))
  BY <1>1, ReadParts DEF Good
<1>3. ASSUME NEW v \in 0 .. OffN - 1
      PROVE  Good(StartOffSet(r, v)) /\ GetAll(StartOffSet(r, v)) = [GetAll(r) EXCEPT !["off"] = v]
  <2>1. StartOffSet(r, v) = Record(u, v, h, l, c) /\ InParts(u, v, h, l, c)
    BY <1>1, SetParts DEF InParts
  <2>2. GetAll(StartOffSet(r, v)) = [off |-> v, block |-> BlockIn(h, l), count |-> c, unwritten |-> (u = 1)]
        /\ DiskBlock(StartOffSet(r, v)) = h * LoN + l /\ StartOffSet(r, v) \in Words
    BY <2>1, ReadParts, Cuts
  <2> QED
    BY <1>2, <2>2 DEF Good
<1>4. ASSUME NEW v \in 0 .. CntN - 1
      PROVE  Good(BlockCountSet(r, v)) /\ GetAll(BlockCountSet(r, v)) = [GetAll(r) EXCEPT !["count"] = v]
  <2>1. BlockCountSet(r, v) = Record(u, o, h, l, v) /\ InParts(u, o, h, l, v)
    BY <1>1, SetParts DEF InParts
  <2>2. GetAll(BlockCountSet(r, v)) = [off |-> o, block |-> BlockIn(h, l), count |-> v, unwritten |-> (u = 1)]
        /\ DiskBlock(BlockCountSet(r, v)) = h * LoN + l /\ BlockCountSet(r, v) \in Words
    BY <2>1, ReadParts, Cuts
  <2> QED
    BY <1>2, <2>2 DEF Good
<1>5. ASSUME NEW v \in BOOLEAN
      PROVE  Good(StateSet(r, v)) /\ GetAll(StateSet(r, v)) = [GetAll(r) EXCEPT !["unwritten"] = v]
  <2>1. StateSet(r, v) = Record(Bit(v), o, h, l, c) /\ InParts(Bit(v), o, h, l, c) /\ (Bit(v) = 1) = v
    BY <1>1, SetParts DEF InParts, Bit
  <2>2. GetAll(StateSet(r, v)) = [off |-> o, block |-> BlockIn(h, l), count |-> c, unwritten |-> v]
        /\ DiskBlock(StateSet(r, v)) = h * LoN + l /\ StateSet(r, v) \in Words
    BY <2>1, ReadParts, Cuts
  <2> QED
    BY <1>2, <2>2 DEF Good
<1>6. ASSUME NEW v \in 0 .. HiN * LoN - 1, Fits(v)
      PROVE  Good(StartBlockSet(r, v)) /\ GetAll(StartBlockSet(r, v)) = [GetAll(r) EXCEPT !["block"] = v]
  <2> DEFINE k == BlockLow(v)
             m == Mid(v)
  <2>1. k \in 0 .. HiN - 1 /\ m \in 0 .. LoN - 1 /\ BlockIn(k, m) = v
        /\ (~ big => NarrowRight(k * LoN + m))
    BY <1>6, BlockParts DEF BlockIn
  <2>2. StartBlockSet(r, v) = Record(u, o, k, m, c)
    BY <1>1, <1>6, SetParts
  <2> HIDE DEF k, m
  <2>3. InParts(u, o, k, m, c)
    BY <1>1, <2>1 DEF InParts
  <2>4. GetAll(StartBlockSet(r, v)) = [off |-> o, block |-> v, count |-> c, unwritten |-> (u = 1)]
        /\ DiskBlock(StartBlockSet(r, v)) = k * LoN + m /\ StartBlockSet(r, v) \in Words
    BY <2>1, <2>2, <2>3, ReadParts, Cuts
  <2> QED
    BY <1>2, <2>1, <2>4 DEF Good
<1> QED
  BY <1>3, <1>4, <1>5, <1>6

(***************************************************************************)
(* Disk order.                                                             *)
(***************************************************************************)
LEMMA SwapTwice ==
  ASSUME NEW w \in 0 .. Word - 1
  PROVE  Swap(w) \in 0 .. Word - 1 /\ Swap(Swap(w)) = w
<1> DEFINE a == w \div ByteN
           z == w % ByteN
<1>1. a \in Nat /\ a < ByteN /\ z \in 0 .. ByteN - 1 /\ w = a * ByteN + z
  <2>1. w \in 0 .. ByteN * ByteN - 1
    BY Widths
  <2> QED
    BY <2>1, Widths, HighBelow
<1>2. Swap(w) = z * ByteN + a
  BY DEF Swap
<1> HIDE DEF a, z
<1>3. z \in Nat /\ z < ByteN /\ a \in 0 .. ByteN - 1
  BY <1>1, Widths
<1>4. z * ByteN + a \in 0 .. Word - 1
  <2>1. z * ByteN + a \in 0 .. ByteN * ByteN - 1
    BY <1>3, Widths, PartsBelow
  <2> QED
    BY <2>1, Widths
<1>5. (z * ByteN + a) \div ByteN = z /\ (z * ByteN + a) % ByteN = a
  BY <1>3, Widths, PartsRead
<1>6. Swap(z * ByteN + a) = a * ByteN + z
  BY <1>5, Zenon DEF Swap
<1> QED
  BY <1>1, <1>2, <1>4, <1>6

LEMMA SwappedTwice ==
  ASSUME NEW r \in Words PROVE Swapped(r) \in Words /\ Swapped(Swapped(r)) = r
BY SwapTwice DEF Swapped, Words

LEMMA OffsetRead == ASSUME NEW r \in Words
                    PROVE  /\ StartOff(r) \in 0 .. OffN - 1 /\ BlockCount(r) \in 0 .. CntN - 1
                           /\ Swap(Swap(StartOff(r))) = StartOff(r)
<1>1. PICK u, o, h, l, c : InParts(u, o, h, l, c) /\ r = Record(u, o, h, l, c)
  BY Parted
<1>2. StartOff(r) \in 0 .. OffN - 1 /\ BlockCount(r) \in 0 .. CntN - 1
  BY <1>1, ReadParts DEF InParts
<1>3. StartOff(r) \in 0 .. Word - 1
  BY <1>2, Widths
<1> QED
  BY <1>2, <1>3, SwapTwice

\* A record made from the key of another has its offset and nothing else.
BareField(o) == [off |-> o, block |-> 0, count |-> 0, unwritten |-> FALSE]

LEMMA RekeyedRecord ==
  ASSUME NEW d \in Words, big \in BOOLEAN
  PROVE  /\ Good(Swapped(RecFromKey(KeyOf(d)))) /\ RecFromKey(KeyOf(d)) \in Words
         /\ GetAll(Swapped(RecFromKey(KeyOf(d)))) = BareField(StartOff(Swapped(d)))
<1> DEFINE o == StartOff(Swapped(d))
           f == BareField(o)
<1>1. o \in 0 .. OffN - 1 /\ Swap(Swap(o)) = o
  BY SwappedTwice, OffsetRead
<1> HIDE DEF o
<1>2. KeyOf(d) = Swap(o)
  BY DEF KeyOf, o
<1>3. RecFromKey(KeyOf(d)) = Swapped(SetAllF(f))
  BY <1>1, <1>2, Zenon DEF RecFromKey, BareField
<1>4. 0 \in 0 .. HiN * LoN - 1 /\ 0 \in 0 .. CntN - 1
  <2>1. 1 * LoN <= HiN * LoN /\ 1 * LoN = LoN /\ HiN * LoN \in Nat
    BY Widths, TimesMonotone, TimesNat
  <2> QED
    BY <2>1, Widths
<1>5. f \in [off : 0 .. OffN - 1, block : 0 .. HiN * LoN - 1, count : 0 .. CntN - 1,
             unwritten : BOOLEAN] /\ Fits(f.block)
  BY <1>1, <1>4, Widths DEF BareField, Fits
<1> HIDE DEF f
<1>6. Good(SetAllF(f)) /\ GetAll(SetAllF(f)) = f
  BY <1>5, GoodSetAll
<1>7. Swapped(Swapped(SetAllF(f))) = SetAllF(f) /\ Swapped(SetAllF(f)) \in Words
  BY <1>6, SwappedTwice DEF Good
<1> QED
  BY <1>3, <1>6, <1>7, Zenon DEF f, o

(***************************************************************************)
(* The inductive invariant: both records are good.                         *)
(***************************************************************************)
IInv == big \in BOOLEAN /\ disk \in Words /\ Good(host) /\ Good(Swapped(disk))

LEMMA IInvInit == Init => IInv /\ Fields!Init
<1> SUFFICES ASSUME Init PROVE IInv /\ Fields!Init
  OBVIOUS
<1>1. PICK f \in Field, g \in Field :
        Fits(f.block) /\ Fits(g.block) /\ host = SetAllF(f) /\ disk = Swapped(SetAllF(g))
  BY DEF Init
<1>2. big \in BOOLEAN /\ call = [op |-> "none"]
  BY DEF Init
<1>3. Good(host) /\ GetAll(host) = f
  BY <1>1, <1>2, FieldRange, GoodSetAll
<1>4. Good(SetAllF(g)) /\ GetAll(SetAllF(g)) = g
  BY <1>1, <1>2, FieldRange, GoodSetAll
<1>5. disk \in Words /\ Swapped(disk) = SetAllF(g)
  BY <1>1, <1>4, SwappedTwice DEF Good
<1>6. IInv
  BY <1>2, <1>3, <1>4, <1>5 DEF IInv
<1>7. Fields!Init
  BY <1>2, <1>3, <1>4, <1>5 DEF Fields!Init
<1> QED
  BY <1>6, <1>7

\* A step that leaves a good record keeps the invariant, and what is read from
\* the two records afterwards is what is read from the new one and the old other.
LEMMA StepToHost ==
  ASSUME IInv, NEW r, NEW c, ToHost(r, c), Good(r)
  PROVE  IInv' /\ GetAll(host)' = GetAll(r) /\ GetAll(Swapped(disk))' = GetAll(Swapped(disk)) /\ call' = c
<1>1. big' = big /\ disk' = disk /\ host' = r /\ call' = c
  BY DEF ToHost
<1>2. IInv'
  BY <1>1 DEF IInv, Good, Swapped
<1>3. GetAll(host)' = GetAll(r) /\ GetAll(Swapped(disk))' = GetAll(Swapped(disk))
  BY <1>1 DEF GetAll, StartBlock
<1> QED
  BY <1>1, <1>2, <1>3

LEMMA StepToDisk ==
  ASSUME IInv, NEW r \in Words, NEW c, ToDisk(r, c), Good(Swapped(r))
  PROVE  IInv' /\ GetAll(host)' = GetAll(host) /\ GetAll(Swapped(disk))' = GetAll(Swapped(r)) /\ call' = c
<1>1. big' = big /\ disk' = r /\ host' = host /\ call' = c
  BY DEF ToDisk
<1>2. IInv'
  BY <1>1 DEF IInv, Good, Swapped
<1>3. GetAll(host)' = GetAll(host) /\ GetAll(Swapped(disk))' = GetAll(Swapped(r))
  BY <1>1 DEF GetAll, StartBlock
<1> QED
  BY <1>1, <1>2, <1>3

\* Each call keeps the invariant and is a step of the abstract records.
LEMMA NextStep == ASSUME IInv, Next PROVE IInv' /\ Fields!Next
<1> USE DEF Fields!Next
<1>0. big \in BOOLEAN /\ host \in Words /\ Good(host) /\ disk \in Words /\ Good(Swapped(disk))
  BY DEF IInv, Good
<1>1. ASSUME NEW f \in Field, Fits(f.block), SetAll(f) PROVE IInv' /\ Fields!Next
  <2>1. Good(SetAllF(f)) /\ GetAll(SetAllF(f)) = f
    BY <1>0, <1>1, FieldRange, GoodSetAll
  <2>2. IInv' /\ GetAll(host)' = f /\ GetAll(Swapped(disk))' = GetAll(Swapped(disk))
        /\ call' = [op |-> "set_all", arg |-> f]
    BY <1>1, <2>1, StepToHost DEF SetAll
  <2> QED
    BY <2>2 DEF Fields!SetAll
<1>2. ASSUME NEW f \in Field, Fits(f.block), DiskSetAll(f) PROVE IInv' /\ Fields!Next
  <2>1. Good(SetAllF(f)) /\ GetAll(SetAllF(f)) = f
    BY <1>0, <1>2, FieldRange, GoodSetAll
  <2>2. Swapped(SetAllF(f)) \in Words /\ Swapped(Swapped(SetAllF(f))) = SetAllF(f)
    BY <2>1, SwappedTwice DEF Good
  <2>3. IInv' /\ GetAll(host)' = GetAll(host) /\ GetAll(Swapped(disk))' = f
        /\ call' = [op |-> "disk_set_all", arg |-> f]
    BY <1>2, <2>1, <2>2, StepToDisk DEF DiskSetAll
  <2> QED
    BY <2>3 DEF Fields!DiskSetAll
<1>3. ASSUME NEW v \in Offs, SetStartOff(v) PROVE IInv' /\ Fields!Next
  <2>1. Good(StartOffSet(host, v)) /\ GetAll(StartOffSet(host, v)) = [GetAll(host) EXCEPT !["off"] = v]
    BY <1>0, ArgumentsFit, GoodSetters
  <2>2. IInv' /\ GetAll(host)' = [GetAll(host) EXCEPT !["off"] = v]
        /\ GetAll(Swapped(disk))' = GetAll(Swapped(disk)) /\ call' = [op |-> "off", arg |-> v]
    BY <1>3, <2>1, StepToHost DEF SetStartOff
  <2> QED
    BY <2>2 DEF Fields!SetOne
<1>4. ASSUME NEW v \in Blocks, Fits(v), SetStartBlock(v) PROVE IInv' /\ Fields!Next
  <2>1. Good(StartBlockSet(host, v)) /\ GetAll(StartBlockSet(host, v)) = [GetAll(host) EXCEPT !["block"] = v]
    BY <1>0, <1>4, ArgumentsFit, GoodSetters
  <2>2. IInv' /\ GetAll(host)' = [GetAll(host) EXCEPT !["block"] = v]
        /\ GetAll(Swapped(disk))' = GetAll(Swapped(disk)) /\ call' = [op |-> "block", arg |-> v]
    BY <1>4, <2>1, StepToHost DEF SetStartBlock
  <2> QED
    BY <2>2 DEF Fields!SetOne
<1>5. ASSUME NEW v \in Counts, SetBlockCount(v) PROVE IInv' /\ Fields!Next
  <2>1. Good(BlockCountSet(host, v)) /\ GetAll(BlockCountSet(host, v)) = [GetAll(host) EXCEPT !["count"] = v]
    BY <1>0, ArgumentsFit, GoodSetters
  <2>2. IInv' /\ GetAll(host)' = [GetAll(host) EXCEPT !["count"] = v]
        /\ GetAll(Swapped(disk))' = GetAll(Swapped(disk)) /\ call' = [op |-> "count", arg |-> v]
    BY <1>5, <2>1, StepToHost DEF SetBlockCount
  <2> QED
    BY <2>2 DEF Fields!SetOne
<1>6. ASSUME NEW v \in BOOLEAN, SetState(v) PROVE IInv' /\ Fields!Next
  <2>1. Good(StateSet(host, v)) /\ GetAll(StateSet(host, v)) = [GetAll(host) EXCEPT !["unwritten"] = v]
    BY <1>0, GoodSetters
  <2>2. IInv' /\ GetAll(host)' = [GetAll(host) EXCEPT !["unwritten"] = v]
        /\ GetAll(Swapped(disk))' = GetAll(Swapped(disk)) /\ call' = [op |-> "unwritten", arg |-> v]
    BY <1>6, <2>1, StepToHost DEF SetState
  <2> QED
    BY <2>2 DEF Fields!SetOne
<1>7. CASE Load
  <2>1. IInv' /\ GetAll(host)' = GetAll(Swapped(disk))
        /\ GetAll(Swapped(disk))' = GetAll(Swapped(disk)) /\ call' = [op |-> "load"]
    BY <1>0, <1>7, StepToHost DEF Load
  <2> QED
    BY <2>1 DEF Fields!Load
<1>8. CASE Flush
  <2>1. Swapped(host) \in Words /\ Swapped(Swapped(host)) = host
    BY <1>0, SwappedTwice
  <2>2. IInv' /\ GetAll(host)' = GetAll(host) /\ GetAll(Swapped(disk))' = GetAll(host)
        /\ call' = [op |-> "flush"]
    BY <1>0, <1>8, <2>1, StepToDisk DEF Flush
  <2> QED
    BY <2>2 DEF Fields!Flush
<1>9. CASE Rekey
  <2>1. IInv' /\ GetAll(host)' = GetAll(host)
        /\ GetAll(Swapped(disk))' = BareField(StartOff(Swapped(disk))) /\ call' = [op |-> "rekey"]
    BY <1>0, <1>9, RekeyedRecord, StepToDisk DEF Rekey
  <2>2. GetAll(Swapped(disk)).off = StartOff(Swapped(disk))
    BY DEF GetAll
  <2> QED
    BY <2>1, <2>2 DEF Fields!Rekey, BareField
<1> QED
  BY <1>1, <1>2, <1>3, <1>4, <1>5, <1>6, <1>7, <1>8, <1>9 DEF Next

LEMMA Stutter == ASSUME IInv, UNCHANGED vars
                 PROVE  IInv' /\ UNCHANGED <<GetAll(host), GetAll(Swapped(disk)), call>>
<1>1. big' = big /\ host' = host /\ disk' = disk /\ call' = call
  BY DEF vars
<1>2. IInv'
  BY <1>1 DEF IInv, Good, Swapped
<1> QED
  BY <1>1, <1>2 DEF GetAll, StartBlock

LEMMA InvariantHolds == Spec => []IInv
<1>1. Init => IInv
  BY IInvInit
<1>2. IInv /\ [Next]_vars => IInv'
  BY NextStep, Stutter
<1> QED
  BY <1>1, <1>2, PTL DEF Spec

\* The setters and converters of xfsd_bmap_btree.c leave words: no field is
\* shifted or added past the 64 bits, in either build.
THEOREM WordsStayWords == Spec => []TypeOK
<1>1. IInv => TypeOK
  BY DEF IInv, Good, TypeOK
<1> QED
  BY <1>1, InvariantHolds, PTL

\* The assertions of __xfs_bmbt_get_all and xfs_bmbt_get_startblock never fail
\* where block numbers are narrow, whatever setters made the record.
THEOREM NarrowAlwaysHolds == Spec => []NarrowHolds
<1>1. IInv => NarrowHolds
  BY DEF IInv, Good, NarrowHolds, NarrowRight
<1> QED
  BY <1>1, InvariantHolds, PTL

\* The two words implement four fields: what was set, in either build and on its
\* way to disk and back, is what is read, and no setter disturbs another's field.
THEOREM RecordsAreFields == Spec => ImplementsFields
<1>1. Init => Fields!Init
  BY IInvInit
<1>2. IInv /\ [Next]_vars => [Fields!Next]_<<GetAll(host), GetAll(Swapped(disk)), call>>
  BY NextStep, Stutter
<1> QED
  BY <1>1, <1>2, InvariantHolds, PTL DEF Spec, ImplementsFields, Fields!Spec

\* The difference of two offsets is less than half a word, so that its sign
\* survives the subtraction.
LEMMA OffsetsCompare ==
  ASSUME NEW s \in 0 .. OffN - 1, NEW o \in 0 .. OffN - 1, NEW k, Swap(k) = s
  PROVE  (s <= o => KeyDiff(k, o) <= 0) /\ (o < s => 0 < KeyDiff(k, o))
<1> DEFINE d == (s - o) % Word
<1>1. KeyDiff(k, o) = IF d < Flag THEN d ELSE d - Word
  BY DEF KeyDiff
<1>2. OffN \in Nat /\ s \in Nat /\ o \in Nat /\ s < OffN /\ o < OffN /\ OffN <= Flag /\ Word = 2 * Flag /\ Flag \in Nat \ {0}
  BY Widths
<1>3. CASE o <= s
  <2>1. s - o \in Nat /\ s - o < Word /\ s - o < Flag
    BY <1>2, <1>3
  <2>2. d = s - o
    BY <2>1, Widths
  <2> QED
    BY <1>1, <1>2, <1>3, <2>1, <2>2
<1>4. CASE s < o
  <2> DEFINE m == Word + (s - o)
  <2>1. m \in 0 .. Word - 1 /\ Flag <= m /\ s - o = m - Word
    BY <1>2, <1>4
  <2> HIDE DEF m
  <2>2. (m - Word) % Word = m
    BY <2>1, Widths
  <2>3. d = m
    BY <2>1, <2>2
  <2> HIDE DEF d
  <2> QED
    BY <1>1, <1>2, <1>4, <2>1, <2>3
<1> QED
  BY <1>2, <1>3, <1>4

\* Of two records that recs_inorder lets follow each other the keys are in order,
\* and key_diff leads a search for a block of the first record to it.
THEOREM LookupAlwaysFinds == Spec => []LookupFinds
<1>1. IInv => LookupFinds
  <2> DEFINE r == Swapped(disk)
             next == Swapped(host)
             s == StartOff(r)
             t == StartOff(host)
             n == BlockCount(r)
  <2> SUFFICES ASSUME IInv, RecsInOrder(disk, next), n > 0
               PROVE  /\ KeysInOrder(KeyOf(disk), KeyOf(next))
                      /\ \A o \in 0 .. OffN - 1 : s <= o /\ o < s + n =>
                           KeyDiff(KeyOf(disk), o) <= 0 /\ 0 < KeyDiff(KeyOf(next), o)
    BY DEF LookupFinds
  <2>1. r \in Words /\ host \in Words /\ Swapped(next) = host
    BY SwappedTwice DEF IInv, Good
  <2>2. s \in 0 .. OffN - 1 /\ t \in 0 .. OffN - 1 /\ n \in Nat /\ Swap(Swap(s)) = s /\ Swap(Swap(t)) = t
    BY <2>1, OffsetRead, Widths
  <2>3. s + n <= t
    BY <2>1 DEF RecsInOrder
  <2>4. KeyOf(disk) = Swap(s) /\ KeyOf(next) = Swap(t)
    BY <2>1 DEF KeyOf
  <2> HIDE DEF r, next, s, t, n
  <2>5. KeysInOrder(KeyOf(disk), KeyOf(next))
    BY <2>2, <2>3, <2>4, Widths DEF KeysInOrder
  <2>6. ASSUME NEW o \in 0 .. OffN - 1, s <= o, o < s + n
        PROVE  KeyDiff(KeyOf(disk), o) <= 0 /\ 0 < KeyDiff(KeyOf(next), o)
    <3>1. o < t
      BY <2>2, <2>3, <2>6, Widths
    <3> QED
      BY <2>2, <2>4, <2>6, <3>1, OffsetsCompare
  <2> QED
    BY <2>5, <2>6
<1> QED
  BY <1>1, InvariantHolds, PTL
=============================================================================
