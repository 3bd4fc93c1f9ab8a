--------------------------- MODULE ShortDirProofs ---------------------------
(***************************************************************************)
(* The short-form directory and the scan of it, for every set of names,    *)
(* their lengths, and sizes of inode and block.  Each operation is shown   *)
(* to put one entry in, take one out, or change the inode number of one;   *)
(* what these do to the offsets, the counts and the bytes gives the rest.  *)
(***************************************************************************)
EXTENDS ReadDir, SequenceLemmas

(***************************************************************************)
(* Sums of sequences.                                                      *)
(***************************************************************************)
\* f[i] is the sum of the first i.
Sums(f, s) == /\ f \in [0 .. Len(s) -> Nat]
              /\ f[0] = 0
              /\ \A i \in 1 .. Len(s) : f[i] = f[i - 1] + s[i]

LEMMA SumsAgree ==
  ASSUME NEW s \in Seq(Nat), NEW f, NEW g, Sums(f, s), Sums(g, s)
  PROVE  f = g
<1> DEFINE T == {i \in 0 .. Len(s) : f[i] # g[i]}
<1>1. T = {}
  <2> SUFFICES ASSUME T # {} PROVE FALSE
    OBVIOUS
  <2>1. PICK n \in T : \A m \in T : n <= m
    <3>1. T \in SUBSET Nat
      OBVIOUS
    <3> HIDE DEF T
    <3> QED
      BY <3>1, Least
  <2>2. n # 0
    BY <2>1 DEF Sums
  <2>3. n - 1 \in 0 .. Len(s) /\ n - 1 \notin T
    BY <2>1, <2>2
  <2> QED
    BY <2>1, <2>2, <2>3 DEF Sums
<1> QED
  BY <1>1 DEF Sums

LEMMA SumsExist == ASSUME NEW s \in Seq(Nat) PROVE \E f : Sums(f, s)
<1> DEFINE Part(f, n) == /\ f \in [0 .. n -> Nat]
                         /\ f[0] = 0
                         /\ \A i \in 1 .. n : f[i] = f[i - 1] + s[i]
           T == {n \in 0 .. Len(s) : ~ \E f : Part(f, n)}
<1>1. T = {}
  <2> SUFFICES ASSUME T # {} PROVE FALSE
    OBVIOUS
  <2>1. PICK n \in T : \A m \in T : n <= m
    <3>1. T \in SUBSET Nat
      OBVIOUS
    <3> HIDE DEF T
    <3> QED
      BY <3>1, Least
  <2>2. CASE n = 0
    <3>1. Part([i \in 0 .. 0 |-> 0], 0)
      OBVIOUS
    <3> QED
      BY <3>1, <2>1, <2>2
  <2>3. CASE n # 0
    <3>1. n - 1 \in 0 .. Len(s) /\ n - 1 \notin T
      <4>1. n \in 0 .. Len(s) /\ Len(s) \in Nat
        OBVIOUS
      <4> HIDE DEF T
      <4> QED
        BY <2>1, <2>3, <4>1
    <3>2. PICK f : Part(f, n - 1)
      BY <3>1
    <3> DEFINE g == [i \in 0 .. n |-> IF i = n THEN f[n - 1] + s[n] ELSE f[i]]
    <3>3. Part(g, n)
      <4>1. n \in 1 .. Len(s) /\ s[n] \in Nat
        BY <2>1, <2>3
      <4>2. f[n - 1] \in Nat /\ \A i \in 0 .. n - 1 : f[i] \in Nat
        BY <3>2, <4>1
      <4>3. g \in [0 .. n -> Nat] /\ g[0] = 0
        BY <3>2, <4>1, <4>2
      <4>4. ASSUME NEW i \in 1 .. n PROVE g[i] = g[i - 1] + s[i]
        <5>1. g[i - 1] = f[i - 1]
          BY <4>1
        <5>2. CASE i = n
          BY <4>1, <5>1, <5>2
        <5>3. CASE i # n
          <6>1. i \in 1 .. n - 1 /\ g[i] = f[i]
            BY <4>1, <5>3
          <6>2. f[i] = f[i - 1] + s[i]
            BY <3>2, <6>1
          <6> QED
            BY <5>1, <6>1, <6>2
        <5> QED
          BY <5>2, <5>3
      <4> QED
        BY <4>3, <4>4
    <3> QED
      BY <3>3, <2>1
  <2> QED
    BY <2>2, <2>3
<1>2. \E f : Part(f, Len(s))
  <2>1. Len(s) \in 0 .. Len(s)
    OBVIOUS
  <2> HIDE DEF Part
  <2> QED
    BY <1>1, <2>1
<1> QED
  BY <1>2 DEF Sums

\* Total is the last of the sums.
LEMMA TotalIsSum ==
  ASSUME NEW s \in Seq(Nat), NEW f, Sums(f, s)
  PROVE  Total(s) = f[Len(s)] /\ Total(s) \in Nat
<1> DEFINE sum == [i \in 0 .. Len(s) |-> IF i = 0 THEN 0 ELSE f[i - 1] + s[i]]
           P(g) == g = [i \in 0 .. Len(s) |-> IF i = 0 THEN 0 ELSE g[i - 1] + s[i]]
<1>1. f = sum
  BY DEF Sums
<1>2. P(f)
  BY <1>1
<1>3. ASSUME NEW g, P(g) PROVE g = f
  <2> DEFINE T == {i \in 0 .. Len(s) : f[i] # g[i]}
  <2>1. T = {}
    <3> SUFFICES ASSUME T # {} PROVE FALSE
      OBVIOUS
    <3>1. PICK n \in T : \A m \in T : n <= m
      <4>1. T \in SUBSET Nat
        OBVIOUS
      <4> HIDE DEF T
      <4> QED
        BY <4>1, Least
    <3>2. g[n] = IF n = 0 THEN 0 ELSE g[n - 1] + s[n]
      BY <1>3, <3>1
    <3>3. f[n] = IF n = 0 THEN 0 ELSE f[n - 1] + s[n]
      BY <3>1 DEF Sums
    <3>4. n # 0 => n - 1 \in 0 .. Len(s) /\ n - 1 \notin T
      BY <3>1
    <3> QED
      BY <3>1, <3>2, <3>3, <3>4
  <2>2. DOMAIN g = 0 .. Len(s) /\ g = [i \in DOMAIN g |-> g[i]]
    BY <1>3
  <2>3. DOMAIN f = 0 .. Len(s) /\ f = [i \in DOMAIN f |-> f[i]]
    BY DEF Sums
  <2> QED
    BY <2>1, <2>2, <2>3
<1>4. Total(s) = (CHOOSE g : P(g))[Len(s)]
  BY DEF Total
<1> HIDE DEF P
<1>5. (CHOOSE g : P(g)) = f
  BY <1>2, <1>3
<1>6. f[Len(s)] \in Nat
  BY DEF Sums
<1> QED
  BY <1>4, <1>5, <1>6, Zenon

LEMMA TotalNat == ASSUME NEW s \in Seq(Nat) PROVE Total(s) \in Nat
BY SumsExist, TotalIsSum

LEMMA TotalEmpty == Total(<<>>) = 0
<1>1. <<>> \in Seq(Nat) /\ Len(<<>>) = 0
  OBVIOUS
<1>2. PICK f : Sums(f, <<>>)
  BY <1>1, SumsExist
<1> QED
  BY <1>1, <1>2, TotalIsSum DEF Sums

\* What an element put in adds.
LEMMA TotalInsert ==
  ASSUME NEW s \in Seq(Nat), NEW t \in Seq(Nat), NEW i \in 1 .. Len(s) + 1, NEW e \in Nat,
         IsInserted(t, s, i, e)
  PROVE  Total(t) = Total(s) + e
<1>1. PICK f : Sums(f, s)
  BY SumsExist
<1> DEFINE g == [j \in 0 .. Len(s) + 1 |-> IF j < i THEN f[j] ELSE f[j - 1] + e]
<1>2. Len(s) \in Nat /\ Len(t) = Len(s) + 1
      /\ \A j \in 1 .. Len(s) + 1 : t[j] = IF j < i THEN s[j] ELSE IF j = i THEN e ELSE s[j - 1]
  BY DEF IsInserted
<1>3. f[0] = 0 /\ \A j \in 0 .. Len(s) : f[j] \in Nat
  BY <1>1 DEF Sums
<1>4. \A j \in 1 .. Len(s) : f[j] = f[j - 1] + s[j] /\ s[j] \in Nat
  BY <1>1 DEF Sums
<1>5. \A j \in 0 .. Len(s) + 1 : g[j] = IF j < i THEN f[j] ELSE f[j - 1] + e
  OBVIOUS
<1>6. \A j \in 0 .. Len(s) + 1 : (IF j < i THEN f[j] ELSE f[j - 1] + e) \in Nat
  <2> TAKE j \in 0 .. Len(s) + 1
  <2>1. (j < i => j \in 0 .. Len(s)) /\ (~ (j < i) => j - 1 \in 0 .. Len(s))
    BY <1>2
  <2>2. CASE j < i
    BY <2>1, <2>2, <1>3
  <2>3. CASE ~ (j < i)
    <3>1. f[j - 1] \in Nat
      BY <2>1, <2>3, <1>3
    <3> QED
      BY <2>3, <3>1
  <2> QED
    BY <2>2, <2>3
<1>7. g \in [0 .. Len(s) + 1 -> Nat] /\ g[0] = 0
  <2>1. g \in [0 .. Len(s) + 1 -> Nat]
    BY <1>6
  <2>2. 0 \in 0 .. Len(s) + 1 /\ 0 < i
    BY <1>2
  <2> HIDE DEF g
  <2> QED
    BY <2>1, <2>2, <1>3, <1>5
<1>8. g[Len(s) + 1] = f[Len(s)] + e
  BY <1>2
<1> HIDE DEF g
<1>9. ASSUME NEW j \in 1 .. Len(s) + 1 PROVE g[j] = g[j - 1] + t[j]
  <2>0. j \in 0 .. Len(s) + 1 /\ j - 1 \in 0 .. Len(s) + 1 /\ j - 1 < j
    BY <1>2
  <2>1. CASE j < i
    <3>1. j \in 1 .. Len(s) /\ j - 1 < i
      BY <2>1, <1>2
    <3> QED
      BY <2>0, <2>1, <3>1, <1>2, <1>4, <1>5
  <2>2. CASE j = i
    <3>1. g[j] = f[j - 1] + e /\ g[j - 1] = f[j - 1] /\ t[j] = e
      BY <2>0, <2>2, <1>2, <1>5
    <3> QED
      BY <3>1
  <2>3. CASE j > i
    <3>1. j - 1 \in 1 .. Len(s) /\ ~ (j < i) /\ ~ (j - 1 < i)
      BY <2>3, <1>2
    <3>2. t[j] = s[j - 1] /\ g[j] = f[j - 1] + e /\ g[j - 1] = f[(j - 1) - 1] + e
      BY <2>0, <2>3, <3>1, <1>2, <1>5
    <3>3. f[j - 1] = f[(j - 1) - 1] + s[j - 1] /\ s[j - 1] \in Nat /\ f[(j - 1) - 1] \in Nat
      BY <3>1, <1>3, <1>4
    <3> QED
      BY <3>2, <3>3
  <2> QED
    BY <1>2, <2>1, <2>2, <2>3
<1>10. Sums(g, t)
  BY <1>2, <1>7, <1>9 DEF Sums
<1>11. Len(t) = Len(s) + 1
  BY <1>2
<1> QED
  BY <1>1, <1>8, <1>10, <1>11, TotalIsSum

\* An element is at most the total, and what is left without it is less by it.
LEMMA TotalRemove ==
  ASSUME NEW s \in Seq(Nat), NEW i \in 1 .. Len(s), NEW t \in Seq(Nat), Len(t) = Len(s) - 1,
         \A j \in 1 .. Len(t) : t[j] = IF j < i THEN s[j] ELSE s[j + 1]
  PROVE  Total(s) = Total(t) + s[i]
<1>1. Len(s) \in Nat /\ s[i] \in Nat /\ i \in 1 .. Len(t) + 1 /\ Len(s) = Len(t) + 1
  OBVIOUS
<1>2. ASSUME NEW j \in 1 .. Len(t) + 1
      PROVE  s[j] = IF j < i THEN t[j] ELSE IF j = i THEN s[i] ELSE t[j - 1]
  <2>1. CASE j < i
    <3>1. j \in 1 .. Len(t)
      BY <1>1, <2>1
    <3> QED
      BY <2>1, <3>1
  <2>2. CASE j > i
    <3>1. j - 1 \in 1 .. Len(t) /\ ~ (j - 1 < i) /\ (j - 1) + 1 = j
      BY <1>1, <2>2
    <3>2. t[j - 1] = s[(j - 1) + 1]
      BY <3>1
    <3> QED
      BY <2>2, <3>1, <3>2
  <2> QED
    BY <1>1, <2>1, <2>2
<1>3. IsInserted(s, t, i, s[i])
  BY <1>1, <1>2 DEF IsInserted
<1> QED
  BY <1>1, <1>3, TotalInsert

\* Four more for each element.
LEMMA TotalFour ==
  ASSUME NEW s \in Seq(Nat), NEW t \in Seq(Nat), Len(t) = Len(s),
         \A i \in 1 .. Len(s) : t[i] = s[i] + 4
  PROVE  Total(t) = Total(s) + 4 * Len(s)
<1>1. PICK f : Sums(f, s)
  BY SumsExist
<1> DEFINE g == [i \in 0 .. Len(s) |-> f[i] + 4 * i]
<1>2. Len(s) \in Nat /\ f[0] = 0 /\ \A i \in 0 .. Len(s) : f[i] \in Nat
  <2>1. Len(s) \in Nat
    OBVIOUS
  <2> HIDE DEF g
  <2>2. f[0] = 0 /\ \A i \in 0 .. Len(s) : f[i] \in Nat
    BY <1>1 DEF Sums
  <2> QED
    BY <2>1, <2>2
<1>3. g \in [0 .. Len(s) -> Nat] /\ g[0] = 0 /\ \A i \in 0 .. Len(s) : g[i] = f[i] + 4 * i
  BY <1>2
<1> HIDE DEF g
<1>4. ASSUME NEW i \in 1 .. Len(s) PROVE g[i] = g[i - 1] + t[i]
  <2>1. i \in 0 .. Len(s) /\ i - 1 \in 0 .. Len(s) /\ s[i] \in Nat
    BY <1>2
  <2>2. f[i] = f[i - 1] + s[i]
    BY <1>1 DEF Sums
  <2>3. g[i] = f[i] + 4 * i /\ g[i - 1] = f[i - 1] + 4 * (i - 1) /\ t[i] = s[i] + 4
    BY <2>1, <1>3
  <2>4. f[i - 1] \in Nat /\ i \in Nat
    BY <2>1, <1>2
  <2>5. ASSUME NEW a \in Nat, NEW b \in Nat, NEW k \in Nat PROVE a + b + 4 * k = a + 4 * (k - 1) + (b + 4)
    OBVIOUS
  <2>6. f[i - 1] + s[i] + 4 * i = f[i - 1] + 4 * (i - 1) + (s[i] + 4)
    BY <2>1, <2>4, <2>5
  <2> QED
    BY <2>2, <2>3, <2>6, Zenon
<1>5. Sums(g, t)
  BY <1>3, <1>4 DEF Sums
<1>6. Total(s) = f[Len(s)] /\ Total(t) = g[Len(t)]
  BY <1>1, <1>5, TotalIsSum
<1>7. Len(s) \in 0 .. Len(s)
  BY <1>2
<1> QED
  BY <1>3, <1>6, <1>7

(***************************************************************************)
(* Entries: their sizes, and where they lie.                               *)
(***************************************************************************)
LEMMA AsSequence ==
  ASSUME NEW S, NEW n \in Nat, NEW f \in [1 .. n -> S]
  PROVE  f \in Seq(S) /\ Len(f) = n
<1>1. f \in Seq(S)
  BY SeqDef
<1> QED
  BY <1>1, LenProperties

LEMMA SizesNat ==
  /\ ShortMax \in Nat /\ ForkSize \in Nat /\ BlockSize \in Nat /\ BlockSize % 8 = 0
  /\ \A ino \in Ino : ino \in Nat
<1>1. {ShortMax, ForkSize, BlockSize} \subseteq Nat /\ Ino \subseteq Nat /\ BlockSize % 8 = 0
  BY DirAssumption
<1> QED
  BY <1>1

LEMMA Places48 == DotOffset = 16 /\ DotDotOffset = 32 /\ First = 48
<1>1. (8 + 1 + 1 + 2 + 7) \div 8 = 2 /\ (8 + 1 + 2 + 2 + 7) \div 8 = 2
  OBVIOUS
<1> QED
  BY <1>1 DEF DotOffset, DotDotOffset, First, Padded

LEMMA EightTimes == ASSUME NEW k \in Nat PROVE (8 * k) % 8 = 0
OBVIOUS

LEMMA EightApart ==
  ASSUME NEW a \in Nat, NEW b \in Nat, a % 8 = 0, b % 8 = 0
  PROVE  (a + b) % 8 = 0 /\ (a < b => a + 8 <= b)
OBVIOUS

LEMMA SizeOf ==
  ASSUME NEW n \in Name
  PROVE  DataSize(n) \in Nat /\ DataSize(n) >= 16 /\ DataSize(n) % 8 = 0
<1>1. len[n] \in 1 .. 255
  BY DirAssumption
<1> DEFINE k == (8 + 1 + len[n] + 2 + 7) \div 8
<1>2. k \in Nat /\ k >= 2
  BY <1>1
<1>3. DataSize(n) = 8 * k
  BY DEF DataSize, Padded
<1> HIDE DEF k
<1> QED
  BY <1>2, <1>3, EightTimes

LEMMA EntSizeOf ==
  ASSUME NEW n \in Name, NEW c \in Nat
  PROVE  /\ EntSize(c, n) \in Nat
         /\ c # 0 => EntSize(c, n) = EntSize(0, n) + 4
BY DirAssumption DEF EntSize, InoSize

\* Bytes of the entries in the inode, and which of their numbers are wide.
Bytes(c, es) == [i \in DOMAIN es |-> EntSize(c, es[i].name)]
Bits(es) == [i \in DOMAIN es |-> Wide(es[i].ino)]

LEMMA EntryFields ==
  ASSUME NEW e \in Entry
  PROVE  /\ e.name \in Name /\ e.offset \in 0 .. BlockSize /\ e.offset \in Nat
         /\ e.ino \in Ino /\ e.ino \in Nat
         /\ After(e) \in Nat /\ After(e) = e.offset + DataSize(e.name) /\ After(e) >= e.offset + 16
         /\ e.offset % 8 = 0 => After(e) % 8 = 0
<1>1. /\ e.name \in Name /\ e.offset \in 0 .. BlockSize /\ e.offset \in Nat
      /\ e.ino \in Ino /\ e.ino \in Nat
  BY SizesNat DEF Entry
<1> QED
  BY <1>1, SizeOf, EightApart DEF After

LEMMA BytesAndBits ==
  ASSUME NEW es \in Seq(Entry), NEW c \in Nat
  PROVE  /\ Bytes(c, es) \in Seq(Nat) /\ Len(Bytes(c, es)) = Len(es)
         /\ Bits(es) \in Seq(Nat) /\ Len(Bits(es)) = Len(es)
         /\ \A i \in 1 .. Len(es) : /\ Bytes(c, es)[i] = EntSize(c, es[i].name)
                                    /\ Bits(es)[i] = Wide(es[i].ino)
<1>1. DOMAIN es = 1 .. Len(es) /\ Len(es) \in Nat /\ \A i \in 1 .. Len(es) : es[i] \in Entry
  OBVIOUS
<1>2. \A i \in 1 .. Len(es) : EntSize(c, es[i].name) \in Nat /\ Wide(es[i].ino) \in Nat
  BY <1>1, EntryFields, EntSizeOf DEF Wide
<1>3. Bytes(c, es) \in [1 .. Len(es) -> Nat] /\ Bits(es) \in [1 .. Len(es) -> Nat]
  BY <1>1, <1>2 DEF Bytes, Bits
<1>4. \A i \in 1 .. Len(es) : Bytes(c, es)[i] = EntSize(c, es[i].name) /\ Bits(es)[i] = Wide(es[i].ino)
  BY <1>1 DEF Bytes, Bits
<1> QED
  BY <1>1, <1>3, <1>4, AsSequence

LEMMA PackedIs ==
  ASSUME NEW es \in Seq(Entry), NEW c \in Nat, NEW p \in Ino
  PROVE  /\ Packed(c, es) = HdrSize(c) + Total(Bytes(c, es)) /\ Packed(c, es) \in Nat
         /\ Wides(es, p) = Total(Bits(es)) + Wide(p) /\ Wides(es, p) \in Nat
         /\ HdrSize(c) \in Nat /\ Wide(p) \in {0, 1}
<1>1. Packed(c, es) = HdrSize(c) + Total(Bytes(c, es)) /\ Wides(es, p) = Total(Bits(es)) + Wide(p)
  BY DEF Packed, Wides, Bytes, Bits
<1>2. Total(Bytes(c, es)) \in Nat /\ Total(Bits(es)) \in Nat
  BY BytesAndBits, TotalNat
<1>3. HdrSize(c) \in Nat /\ Wide(p) \in {0, 1}
  BY DEF HdrSize, InoSize, Wide
<1> QED
  BY <1>1, <1>2, <1>3

\* Wide inode numbers take four bytes more each, that of the parent included.
LEMMA WidePacked ==
  ASSUME NEW es \in Seq(Entry), NEW c \in Nat, c # 0
  PROVE  Packed(c, es) = Packed(0, es) + (Len(es) + 1) * 4
<1>1. /\ Bytes(c, es) \in Seq(Nat) /\ Bytes(0, es) \in Seq(Nat)
      /\ Len(Bytes(c, es)) = Len(es) /\ Len(Bytes(0, es)) = Len(es)
      /\ \A i \in 1 .. Len(es) : Bytes(c, es)[i] = EntSize(c, es[i].name)
      /\ \A i \in 1 .. Len(es) : Bytes(0, es)[i] = EntSize(0, es[i].name)
  BY BytesAndBits
<1>2. \A i \in 1 .. Len(es) : Bytes(c, es)[i] = Bytes(0, es)[i] + 4
  <2> TAKE i \in 1 .. Len(es)
  <2>1. es[i].name \in Name
    BY EntryFields
  <2> QED
    BY <1>1, <2>1, EntSizeOf
<1>3. Total(Bytes(c, es)) = Total(Bytes(0, es)) + 4 * Len(es)
  BY <1>1, <1>2, TotalFour
<1>4. Total(Bytes(0, es)) \in Nat /\ Len(es) \in Nat
  BY <1>1, TotalNat
<1>5. Packed(c, es) = 10 + Total(Bytes(c, es)) /\ Packed(0, es) = 6 + Total(Bytes(0, es))
  BY DEF Packed, Bytes, HdrSize, InoSize
<1> QED
  BY <1>3, <1>4, <1>5

\* No name is there twice, and, if offsets are stored, each entry lies behind
\* the one before it.
Distinct(es) == \A i, j \in 1 .. Len(es) : es[i].name = es[j].name => i = j
Aligned(es) == \A i \in 1 .. Len(es) : es[i].offset % 8 = 0
Apart(es) == \A i \in 1 .. Len(es) : es[i].offset >= Before(es, i)
Valid(es) == es \in Seq(Entry) /\ Distinct(es) /\ Aligned(es) /\ (PutsOffset => Apart(es))

\* An entry that can be put in: it is new, and between its neighbours.
Between(e, es, i) == e.offset >= Before(es, i) /\ (i <= Len(es) => After(e) <= es[i].offset)
FitsAt(e, es, i) == /\ e \in Entry
                    /\ \A j \in 1 .. Len(es) : es[j].name # e.name
                    /\ e.offset % 8 = 0
                    /\ PutsOffset => Between(e, es, i)

LEMMA BeforeIs ==
  ASSUME NEW es \in Seq(Entry)
  PROVE  /\ Before(es, 1) = First
         /\ \A i \in 1 .. Len(es) : Before(es, i + 1) = After(es[i])
         /\ \A i \in 2 .. Len(es) + 1 : Before(es, i) = After(es[i - 1])
         /\ EndOf(es) = Before(es, Len(es) + 1)
BY DEF Before, EndOf

LEMMA BeforeNat ==
  ASSUME NEW es, Valid(es), NEW i \in 1 .. Len(es) + 1
  PROVE  Before(es, i) \in Nat /\ Before(es, i) % 8 = 0
<1>1. es \in Seq(Entry) /\ \A j \in 1 .. Len(es) : es[j] \in Entry /\ es[j].offset % 8 = 0
  BY DEF Valid, Aligned
<1>2. CASE i = 1
  <2>1. 48 % 8 = 0
    OBVIOUS
  <2> QED
    BY <1>1, <1>2, <2>1, BeforeIs, Places48
<1>3. CASE i # 1
  <2>1. i - 1 \in 1 .. Len(es) /\ i \in 2 .. Len(es) + 1
    BY <1>1, <1>3
  <2>2. Before(es, i) = After(es[i - 1])
    BY <1>1, <2>1, BeforeIs
  <2> QED
    BY <1>1, <2>1, <2>2, EntryFields
<1> QED
  BY <1>2, <1>3

\* The names begin where the entries of . and .. end.
LEMMA BeforeFirst ==
  ASSUME PutsOffset, NEW es, Valid(es), NEW i \in 1 .. Len(es) + 1
  PROVE  Before(es, i) \in Nat /\ Before(es, i) % 8 = 0 /\ Before(es, i) >= First
<1>1. es \in Seq(Entry) /\ \A j \in 1 .. Len(es) : es[j] \in Entry
  BY DEF Valid
<1>2. CASE i = 1
  <2>1. 48 % 8 = 0
    OBVIOUS
  <2> QED
    BY <1>1, <1>2, <2>1, BeforeIs, Places48
<1>3. CASE i # 1
  <2> DEFINE T == {j \in 2 .. Len(es) + 1 : ~ (Before(es, j) >= First)}
  <2>1. \A j \in 2 .. Len(es) + 1 : /\ Before(es, j) = After(es[j - 1]) /\ j - 1 \in 1 .. Len(es)
                                   /\ After(es[j - 1]) \in Nat /\ After(es[j - 1]) % 8 = 0
                                   /\ After(es[j - 1]) >= Before(es, j - 1)
    <3> TAKE j \in 2 .. Len(es) + 1
    <3>1. j - 1 \in 1 .. Len(es) /\ Before(es, j) = After(es[j - 1])
      BY <1>1, BeforeIs
    <3>2. es[j - 1] \in Entry /\ es[j - 1].offset % 8 = 0 /\ es[j - 1].offset >= Before(es, j - 1)
      BY <3>1, <1>1 DEF Valid, Apart, Aligned
    <3>3. After(es[j - 1]) \in Nat /\ After(es[j - 1]) % 8 = 0 /\ After(es[j - 1]) >= es[j - 1].offset + 16
          /\ es[j - 1].offset \in Nat
      BY <3>2, EntryFields
    <3>4. Before(es, j - 1) \in Int
      <4>1. CASE j - 1 = 1
        BY <4>1, BeforeIs, Places48, <1>1
      <4>2. CASE j - 1 # 1
        <5>1. j - 1 \in 2 .. Len(es) + 1 /\ (j - 1) - 1 \in 1 .. Len(es)
          BY <4>2, <3>1, <1>1
        <5>2. Before(es, j - 1) = After(es[(j - 1) - 1])
          BY <5>1, <1>1, BeforeIs
        <5> QED
          BY <5>1, <5>2, <1>1, EntryFields
      <4> QED
        BY <4>1, <4>2
    <3> QED
      BY <3>1, <3>2, <3>3, <3>4
  <2>2. T = {}
    <3> SUFFICES ASSUME T # {} PROVE FALSE
      OBVIOUS
    <3>1. PICK n \in T : \A m \in T : n <= m
      <4>1. T \in SUBSET Nat
        OBVIOUS
      <4> HIDE DEF T
      <4> QED
        BY <4>1, Least
    <3>2. n \in 2 .. Len(es) + 1 /\ n \in Nat /\ ~ (Before(es, n) >= First)
      OBVIOUS
    <3>3. n - 1 \notin T
      <4> HIDE DEF T
      <4> QED
        BY <3>1, <3>2
    <3>4. n - 1 = 1 \/ n - 1 \in 2 .. Len(es) + 1
      BY <3>2, <1>1
    <3>5. Before(es, n - 1) >= 48 /\ Before(es, n - 1) \in Int
      <4>1. CASE n - 1 = 1
        BY <4>1, <1>1, BeforeIs, Places48
      <4>2. CASE n - 1 # 1
        <5>1. n - 1 \in 2 .. Len(es) + 1
          BY <4>2, <3>4
        <5>2. Before(es, n - 1) \in Int
          BY <2>1, <5>1
        <5>3. Before(es, n - 1) >= First
          BY <3>3, <5>1
        <5> QED
          BY <5>2, <5>3, Places48
      <4> QED
        BY <4>1, <4>2
    <3> HIDE DEF T
    <3> QED
      BY <3>2, <3>5, <2>1, Places48
  <2>3. i \in 2 .. Len(es) + 1
    BY <1>1, <1>3
  <2>4. Before(es, i) >= First
    BY <2>2, <2>3
  <2> HIDE DEF T
  <2> QED
    BY <2>1, <2>3, <2>4
<1> QED
  BY <1>2, <1>3

\* One entry follows another at once or behind others.
LEMMA Ascend ==
  ASSUME PutsOffset, NEW es, Valid(es), NEW i \in 1 .. Len(es), NEW j \in 1 .. Len(es), i < j
  PROVE  After(es[i]) <= es[j].offset
<1> DEFINE T == {m \in i + 1 .. Len(es) : ~ (After(es[i]) <= es[m].offset)}
<1>1. es \in Seq(Entry) /\ \A m \in 1 .. Len(es) : es[m] \in Entry /\ Before(es, m) <= es[m].offset
  BY DEF Valid, Apart
<1>2. T = {}
  <2> SUFFICES ASSUME T # {} PROVE FALSE
    OBVIOUS
  <2>1. PICK n \in T : \A m \in T : n <= m
    <3>1. T \in SUBSET Nat
      OBVIOUS
    <3> HIDE DEF T
    <3> QED
      BY <3>1, Least
  <2>2. n \in i + 1 .. Len(es) /\ ~ (After(es[i]) <= es[n].offset)
    OBVIOUS
  <2>3. Before(es, n) = After(es[n - 1]) /\ Before(es, n) <= es[n].offset /\ n - 1 \in 1 .. Len(es)
    BY <1>1, <2>2, BeforeIs
  <2>4. n - 1 # i
    BY <2>2, <2>3
  <2>5. n - 1 \in i + 1 .. Len(es) /\ n - 1 \notin T
    <3> HIDE DEF T
    <3> QED
      BY <2>1, <2>2, <2>4
  <2>6. After(es[i]) <= es[n - 1].offset
    BY <2>5
  <2>7. /\ es[n - 1].offset \in Nat /\ es[n].offset \in Nat /\ After(es[i]) \in Nat
        /\ After(es[n - 1]) \in Nat /\ After(es[n - 1]) >= es[n - 1].offset + 16
    <3> HIDE DEF T
    <3>1. n \in 1 .. Len(es)
      BY <2>2
    <3>2. es[n] \in Entry /\ es[n - 1] \in Entry /\ es[i] \in Entry
      BY <1>1, <2>3, <3>1
    <3> QED
      BY <3>2, EntryFields
  <2>8. ~ (After(es[i]) <= es[n].offset) /\ After(es[n - 1]) <= es[n].offset
    BY <2>2, <2>3
  <2> HIDE DEF T
  <2> QED
    BY <2>6, <2>7, <2>8
<1>3. j \in i + 1 .. Len(es)
  BY <1>1
<1> QED
  BY <1>2, <1>3

(***************************************************************************)
(* One entry more, one less, one with another inode number.                *)
(***************************************************************************)
\* t is es with e at place i: nothing else is moved or renumbered.
LEMMA Enters ==
  ASSUME NEW es, Valid(es), NEW i \in 1 .. Len(es) + 1, NEW e, FitsAt(e, es, i),
         NEW t, t = InsertAt(es, i, e)
  PROVE  /\ Valid(t) /\ Len(t) = Len(es) + 1
         /\ EndOf(t) = IF i = Len(es) + 1 THEN After(e) ELSE EndOf(es)
         /\ IsInserted(t, es, i, e)
<1>1. /\ es \in Seq(Entry) /\ Len(es) \in Nat /\ \A j \in 1 .. Len(es) : es[j] \in Entry
      /\ e \in Entry
  BY DEF Valid, FitsAt
<1>2. t \in Seq(Entry) /\ IsInserted(t, es, i, e)
  BY <1>1, InsertedRead
<1>3. /\ Len(t) = Len(es) + 1 /\ t[i] = e
      /\ \A j \in 1 .. Len(es) + 1 : j < i => j \in 1 .. Len(es) /\ t[j] = es[j]
      /\ \A j \in 1 .. Len(es) + 1 : j > i => j - 1 \in 1 .. Len(es) /\ t[j] = es[j - 1]
  BY <1>1, <1>2 DEF IsInserted
<1>4. Distinct(t)
  <2> SUFFICES ASSUME NEW j \in 1 .. Len(t), NEW k \in 1 .. Len(t), t[j].name = t[k].name
               PROVE  j = k
    BY DEF Distinct
  <2>1. \A m \in 1 .. Len(es) : es[m].name # e.name
    BY DEF FitsAt
  <2>2. \A m, n \in 1 .. Len(es) : es[m].name = es[n].name => m = n
    BY DEF Valid, Distinct
  <2>3. CASE j = i \/ k = i
    <3>1. \A m \in 1 .. Len(t) : m # i => t[m].name # e.name
      <4> TAKE m \in 1 .. Len(t)
      <4>1. CASE m < i
        BY <4>1, <1>1, <1>3, <2>1
      <4>2. CASE m > i
        BY <4>2, <1>1, <1>3, <2>1
      <4> QED
        BY <1>1, <1>3, <4>1, <4>2
    <3> QED
      BY <3>1, <1>3, <2>3
  <2>4. CASE j < i /\ k < i
    BY <1>1, <1>3, <2>2, <2>4
  <2>5. CASE j > i /\ k > i
    <3>1. /\ j - 1 \in 1 .. Len(es) /\ t[j] = es[j - 1]
          /\ k - 1 \in 1 .. Len(es) /\ t[k] = es[k - 1]
      BY <1>3, <2>5
    <3>2. j - 1 = k - 1
      BY <2>2, <3>1
    <3> QED
      BY <3>2, <1>1, <1>3
  <2>6. CASE j < i /\ k > i
    <3>1. j = k - 1
      BY <1>1, <1>3, <2>2, <2>6
    <3> QED
      BY <3>1, <2>6, <1>1, <1>3
  <2>7. CASE j > i /\ k < i
    <3>1. j - 1 = k
      BY <1>1, <1>3, <2>2, <2>7
    <3> QED
      BY <3>1, <2>7, <1>1, <1>3
  <2> QED
    BY <1>1, <1>3, <2>3, <2>4, <2>5, <2>6, <2>7
<1>5. \A j \in 1 .. Len(t) + 1 :
        Before(t, j) = IF j <= i THEN Before(es, j) ELSE IF j = i + 1 THEN After(e) ELSE Before(es, j - 1)
  <2> TAKE j \in 1 .. Len(t) + 1
  <2>1. CASE j = 1
    BY <2>1, <1>1, <1>2, BeforeIs
  <2>2. CASE j # 1
    <3>1. Before(t, j) = After(t[j - 1]) /\ j - 1 \in 1 .. Len(t) /\ j \in 2 .. Len(t) + 1
      BY <2>2, <1>1, <1>2, <1>3, BeforeIs
    <3>2. CASE j <= i
      <4>1. t[j - 1] = es[j - 1] /\ j \in 2 .. Len(es) + 1
        BY <3>1, <3>2, <1>1, <1>3
      <4> QED
        BY <3>1, <3>2, <4>1, <1>1, BeforeIs
    <3>3. CASE j = i + 1
      BY <3>1, <3>3, <1>1, <1>3
    <3>4. CASE j > i + 1
      <4>1. t[j - 1] = es[(j - 1) - 1] /\ j - 1 \in 2 .. Len(es) + 1
        BY <3>1, <3>4, <1>1, <1>3
      <4>2. Before(es, j - 1) = After(es[(j - 1) - 1])
        BY <4>1, <1>1, BeforeIs
      <4> QED
        BY <3>1, <3>4, <4>1, <4>2, <1>1
    <3> QED
      BY <1>1, <3>2, <3>3, <3>4
  <2> QED
    BY <2>1, <2>2
<1>6. Aligned(t) /\ (PutsOffset => Apart(t))
  <2>0. ASSUME NEW j \in 1 .. Len(t) PROVE t[j].offset % 8 = 0
    <3>1. \A m \in 1 .. Len(es) : es[m].offset % 8 = 0
      BY DEF Valid, Aligned
    <3>2. e.offset % 8 = 0
      BY DEF FitsAt
    <3>3. CASE j = i
      BY <1>3, <3>2, <3>3
    <3>4. CASE j < i
      BY <1>1, <1>3, <3>1, <3>4
    <3>5. CASE j > i
      BY <1>1, <1>3, <3>1, <3>5
    <3> QED
      BY <1>1, <3>3, <3>4, <3>5
  <2> SUFFICES ASSUME PutsOffset, NEW j \in 1 .. Len(t)
               PROVE  t[j].offset >= Before(t, j)
    BY <2>0 DEF Apart, Aligned
  <2>1. \A m \in 1 .. Len(es) : es[m].offset >= Before(es, m)
    BY DEF Valid, Apart
  <2>2. CASE j < i
    BY <2>2, <2>1, <1>1, <1>3, <1>5
  <2>3. CASE j = i
    BY <2>3, <1>1, <1>3, <1>5 DEF FitsAt, Between
  <2>4. CASE j = i + 1
    <3>1. t[j] = es[i] /\ i \in 1 .. Len(es) /\ i <= Len(es)
      BY <2>4, <1>1, <1>3
    <3>2. After(e) <= es[i].offset
      BY <3>1 DEF FitsAt, Between
    <3>3. After(e) \in Nat /\ es[i].offset \in Nat
      BY <1>1, <3>1, EntryFields
    <3> QED
      BY <2>1, <2>4, <3>1, <3>2, <3>3, <1>1, <1>5
  <2>5. CASE j > i + 1
    <3>1. t[j] = es[j - 1] /\ j - 1 \in 1 .. Len(es)
      BY <2>5, <1>1, <1>3
    <3> QED
      BY <2>1, <2>5, <3>1, <1>1, <1>5
  <2> QED
    BY <1>1, <1>3, <2>2, <2>3, <2>4, <2>5
<1>7. EndOf(t) = IF i = Len(es) + 1 THEN After(e) ELSE EndOf(es)
  <2>1. EndOf(t) = Before(t, Len(t) + 1) /\ EndOf(es) = Before(es, Len(es) + 1)
    BY <1>1, <1>2, BeforeIs
  <2> QED
    BY <2>1, <1>1, <1>3, <1>5
<1> QED
  BY <1>2, <1>3, <1>4, <1>6, <1>7 DEF Valid

\* What is left when the entry at place i is taken.
LEMMA Leaves ==
  ASSUME NEW es, Valid(es), NEW i \in 1 .. Len(es), NEW t, t = RemoveAt(es, i)
  PROVE  /\ Valid(t) /\ Len(t) = Len(es) - 1
         /\ PutsOffset => EndOf(t) <= EndOf(es)
         /\ \A j \in 1 .. Len(t) : t[j] = IF j < i THEN es[j] ELSE es[j + 1]
<1>1. es \in Seq(Entry) /\ Len(es) \in Nat /\ \A j \in 1 .. Len(es) : es[j] \in Entry
  BY DEF Valid
<1>2. /\ t \in Seq(Entry) /\ Len(t) = Len(es) - 1
      /\ \A j \in 1 .. Len(es) - 1 : t[j] = IF j < i THEN es[j] ELSE es[j + 1]
  BY <1>1, Removed
<1>3. Distinct(t)
  <2> SUFFICES ASSUME NEW j \in 1 .. Len(t), NEW k \in 1 .. Len(t), t[j].name = t[k].name
               PROVE  j = k
    BY DEF Distinct
  <2>1. \A m, n \in 1 .. Len(es) : es[m].name = es[n].name => m = n
    BY DEF Valid, Distinct
  <2>2. /\ \A m \in 1 .. Len(t) : m < i => m \in 1 .. Len(es) /\ t[m] = es[m]
        /\ \A m \in 1 .. Len(t) : ~ (m < i) => m + 1 \in 1 .. Len(es) /\ t[m] = es[m + 1]
    <3>1. ASSUME NEW m \in 1 .. Len(t), m < i PROVE m \in 1 .. Len(es) /\ t[m] = es[m]
      BY <1>1, <1>2, <3>1
    <3>2. ASSUME NEW m \in 1 .. Len(t), ~ (m < i) PROVE m + 1 \in 1 .. Len(es) /\ t[m] = es[m + 1]
      BY <1>1, <1>2, <3>2
    <3> QED
      BY <3>1, <3>2
  <2>3. CASE j < i /\ k < i
    BY <2>1, <2>2, <2>3
  <2>4. CASE ~ (j < i) /\ ~ (k < i)
    <3>1. j + 1 = k + 1
      BY <2>1, <2>2, <2>4
    <3> QED
      BY <1>1, <1>2, <3>1
  <2>5. CASE j < i /\ ~ (k < i)
    <3>0. j \in 1 .. Len(es) /\ t[j] = es[j] /\ k + 1 \in 1 .. Len(es) /\ t[k] = es[k + 1]
      BY <2>2, <2>5
    <3>1. j = k + 1
      BY <2>1, <3>0
    <3> QED
      BY <1>1, <1>2, <2>5, <3>1
  <2>6. CASE ~ (j < i) /\ k < i
    <3>1. j + 1 = k
      BY <2>1, <2>2, <2>6
    <3> QED
      BY <1>1, <1>2, <2>6, <3>1
  <2> QED
    BY <2>3, <2>4, <2>5, <2>6
<1>4. \A j \in 1 .. Len(t) + 1 : Before(t, j) = IF j <= i THEN Before(es, j) ELSE Before(es, j + 1)
  <2> TAKE j \in 1 .. Len(t) + 1
  <2>1. CASE j = 1
    BY <2>1, <1>1, <1>2, BeforeIs
  <2>2. CASE j # 1
    <3>1. Before(t, j) = After(t[j - 1]) /\ j - 1 \in 1 .. Len(t) /\ j \in 2 .. Len(t) + 1
      <4>1. j \in 2 .. Len(t) + 1 /\ j - 1 \in 1 .. Len(t)
        BY <2>2, <1>1, <1>2
      <4> QED
        BY <4>1, <1>2, BeforeIs
    <3>2. CASE j <= i
      <4>1. t[j - 1] = es[j - 1] /\ j \in 2 .. Len(es) + 1
        BY <3>1, <3>2, <1>1, <1>2
      <4> QED
        BY <3>1, <3>2, <4>1, <1>1, BeforeIs
    <3>3. CASE j > i
      <4>1. t[j - 1] = es[j] /\ j \in 1 .. Len(es)
        <5>1. t[j - 1] = es[(j - 1) + 1] /\ (j - 1) + 1 = j
          BY <3>1, <3>3, <1>1, <1>2
        <5> QED
          BY <5>1, <3>1, <1>1, <1>2
      <4>2. Before(es, j + 1) = After(es[j])
        BY <4>1, <1>1, BeforeIs
      <4> QED
        BY <3>1, <3>3, <4>1, <4>2, <1>1
    <3> QED
      BY <1>1, <3>2, <3>3
  <2> QED
    BY <2>1, <2>2
<1>5. ASSUME PutsOffset
      PROVE  /\ Before(es, i) <= es[i].offset /\ es[i].offset <= After(es[i]) /\ Before(es, i) \in Nat
             /\ After(es[i]) \in Nat /\ es[i].offset \in Nat
  <2>1. es[i] \in Entry /\ i \in 1 .. Len(es) + 1
    BY <1>1
  <2>2. es[i].offset >= Before(es, i)
    BY <1>5 DEF Valid, Apart
  <2> QED
    BY <2>1, <2>2, BeforeNat, EntryFields
<1>6. Aligned(t) /\ (PutsOffset => Apart(t))
  <2>0. ASSUME NEW j \in 1 .. Len(t) PROVE t[j].offset % 8 = 0
    <3>1. \A m \in 1 .. Len(es) : es[m].offset % 8 = 0
      BY DEF Valid, Aligned
    <3> QED
      BY <1>1, <1>2, <3>1
  <2> SUFFICES ASSUME PutsOffset, NEW j \in 1 .. Len(t)
               PROVE  t[j].offset >= Before(t, j)
    BY <2>0 DEF Apart, Aligned
  <2>1. \A m \in 1 .. Len(es) : es[m].offset >= Before(es, m)
    BY DEF Valid, Apart
  <2>2. CASE j < i
    BY <2>2, <2>1, <1>1, <1>2, <1>4
  <2>3. CASE j = i
    <3>1. t[j] = es[i + 1] /\ i + 1 \in 1 .. Len(es) /\ Before(t, j) = Before(es, i)
      BY <2>3, <1>1, <1>2, <1>4
    <3>2. Before(es, i + 1) = After(es[i])
      BY <1>1, BeforeIs
    <3>3. es[i + 1].offset \in Nat
      BY <3>1, <1>1, EntryFields
    <3> QED
      BY <2>1, <3>1, <3>2, <3>3, <1>5
  <2>4. CASE j > i
    <3>1. t[j] = es[j + 1] /\ j + 1 \in 1 .. Len(es) /\ Before(t, j) = Before(es, j + 1)
      BY <2>4, <1>1, <1>2, <1>4
    <3> QED
      BY <2>1, <3>1
  <2> QED
    BY <1>1, <1>2, <2>2, <2>3, <2>4
<1>7. ASSUME PutsOffset PROVE EndOf(t) <= EndOf(es)
  <2>1. EndOf(t) = Before(t, Len(t) + 1) /\ EndOf(es) = Before(es, Len(es) + 1)
    BY <1>1, <1>2, BeforeIs
  <2>2. Before(es, Len(es) + 1) \in Nat
    BY <1>1, BeforeNat
  <2>3. CASE i = Len(es)
    <3>1. Before(t, Len(t) + 1) = Before(es, i)
      BY <2>3, <1>1, <1>2, <1>4
    <3>2. Before(es, i + 1) = After(es[i])
      BY <1>1, BeforeIs
    <3> QED
      BY <1>7, <2>1, <2>3, <3>1, <3>2, <1>5
  <2>4. CASE i # Len(es)
    <3>1. Before(t, Len(t) + 1) = Before(es, Len(es) + 1)
      BY <2>4, <1>1, <1>2, <1>4
    <3> QED
      BY <2>1, <2>2, <3>1
  <2> QED
    BY <2>3, <2>4
<1> QED
  BY <1>2, <1>3, <1>6, <1>7 DEF Valid

\* The bytes and the count of wide numbers, with an entry more.
LEMMA EntersCounted ==
  ASSUME NEW es \in Seq(Entry), NEW t \in Seq(Entry), NEW i \in 1 .. Len(es) + 1, NEW e \in Entry,
         IsInserted(t, es, i, e), NEW c \in Nat, NEW p \in Ino
  PROVE  /\ Packed(c, t) = Packed(c, es) + EntSize(c, e.name)
         /\ Wides(t, p) = Wides(es, p) + Wide(e.ino)
<1>1. /\ Bytes(c, es) \in Seq(Nat) /\ Len(Bytes(c, es)) = Len(es)
      /\ Bits(es) \in Seq(Nat) /\ Len(Bits(es)) = Len(es)
      /\ \A j \in 1 .. Len(es) : Bytes(c, es)[j] = EntSize(c, es[j].name) /\ Bits(es)[j] = Wide(es[j].ino)
  BY BytesAndBits
<1>2. /\ Bytes(c, t) \in Seq(Nat) /\ Len(Bytes(c, t)) = Len(t)
      /\ Bits(t) \in Seq(Nat) /\ Len(Bits(t)) = Len(t)
      /\ \A j \in 1 .. Len(t) : Bytes(c, t)[j] = EntSize(c, t[j].name) /\ Bits(t)[j] = Wide(t[j].ino)
  BY BytesAndBits
<1>3. /\ Len(es) \in Nat /\ Len(t) = Len(es) + 1
      /\ \A j \in 1 .. Len(es) + 1 : t[j] = IF j < i THEN es[j] ELSE IF j = i THEN e ELSE es[j - 1]
  BY DEF IsInserted
<1>4. EntSize(c, e.name) \in Nat /\ Wide(e.ino) \in Nat
  BY EntryFields, EntSizeOf DEF Wide
<1>5. ASSUME NEW j \in 1 .. Len(es) + 1
      PROVE  /\ Bytes(c, t)[j] = IF j < i THEN Bytes(c, es)[j]
                                 ELSE IF j = i THEN EntSize(c, e.name) ELSE Bytes(c, es)[j - 1]
             /\ Bits(t)[j] = IF j < i THEN Bits(es)[j] ELSE IF j = i THEN Wide(e.ino) ELSE Bits(es)[j - 1]
  <2>1. CASE j < i
    <3>1. j \in 1 .. Len(es) /\ j \in 1 .. Len(t) /\ t[j] = es[j]
      BY <2>1, <1>3
    <3> QED
      BY <2>1, <3>1, <1>1, <1>2
  <2>2. CASE j = i
    <3>1. j \in 1 .. Len(t) /\ t[j] = e
      BY <2>2, <1>3
    <3> QED
      BY <2>2, <3>1, <1>2
  <2>3. CASE j > i
    <3>1. j - 1 \in 1 .. Len(es) /\ j \in 1 .. Len(t) /\ t[j] = es[j - 1] /\ ~ (j < i) /\ j # i
      BY <2>3, <1>3
    <3> QED
      BY <3>1, <1>1, <1>2
  <2> QED
    BY <1>3, <2>1, <2>2, <2>3
<1>6. IsInserted(Bytes(c, t), Bytes(c, es), i, EntSize(c, e.name)) /\ IsInserted(Bits(t), Bits(es), i, Wide(e.ino))
  BY <1>1, <1>2, <1>3, <1>5 DEF IsInserted
<1>7. Total(Bytes(c, t)) = Total(Bytes(c, es)) + EntSize(c, e.name)
  BY <1>1, <1>2, <1>3, <1>4, <1>6, TotalInsert
<1>8. Total(Bits(t)) = Total(Bits(es)) + Wide(e.ino)
  BY <1>1, <1>2, <1>3, <1>4, <1>6, TotalInsert
<1>9. /\ Packed(c, es) = HdrSize(c) + Total(Bytes(c, es)) /\ Packed(c, t) = HdrSize(c) + Total(Bytes(c, t))
      /\ Wides(es, p) = Total(Bits(es)) + Wide(p) /\ Wides(t, p) = Total(Bits(t)) + Wide(p)
      /\ HdrSize(c) \in Nat /\ Wide(p) \in {0, 1}
  BY PackedIs
<1>10. Total(Bytes(c, es)) \in Nat /\ Total(Bits(es)) \in Nat
  BY <1>1, TotalNat
<1> QED
  BY <1>4, <1>7, <1>8, <1>9, <1>10

\* With an entry less.
LEMMA LeavesCounted ==
  ASSUME NEW es \in Seq(Entry), NEW t \in Seq(Entry), NEW i \in 1 .. Len(es), Len(t) = Len(es) - 1,
         \A j \in 1 .. Len(t) : t[j] = IF j < i THEN es[j] ELSE es[j + 1],
         NEW c \in Nat, NEW p \in Ino
  PROVE  /\ Packed(c, es) = Packed(c, t) + EntSize(c, es[i].name)
         /\ Wides(es, p) = Wides(t, p) + Wide(es[i].ino)
<1>1. Len(es) \in Nat /\ es[i] \in Entry /\ i \in 1 .. Len(t) + 1 /\ Len(es) = Len(t) + 1
  OBVIOUS
<1>2. ASSUME NEW j \in 1 .. Len(t) + 1
      PROVE  es[j] = IF j < i THEN t[j] ELSE IF j = i THEN es[i] ELSE t[j - 1]
  <2>1. CASE j < i
    <3>1. j \in 1 .. Len(t)
      BY <1>1, <2>1
    <3> QED
      BY <2>1, <3>1
  <2>2. CASE j > i
    <3>1. j - 1 \in 1 .. Len(t) /\ ~ (j - 1 < i) /\ (j - 1) + 1 = j
      BY <1>1, <2>2
    <3>2. t[j - 1] = es[(j - 1) + 1]
      BY <3>1
    <3> QED
      BY <2>2, <3>1, <3>2
  <2> QED
    BY <1>1, <2>1, <2>2
<1>3. IsInserted(es, t, i, es[i])
  BY <1>1, <1>2 DEF IsInserted
<1> QED
  BY <1>1, <1>3, EntersCounted

\* A wide number is counted.
LEMMA WideIsCounted ==
  ASSUME NEW es \in Seq(Entry), NEW p \in Ino, NEW i \in 1 .. Len(es)
  PROVE  Wide(es[i].ino) + Wide(p) <= Wides(es, p)
<1>1. Bits(es) \in Seq(Nat) /\ Len(Bits(es)) = Len(es) /\ Bits(es)[i] = Wide(es[i].ino)
  BY BytesAndBits
<1> DEFINE t == RemoveAt(Bits(es), i)
<1>2. /\ t \in Seq(Nat) /\ Len(t) = Len(Bits(es)) - 1
      /\ \A j \in 1 .. Len(Bits(es)) - 1 : t[j] = IF j < i THEN Bits(es)[j] ELSE Bits(es)[j + 1]
  BY <1>1, Removed
<1> HIDE DEF t
<1>3. Total(Bits(es)) = Total(t) + Bits(es)[i]
  BY <1>1, <1>2, TotalRemove
<1>4. Total(t) \in Nat
  BY <1>2, TotalNat
<1>5. Wides(es, p) = Total(Bits(es)) + Wide(p) /\ Wide(p) \in {0, 1}
  BY PackedIs
<1>6. Wide(es[i].ino) \in {0, 1}
  BY DEF Wide
<1> QED
  BY <1>1, <1>3, <1>4, <1>5, <1>6

\* t is es with another inode number at place k.
IsChanged(t, es, k, ino) ==
  /\ Len(t) = Len(es)
  /\ \A j \in 1 .. Len(es) : IF j = k THEN /\ t[j].name = es[j].name /\ t[j].offset = es[j].offset
                                          /\ t[j].ino = ino
                            ELSE t[j] = es[j]

LEMMA Changes ==
  ASSUME NEW es, Valid(es), NEW k \in 1 .. Len(es), NEW ino \in Ino, NEW t \in Seq(Entry),
         IsChanged(t, es, k, ino)
  PROVE  /\ Valid(t) /\ EndOf(t) = EndOf(es)
         /\ \A c \in Nat : Packed(c, t) = Packed(c, es)
         /\ \A p \in Ino : Wides(t, p) + Wide(es[k].ino) = Wides(es, p) + Wide(ino)
<1>1. /\ es \in Seq(Entry) /\ Len(es) \in Nat /\ Len(t) = Len(es)
      /\ \A j \in 1 .. Len(es) : es[j] \in Entry /\ t[j] \in Entry
      /\ \A j \in 1 .. Len(es) : t[j].name = es[j].name /\ t[j].offset = es[j].offset
      /\ t[k].ino = ino
  BY DEF Valid, IsChanged
<1>2. \A j \in 1 .. Len(es) : After(t[j]) = After(es[j])
  BY <1>1 DEF After
<1>3. \A j \in 1 .. Len(es) + 1 : Before(t, j) = Before(es, j)
  <2> TAKE j \in 1 .. Len(es) + 1
  <2>1. CASE j = 1
    BY <2>1 DEF Before
  <2>2. CASE j # 1
    <3>1. j - 1 \in 1 .. Len(es)
      BY <2>2, <1>1
    <3> QED
      BY <2>2, <3>1, <1>2 DEF Before
  <2> QED
    BY <2>1, <2>2
<1>4. EndOf(t) = EndOf(es)
  BY <1>1, <1>3 DEF EndOf
<1>5. Distinct(t) /\ Aligned(t) /\ (PutsOffset => Apart(t))
  <2>1. Distinct(es) /\ Aligned(es) /\ (PutsOffset => Apart(es))
    BY DEF Valid
  <2>2. Distinct(t) /\ Aligned(t)
    BY <1>1, <2>1 DEF Distinct, Aligned
  <2>3. ASSUME Apart(es), NEW j \in 1 .. Len(t) PROVE t[j].offset >= Before(t, j)
    <3>1. j \in 1 .. Len(es) /\ j \in 1 .. Len(es) + 1
      BY <1>1
    <3> QED
      BY <3>1, <1>1, <1>3, <2>3 DEF Apart
  <2> QED
    BY <2>1, <2>2, <2>3 DEF Apart
<1> DEFINE u == RemoveAt(es, k)
<1>6. /\ u \in Seq(Entry) /\ Len(u) = Len(es) - 1
      /\ \A j \in 1 .. Len(es) - 1 : u[j] = IF j < k THEN es[j] ELSE es[j + 1]
  BY <1>1, Removed
<1> HIDE DEF u
<1>7. \A j \in 1 .. Len(u) : u[j] = IF j < k THEN t[j] ELSE t[j + 1]
  <2> TAKE j \in 1 .. Len(u)
  <2>1. CASE j < k
    BY <2>1, <1>1, <1>6 DEF IsChanged
  <2>2. CASE ~ (j < k)
    <3>1. j + 1 \in 1 .. Len(es) /\ j + 1 # k
      BY <2>2, <1>1, <1>6
    <3>2. t[j + 1] = es[j + 1]
      BY <3>1 DEF IsChanged
    <3> QED
      BY <2>2, <3>2, <1>6
  <2> QED
    BY <2>1, <2>2
<1>8. \A c \in Nat, p \in Ino :
        /\ Packed(c, es) = Packed(c, u) + EntSize(c, es[k].name)
        /\ Wides(es, p) = Wides(u, p) + Wide(es[k].ino)
        /\ Packed(c, t) = Packed(c, u) + EntSize(c, t[k].name)
        /\ Wides(t, p) = Wides(u, p) + Wide(t[k].ino)
  <2> TAKE c \in Nat, p \in Ino
  <2>1. \A j \in 1 .. Len(u) : u[j] = IF j < k THEN es[j] ELSE es[j + 1]
    BY <1>6
  <2>2. Packed(c, es) = Packed(c, u) + EntSize(c, es[k].name) /\ Wides(es, p) = Wides(u, p) + Wide(es[k].ino)
    <3>1. es \in Seq(Entry) /\ u \in Seq(Entry) /\ Len(u) = Len(es) - 1
      BY <1>1, <1>6
    <3> QED
      BY <2>1, <3>1, LeavesCounted, ZenonT(30)
  <2>3. k \in 1 .. Len(t) /\ Len(u) = Len(t) - 1
    BY <1>1, <1>6
  <2>4. Packed(c, t) = Packed(c, u) + EntSize(c, t[k].name) /\ Wides(t, p) = Wides(u, p) + Wide(t[k].ino)
    BY <1>6, <1>7, <2>3, LeavesCounted
  <2> QED
    BY <2>2, <2>4
<1>9. t[k].name = es[k].name /\ t[k].ino = ino
  BY <1>1
<1>10. \A c \in Nat : Packed(c, t) = Packed(c, es)
  BY <1>8, <1>9
<1>11. ASSUME NEW p \in Ino PROVE Wides(t, p) + Wide(es[k].ino) = Wides(es, p) + Wide(ino)
  <2>1. Wides(u, p) \in Nat /\ Wide(es[k].ino) \in {0, 1} /\ Wide(ino) \in {0, 1}
    BY <1>6, PackedIs DEF Wide
  <2>2. Wides(es, p) = Wides(u, p) + Wide(es[k].ino) /\ Wides(t, p) = Wides(u, p) + Wide(t[k].ino)
    BY <1>8
  <2> QED
    BY <1>9, <2>1, <2>2
<1> QED
  BY <1>4, <1>5, <1>10, <1>11 DEF Valid

(***************************************************************************)
(* Sound directories: what the operations keep.                            *)
(***************************************************************************)
ShortSound(d) ==
  /\ d.form = "short"
  /\ d.i8count = Wides(d.entries, d.parent)
  /\ d.size = Packed(d.i8count, d.entries)
  /\ d.size <= ForkSize
  /\ (Len(d.entries) + 2) * 8 + 8 <= BlockSize
  /\ PutsOffset => EndOf(d.entries) + (Len(d.entries) + 2) * 8 + 8 <= BlockSize
  /\ d.leafs = 0 /\ d.stale = 0

BlockSound(d) ==
  /\ d.form = "block"
  /\ d.leafs = Len(d.entries) + 2 + d.stale
  /\ LeafStart(d) >= 0
  /\ PutsOffset => EndOf(d.entries) <= LeafStart(d)

Sound(d) == /\ d \in Dir
            /\ Valid(d.entries)
            /\ ShortSound(d) \/ BlockSound(d)

LEMMA DirFields ==
  ASSUME NEW d \in Dir
  PROVE  /\ d.entries \in Seq(Entry) /\ Len(d.entries) \in Nat /\ DOMAIN d.entries = 1 .. Len(d.entries)
         /\ \A i \in 1 .. Len(d.entries) : d.entries[i] \in Entry
         /\ d.parent \in Ino /\ d.parent \in Nat
         /\ d.i8count \in Nat /\ d.size \in Nat /\ d.leafs \in Nat /\ d.stale \in Nat
         /\ d.form \in {"short", "block"}
<1>1. d.entries \in Seq(Entry) /\ d.parent \in Ino
  BY DEF Dir
<1>2. /\ d.i8count \in Nat /\ d.size \in Nat /\ d.leafs \in Nat /\ d.stale \in Nat
      /\ d.form \in {"short", "block"}
  BY DEF Dir
<1> QED
  BY <1>1, <1>2, SizesNat

\* A number is written and read as it is, but for a wide one in four bytes.
LEMMA PutInoIs ==
  ASSUME NEW c \in Nat, NEW ino \in Ino, c # 0 \/ ~ IsWide(ino)
  PROVE  PutIno(c, ino) = ino
<1>1. ino \in Nat /\ ShortMax \in Nat
  BY SizesNat
<1>2. CASE c # 0
  BY <1>2 DEF PutIno
<1>3. CASE c = 0
  <2>1. ino <= ShortMax
    BY <1>1, <1>3 DEF IsWide
  <2>2. ino % (ShortMax + 1) = ino
    BY <1>1, <2>1
  <2> QED
    BY <1>3, <2>2 DEF PutIno
<1> QED
  BY <1>2, <1>3

LEMMA SameEntry ==
  ASSUME NEW e \in Entry
  PROVE  [e EXCEPT !.ino = e.ino] = e /\ [e EXCEPT !.offset = e.offset] = e
BY DEF Entry

\* No number needs eight bytes.
AllNarrow(d) == ~ IsWide(d.parent) /\ \A i \in 1 .. Len(d.entries) : ~ IsWide(d.entries[i].ino)

Headed(d, c, size) == [d EXCEPT !.i8count = c, !.size = size]

\* Written again without a number that does not fit, the entries are the same.
LEMMA RewriteIs ==
  ASSUME NEW d \in Dir, NEW c \in Nat, NEW size,
         c # 0 \/ AllNarrow(d)
  PROVE  Rewrite(d, c, size) = Headed(d, c, size)
<1>1. /\ d.entries \in Seq(Entry) /\ DOMAIN d.entries = 1 .. Len(d.entries)
      /\ \A i \in 1 .. Len(d.entries) : d.entries[i] \in Entry
      /\ d.parent \in Ino
  BY DirFields
<1>2. PutIno(c, d.parent) = d.parent
  BY <1>1, PutInoIs DEF AllNarrow
<1>3. ASSUME NEW i \in DOMAIN d.entries
      PROVE  [d.entries[i] EXCEPT !.ino = PutIno(c, d.entries[i].ino)] = d.entries[i]
  <2>1. d.entries[i] \in Entry /\ d.entries[i].ino \in Ino
    BY <1>1, EntryFields
  <2>2. PutIno(c, d.entries[i].ino) = d.entries[i].ino
    BY <1>1, <2>1, PutInoIs DEF AllNarrow
  <2>3. [d.entries[i] EXCEPT !.ino = d.entries[i].ino] = d.entries[i]
    BY <2>1, SameEntry
  <2> QED
    BY <2>2, <2>3
<1>4. [i \in DOMAIN d.entries |-> [d.entries[i] EXCEPT !.ino = PutIno(c, d.entries[i].ino)]] = d.entries
  <2>1. [i \in DOMAIN d.entries |-> [d.entries[i] EXCEPT !.ino = PutIno(c, d.entries[i].ino)]]
        = [i \in DOMAIN d.entries |-> d.entries[i]]
    BY <1>3
  <2>2. [i \in DOMAIN d.entries |-> d.entries[i]] = d.entries
    BY <1>1
  <2> QED
    BY <2>1, <2>2
<1>5. Rewrite(d, c, size)
      = [d EXCEPT !.i8count = c, !.size = size, !.parent = PutIno(c, d.parent),
                  !.entries = [i \in DOMAIN d.entries |->
                                 [d.entries[i] EXCEPT !.ino = PutIno(c, d.entries[i].ino)]]]
  BY DEF Rewrite
<1>6. Rewrite(d, c, size) = [d EXCEPT !.i8count = c, !.size = size, !.parent = d.parent, !.entries = d.entries]
  BY <1>2, <1>4, <1>5
<1> QED
  BY <1>6 DEF Dir, Headed

LEMMA HoleIs ==
  ASSUME NEW es \in Seq(Entry), NEW n
  PROVE  /\ Hole(es, n) \in 1 .. Len(es) + 1
         /\ Hole(es, n) <= Len(es) => Before(es, Hole(es, n)) + DataSize(n) <= es[Hole(es, n)].offset
<1> DEFINE fits == {i \in DOMAIN es : Before(es, i) + DataSize(n) <= es[i].offset}
<1>1. Hole(es, n) = IF fits = {} THEN Len(es) + 1 ELSE Min(fits)
  BY DEF Hole
<1>2. Len(es) \in Nat /\ fits \subseteq 1 .. Len(es) /\ fits \in SUBSET Nat
  OBVIOUS
<1>3. \A i \in fits : Before(es, i) + DataSize(n) <= es[i].offset
  OBVIOUS
<1> HIDE DEF fits
<1>4. CASE fits = {}
  BY <1>1, <1>2, <1>4
<1>5. CASE fits # {}
  <2>1. \E m \in fits : \A k \in fits : m <= k
    BY <1>2, <1>5, Least
  <2>2. Min(fits) \in fits
    BY <2>1 DEF Min
  <2>3. Hole(es, n) \in fits
    BY <1>1, <1>5, <2>2
  <2>4. Hole(es, n) \in 1 .. Len(es)
    BY <1>2, <2>3
  <2>5. Before(es, Hole(es, n)) + DataSize(n) <= es[Hole(es, n)].offset
    BY <1>3, <2>3
  <2> QED
    BY <1>2, <2>4, <2>5
<1> QED
  BY <1>4, <1>5

Fresh(n, ino, at) == [name |-> n, offset |-> at, ino |-> ino]

\* What an entry put in at place i makes of d.
Grown(d, e, i, c, size) == [d EXCEPT !.entries = InsertAt(d.entries, i, e), !.i8count = c, !.size = size]

LEMMA InsertIs ==
  ASSUME NEW d \in Dir, NEW n, NEW ino \in Ino, NEW i, NEW objchange \in BOOLEAN, NEW size,
         d.i8count # 0 \/ ~ IsWide(ino)
  PROVE  Insert(d, n, ino, i, objchange, size)
         = Grown(d, Fresh(n, ino, PutOffset(Before(d.entries, i))), i,
                 IF IsWide(ino) /\ ~ objchange THEN d.i8count + 1 ELSE d.i8count, size)
<1>1. PutIno(d.i8count, ino) = ino
  BY DirFields, PutInoIs
<1> QED
  BY <1>1 DEF Insert, Grown, Fresh

\* A number widens the directory in all its entries, and nothing but that.
LEMMA ToIno8Is ==
  ASSUME NEW d \in Dir
  PROVE  ToIno8(d) = [d EXCEPT !.i8count = 1, !.size = d.size + (Len(d.entries) + 1) * 4]
<1> DEFINE one == 1
           size == d.size + (Len(d.entries) + 1) * 4
<1>1. ToIno8(d) = Rewrite(d, one, size)
  BY DEF ToIno8
<1>2. /\ one \in Nat
      /\ one # 0 \/ AllNarrow(d)
  OBVIOUS
<1> HIDE DEF one, size
<1>3. Rewrite(d, one, size) = Headed(d, one, size)
  BY <1>2, RewriteIs
<1> QED
  BY <1>1, <1>3 DEF one, size, Headed

\* With e in it at place i, the directory can still become a block.
RoomWith(es, i, e) ==
  /\ (Len(es) + 3) * 8 + 8 <= BlockSize
  /\ PutsOffset => (IF i = Len(es) + 1 THEN After(e) ELSE EndOf(es)) + (Len(es) + 3) * 8 + 8 <= BlockSize

\* Where a short directory takes a new name.
LEMMA ShortAddIs ==
  ASSUME NEW d, Sound(d), ShortSound(d), NEW n \in Name, n \notin Names(d), NEW ino \in Ino,
         ShortFits(d, n, ino)
  PROVE  \E i \in 1 .. Len(d.entries) + 1 :
           LET e == Fresh(n, ino, PutOffset(Before(d.entries, i))) IN
           /\ ShortAdd(d, n, ino) = Grown(d, e, i, d.i8count + Wide(ino), NewSize(d, n, ino))
           /\ FitsAt(e, d.entries, i)
           /\ RoomWith(d.entries, i, e)
<1> DEFINE es == d.entries
           h == Hole(es, n)
           used == EndOf(es) + (Len(es) + 3) * 8 + 8
           wide == Widens(d, ino)
           pick == Pick(d, n, wide)
<1>1. /\ d \in Dir /\ Valid(es) /\ es \in Seq(Entry) /\ Len(es) \in Nat /\ d.i8count \in Nat
      /\ \A j \in 1 .. Len(es) : es[j] \in Entry
  BY DirFields DEF Sound
<1>2. h \in 1 .. Len(es) + 1 /\ (h <= Len(es) => Before(es, h) + DataSize(n) <= es[h].offset)
  BY <1>1, HoleIs
<1>3. EndOf(es) = Before(es, Len(es) + 1) /\ EndOf(es) \in Nat
  BY <1>1, BeforeIs, BeforeNat
<1>4. DataSize(n) \in Nat /\ DataSize(n) % 8 = 0 /\ DataSize(n) >= 16
  BY SizeOf
<1>5. wide \in BOOLEAN /\ (wide <=> IsWide(ino) /\ d.i8count = 0)
  BY DEF Widens, IsWide
<1>6. pick # "none"
  BY DEF ShortFits
<1>7. /\ used + (IF h <= Len(es) THEN 0 ELSE DataSize(n)) <= BlockSize
      /\ pick = "easy" => ~ wide /\ used + DataSize(n) <= BlockSize
  <2>1. pick = IF used + (IF h <= Len(es) THEN 0 ELSE DataSize(n)) > BlockSize THEN "none"
               ELSE IF wide THEN "hard"
               ELSE IF used + DataSize(n) > BlockSize THEN "hard" ELSE "easy"
    BY Zenon DEF Pick
  <2>2. used \in Nat /\ BlockSize \in Nat
    BY <1>1, <1>3, SizesNat
  <2> HIDE DEF used, wide, pick, h
  <2> QED
    BY <1>4, <1>6, <2>1, <2>2
<1> DEFINE at(i) == Fresh(n, ino, PutOffset(Before(es, i)))
<1>8. ASSUME NEW i \in 1 .. Len(es) + 1, i <= Len(es) => Before(es, i) + DataSize(n) <= es[i].offset,
             PutsOffset => Before(es, i) <= BlockSize
      PROVE  FitsAt(at(i), es, i) /\ (PutsOffset => After(at(i)) = Before(es, i) + DataSize(n))
  <2>1. Before(es, i) \in Nat /\ Before(es, i) % 8 = 0
    BY <1>1, <1>8, BeforeNat
  <2> DEFINE o == PutOffset(Before(es, i))
  <2>2. o \in 0 .. BlockSize /\ o % 8 = 0 /\ (PutsOffset => o = Before(es, i))
    BY <1>8, <2>1, SizesNat DEF PutOffset
  <2>3. at(i) = Fresh(n, ino, o)
    OBVIOUS
  <2> HIDE DEF o, at
  <2>4. at(i) \in Entry /\ at(i).name = n /\ at(i).offset = o
    BY <2>2, <2>3 DEF Fresh, Entry
  <2>5. After(at(i)) = o + DataSize(n)
    BY <2>4 DEF After
  <2>6. \A j \in 1 .. Len(es) : es[j].name # n
    BY <1>1 DEF Names
  <2>7. PutsOffset => Between(at(i), es, i)
    BY <1>8, <2>1, <2>2, <2>4, <2>5 DEF Between
  <2> QED
    BY <2>2, <2>4, <2>5, <2>6, <2>7 DEF FitsAt
<1>9. ASSUME PutsOffset, NEW i \in 1 .. Len(es) PROVE Before(es, i) <= BlockSize
  <2>1. Before(es, i) <= es[i].offset
    BY <1>1, <1>9 DEF Valid, Apart
  <2>2. es[i].offset \in 0 .. BlockSize /\ i \in 1 .. Len(es) + 1
    BY <1>1, EntryFields
  <2>3. Before(es, i) \in Nat
    BY <1>1, <2>2, BeforeNat
  <2> QED
    BY <2>1, <2>2, <2>3, SizesNat
<1>10. EndOf(es) <= BlockSize /\ (Len(es) + 3) * 8 + 8 <= BlockSize
  <2>1. (IF h <= Len(es) THEN 0 ELSE DataSize(n)) \in Nat
    BY <1>4
  <2> DEFINE more == IF h <= Len(es) THEN 0 ELSE DataSize(n)
  <2>2. EndOf(es) + (Len(es) + 3) * 8 + 8 + more <= BlockSize /\ more \in Nat
    BY <1>7, <2>1
  <2>3. EndOf(es) \in Nat /\ (Len(es) + 3) * 8 \in Nat /\ BlockSize \in Nat
    BY <1>1, <1>3, SizesNat
  <2> DEFINE a == EndOf(es)
             k == (Len(es) + 3) * 8
  <2> HIDE DEF more, h, a, k
  <2>4. a + k + 8 + more <= BlockSize /\ a \in Nat /\ k \in Nat
    BY <2>2, <2>3 DEF a, k
  <2>5. a <= BlockSize /\ k + 8 <= BlockSize
    BY <2>2, <2>3, <2>4
  <2> QED
    BY <2>5 DEF a, k
<1>11. CASE pick = "easy"
  <2> DEFINE i == Len(es) + 1
             size == NewSize(d, n, ino)
             no == FALSE
  <2>1. i \in 1 .. Len(es) + 1 /\ ~ (i <= Len(es)) /\ Before(es, i) <= BlockSize
    BY <1>1, <1>3, <1>10
  <2>2. FitsAt(at(i), es, i) /\ (PutsOffset => After(at(i)) = EndOf(es) + DataSize(n))
    BY <1>3, <1>8, <2>1
  <2>3. ShortAdd(d, n, ino) = Insert(d, n, ino, i, no, size)
    BY <1>11, Zenon DEF ShortAdd
  <2>4. no \in BOOLEAN /\ (d.i8count # 0 \/ ~ IsWide(ino))
    BY <1>1, <1>5, <1>7, <1>11
  <2>5. d.i8count + Wide(ino) = IF IsWide(ino) /\ ~ no THEN d.i8count + 1 ELSE d.i8count
    BY <1>1 DEF Wide
  <2> HIDE DEF size, no, i
  <2>6. Insert(d, n, ino, i, no, size)
        = Grown(d, Fresh(n, ino, PutOffset(Before(d.entries, i))), i,
                IF IsWide(ino) /\ ~ no THEN d.i8count + 1 ELSE d.i8count, size)
    BY <1>1, <2>4, InsertIs
  <2>7. ShortAdd(d, n, ino) = Grown(d, at(i), i, d.i8count + Wide(ino), NewSize(d, n, ino))
    BY <2>3, <2>5, <2>6 DEF size
  <2>8. i = Len(es) + 1
    BY DEF i
  <2>9. RoomWith(es, i, at(i))
    BY <1>1, <1>3, <1>4, <1>7, <1>10, <1>11, <2>2, <2>8 DEF RoomWith
  <2> QED
    BY <2>1, <2>2, <2>7, <2>9
<1>12. CASE pick # "easy"
  <2> DEFINE i == h
             size == NewSize(d, n, ino)
             d8 == IF wide THEN ToIno8(d) ELSE d
  <2>1. PutsOffset => Before(es, i) <= BlockSize
    <3>1. CASE h <= Len(es)
      <4>1. h \in 1 .. Len(es)
        BY <1>1, <1>2, <3>1
      <4> QED
        BY <4>1, <1>9
    <3>2. CASE ~ (h <= Len(es))
      <4>1. h = Len(es) + 1
        BY <1>1, <1>2, <3>2
      <4> QED
        BY <4>1, <1>3, <1>10
    <3> QED
      BY <3>1, <3>2
  <2>2. FitsAt(at(i), es, i) /\ (PutsOffset => After(at(i)) = Before(es, i) + DataSize(n))
    BY <1>2, <1>8, <2>1
  <2>3. ShortAdd(d, n, ino) = Insert(d8, n, ino, i, wide, size)
    BY <1>12, Zenon DEF ShortAdd
  <2>4. d8 \in Dir /\ d8.entries = es /\ d8.i8count = (IF wide THEN 1 ELSE d.i8count)
        /\ (wide => d8 = [d EXCEPT !.i8count = 1, !.size = d.size + (Len(d.entries) + 1) * 4])
    <3>1. CASE wide
      <4>0. d8 = ToIno8(d) /\ d \in Dir
        BY <1>1, <3>1
      <4>1. d8 = [d EXCEPT !.i8count = 1, !.size = d.size + (Len(d.entries) + 1) * 4]
        BY <4>0, ToIno8Is, Zenon
      <4>2. d.size \in Nat
        BY <1>1, DirFields
      <4> DEFINE z == d.size + (Len(d.entries) + 1) * 4
      <4>3. z \in Nat
        BY <1>1, <4>2
      <4>4. d8 = [d EXCEPT !.i8count = 1, !.size = z]
        BY <4>1
      <4> HIDE DEF z, d8
      <4>5. d8 \in Dir /\ d8.entries = d.entries /\ d8.i8count = 1
        BY <1>1, <4>3, <4>4 DEF Dir
      <4> QED
        BY <3>1, <4>1, <4>5
    <3>2. CASE ~ wide
      BY <1>1, <3>2
    <3> QED
      BY <3>1, <3>2
  <2>5. d8.i8count # 0 \/ ~ IsWide(ino)
    BY <1>1, <1>5, <2>4
  <2> HIDE DEF size, d8, i
  <2>6. Insert(d8, n, ino, i, wide, size)
        = Grown(d8, Fresh(n, ino, PutOffset(Before(d8.entries, i))), i,
                IF IsWide(ino) /\ ~ wide THEN d8.i8count + 1 ELSE d8.i8count, size)
    BY <1>5, <2>4, <2>5, InsertIs
  <2>7. d.i8count + Wide(ino) = IF IsWide(ino) /\ ~ wide THEN d8.i8count + 1 ELSE d8.i8count
    BY <1>1, <1>5, <2>4 DEF Wide
  <2>8. Grown(d8, at(i), i, d.i8count + Wide(ino), size) = Grown(d, at(i), i, d.i8count + Wide(ino), size)
    <3>1. CASE wide
      BY <1>1, <2>4, <3>1 DEF Grown, Dir
    <3>2. CASE ~ wide
      BY <3>2 DEF d8
    <3> QED
      BY <3>1, <3>2
  <2>9. ShortAdd(d, n, ino) = Grown(d, at(i), i, d.i8count + Wide(ino), NewSize(d, n, ino))
    BY <2>3, <2>4, <2>6, <2>7, <2>8 DEF size
  <2>10. PutsOffset => (IF i = Len(es) + 1 THEN After(at(i)) ELSE EndOf(es)) + (Len(es) + 3) * 8 + 8 <= BlockSize
    <3>1. CASE i = Len(es) + 1
      <4>1. (PutsOffset => After(at(i)) = EndOf(es) + DataSize(n)) /\ ~ (h <= Len(es))
        BY <1>1, <1>3, <2>2, <3>1 DEF i
      <4> QED
        BY <1>1, <1>3, <1>4, <1>7, <3>1, <4>1
    <3>2. CASE i # Len(es) + 1
      <4>1. h <= Len(es)
        BY <1>1, <1>2, <3>2 DEF i
      <4> QED
        BY <1>1, <1>3, <1>7, <3>2, <4>1
    <3> QED
      BY <3>1, <3>2
  <2>11. i \in 1 .. Len(d.entries) + 1
    BY <1>2 DEF i
  <2>12. RoomWith(es, i, at(i))
    BY <1>10, <2>10 DEF RoomWith
  <2> QED
    BY <2>2, <2>9, <2>11, <2>12
<1> QED
  BY <1>11, <1>12

(***************************************************************************)
(* A name more.                                                            *)
(***************************************************************************)
\* What AddName does to the names: a fresh entry between two others.
Puts(d, d2, n, ino) ==
  \E i \in 1 .. Len(d.entries) + 1, e \in Entry :
    /\ e.name = n /\ e.ino = ino
    /\ FitsAt(e, d.entries, i)
    /\ d2.entries = InsertAt(d.entries, i, e)
    /\ d2.parent = d.parent

LEMMA GrownFields ==
  ASSUME NEW d \in Dir, NEW e, NEW i, NEW c \in Nat, NEW size \in Nat,
         InsertAt(d.entries, i, e) \in Seq(Entry)
  PROVE  LET g == Grown(d, e, i, c, size) IN
         /\ g \in Dir
         /\ g.entries = InsertAt(d.entries, i, e) /\ g.i8count = c /\ g.size = size
         /\ g.parent = d.parent /\ g.form = d.form /\ g.leafs = d.leafs /\ g.stale = d.stale
<1> DEFINE t == InsertAt(d.entries, i, e)
<1>1. Grown(d, e, i, c, size) = [d EXCEPT !.entries = t, !.i8count = c, !.size = size]
  BY DEF Grown
<1>2. t \in Seq(Entry)
  OBVIOUS
<1> HIDE DEF t
<1>3. /\ Grown(d, e, i, c, size) \in Dir
      /\ Grown(d, e, i, c, size).entries = t /\ Grown(d, e, i, c, size).i8count = c
      /\ Grown(d, e, i, c, size).size = size
      /\ Grown(d, e, i, c, size).parent = d.parent /\ Grown(d, e, i, c, size).form = d.form
      /\ Grown(d, e, i, c, size).leafs = d.leafs /\ Grown(d, e, i, c, size).stale = d.stale
  BY <1>1, <1>2 DEF Dir
<1> QED
  BY <1>3 DEF t

\* NewSize is what the entries take with the new one, in four bytes or eight.
LEMMA NewSizeIs ==
  ASSUME NEW d, Sound(d), ShortSound(d), NEW n \in Name, NEW ino \in Ino, NEW t \in Seq(Entry),
         Len(t) = Len(d.entries) + 1,
         \A c \in Nat : Packed(c, t) = Packed(c, d.entries) + EntSize(c, n)
  PROVE  Packed(d.i8count + Wide(ino), t) = NewSize(d, n, ino)
<1> DEFINE es == d.entries
           c == d.i8count + Wide(ino)
<1>1. /\ es \in Seq(Entry) /\ Len(es) \in Nat /\ d.i8count \in Nat /\ d.size \in Nat
      /\ d.size = Packed(d.i8count, es)
  BY DirFields DEF Sound, ShortSound
<1>2. Wide(ino) \in {0, 1} /\ c \in Nat
  BY <1>1 DEF Wide
<1>3. 0 \in Nat
  OBVIOUS
<1>4. Packed(0, t) = Packed(0, es) + EntSize(0, n) /\ EntSize(0, n) \in Nat /\ Packed(0, es) \in Nat
  BY <1>1, <1>3, PackedIs, EntSizeOf
<1>5. CASE Widens(d, ino)
  <2>1. d.i8count = 0 /\ c # 0 /\ NewSize(d, n, ino) = d.size + EntSize(d.i8count, n) + (Len(es) + 2) * 4
    BY <1>1, <1>5 DEF Widens, NewSize, Wide
  <2>2. Packed(c, t) = Packed(0, t) + (Len(t) + 1) * 4
    BY <1>2, <2>1, WidePacked
  <2> HIDE DEF c
  <2>3. d.size = Packed(0, es) /\ EntSize(d.i8count, n) = EntSize(0, n)
    BY <1>1, <2>1
  <2>4. Packed(c, t) = NewSize(d, n, ino)
    BY <1>1, <1>4, <2>1, <2>2, <2>3
  <2> QED
    BY <2>4 DEF c
<1>6. CASE ~ Widens(d, ino)
  <2>1. NewSize(d, n, ino) = d.size + EntSize(d.i8count, n)
    <3>1. NewSize(d, n, ino) = d.size + EntSize(d.i8count, n) + 0
      BY <1>6 DEF NewSize
    <3>2. EntSize(d.i8count, n) \in Nat
      BY <1>1, EntSizeOf
    <3> QED
      BY <1>1, <3>1, <3>2
  <2>2. Packed(d.i8count, t) = NewSize(d, n, ino)
    BY <1>1, <2>1
  <2>3. CASE d.i8count = 0
    <3>1. c = d.i8count
      BY <1>6, <2>3 DEF Widens, Wide
    <3> QED
      BY <2>2, <3>1
  <2>4. CASE d.i8count # 0
    <3>1. c # 0
      BY <1>1, <1>2, <2>4
    <3> HIDE DEF c
    <3>2. Packed(c, t) = Packed(0, t) + (Len(t) + 1) * 4
      BY <1>2, <3>1, WidePacked
    <3>3. Packed(d.i8count, t) = Packed(0, t) + (Len(t) + 1) * 4
      BY <1>1, <2>4, WidePacked
    <3>4. Packed(c, t) = NewSize(d, n, ino)
      BY <2>2, <3>2, <3>3
    <3> QED
      BY <3>4 DEF c
  <2> QED
    BY <2>3, <2>4
<1> QED
  BY <1>5, <1>6

LEMMA ShortAddSound ==
  ASSUME NEW d, Sound(d), ShortSound(d), NEW n \in Name, n \notin Names(d), NEW ino \in Ino,
         ShortFits(d, n, ino), NEW d2, d2 = ShortAdd(d, n, ino)
  PROVE  Sound(d2) /\ Puts(d, d2, n, ino)
<1> DEFINE es == d.entries
           c == d.i8count + Wide(ino)
           size == NewSize(d, n, ino)
           at(i) == Fresh(n, ino, PutOffset(Before(es, i)))
<1>1. /\ d \in Dir /\ Valid(es) /\ es \in Seq(Entry) /\ Len(es) \in Nat /\ d.i8count \in Nat
      /\ d.parent \in Ino
  BY DirFields DEF Sound
<1>2. PICK i \in 1 .. Len(es) + 1 :
           /\ d2 = Grown(d, at(i), i, c, size)
           /\ FitsAt(at(i), es, i)
           /\ RoomWith(es, i, at(i))
  BY ShortAddIs
<1> DEFINE e == at(i)
           t == InsertAt(es, i, e)
<1>3. e \in Entry /\ e.name = n /\ e.ino = ino /\ FitsAt(e, es, i)
  BY <1>2 DEF FitsAt, Fresh
<1> HIDE DEF e
<1>4. /\ Valid(t) /\ Len(t) = Len(es) + 1 /\ IsInserted(t, es, i, e)
      /\ EndOf(t) = IF i = Len(es) + 1 THEN After(e) ELSE EndOf(es)
  BY <1>1, <1>3, Enters
<1> HIDE DEF t
<1>5. t \in Seq(Entry)
  BY <1>4 DEF Valid
<1>6. \A k \in Nat : Packed(k, t) = Packed(k, es) + EntSize(k, n)
  BY <1>1, <1>3, <1>4, <1>5, EntersCounted
<1>7. Wides(t, d.parent) = Wides(es, d.parent) + Wide(ino)
  <2>1. 0 \in Nat
    OBVIOUS
  <2> QED
    BY <1>1, <1>3, <1>4, <1>5, <2>1, EntersCounted
<1>8. Packed(c, t) = size
  BY <1>4, <1>5, <1>6, NewSizeIs
<1>9. c \in Nat
  BY <1>1 DEF Wide
<1>10. size \in Nat
  <2> HIDE DEF c
  <2> QED
    BY <1>1, <1>5, <1>8, <1>9, PackedIs
<1>11. size <= ForkSize
  BY DEF ShortFits
<1>12. c = Wides(t, d.parent)
  BY <1>1, <1>7 DEF ShortSound
<1>13. d2 = Grown(d, e, i, c, size)
  BY <1>2 DEF e
<1>14. /\ (Len(t) + 2) * 8 + 8 <= BlockSize
       /\ PutsOffset => EndOf(t) + (Len(t) + 2) * 8 + 8 <= BlockSize
  <2>1. /\ (Len(es) + 3) * 8 + 8 <= BlockSize
        /\ PutsOffset => EndOf(t) + (Len(es) + 3) * 8 + 8 <= BlockSize
    BY <1>2, <1>4 DEF e, RoomWith
  <2>2. Len(es) + 3 = Len(t) + 2
    BY <1>1, <1>4
  <2> QED
    BY <2>1, <2>2
<1> HIDE DEF c, size
<1>15. /\ d2 \in Dir /\ d2.entries = t /\ d2.i8count = c /\ d2.size = size
       /\ d2.parent = d.parent /\ d2.form = d.form /\ d2.leafs = d.leafs /\ d2.stale = d.stale
  BY <1>1, <1>5, <1>9, <1>10, <1>13, GrownFields DEF t
<1>16. ShortSound(d2)
  BY <1>8, <1>11, <1>12, <1>14, <1>15 DEF ShortSound
<1>17. Sound(d2)
  BY <1>4, <1>15, <1>16 DEF Sound
<1>18. Puts(d, d2, n, ino)
  BY <1>3, <1>15 DEF Puts, t
<1> QED
  BY <1>17, <1>18

LEMMA EndsAll ==
  ASSUME PutsOffset, NEW es, Valid(es), NEW i \in 1 .. Len(es)
  PROVE  After(es[i]) <= EndOf(es)
<1>1. es \in Seq(Entry) /\ Len(es) \in Nat /\ \A j \in 1 .. Len(es) : es[j] \in Entry
  BY DEF Valid
<1>2. Len(es) \in 1 .. Len(es) /\ EndOf(es) = After(es[Len(es)])
  BY <1>1, BeforeIs
<1>3. /\ After(es[i]) \in Nat /\ After(es[Len(es)]) \in Nat /\ es[Len(es)].offset \in Nat
      /\ After(es[Len(es)]) >= es[Len(es)].offset + 16
  BY <1>1, <1>2, EntryFields
<1>4. CASE i = Len(es)
  BY <1>2, <1>3, <1>4
<1>5. CASE i # Len(es)
  <2>1. i < Len(es)
    BY <1>1, <1>5
  <2>2. After(es[i]) <= es[Len(es)].offset
    BY <1>2, <2>1, Ascend
  <2> QED
    BY <1>2, <1>3, <2>2
<1> QED
  BY <1>4, <1>5

LEMMA EightLess ==
  ASSUME NEW b \in Nat, b % 8 = 0, NEW k \in Nat, b - 8 - 8 * k \in Nat
  PROVE  (b - 8 - 8 * k) % 8 = 0
OBVIOUS

LEMMA LeafStartIs ==
  ASSUME NEW d, Sound(d), BlockSound(d)
  PROVE  /\ LeafStart(d) \in Nat /\ LeafStart(d) % 8 = 0 /\ LeafStart(d) = BlockSize - 8 - 8 * d.leafs
         /\ EndOf(d.entries) \in Nat /\ EndOf(d.entries) % 8 = 0
         /\ PutsOffset => EndOf(d.entries) <= LeafStart(d)
<1>1. d \in Dir /\ Valid(d.entries) /\ Len(d.entries) \in Nat /\ d.entries \in Seq(Entry) /\ d.leafs \in Nat
  BY DirFields DEF Sound
<1>2. EndOf(d.entries) \in Nat /\ EndOf(d.entries) % 8 = 0
  <2>1. EndOf(d.entries) = Before(d.entries, Len(d.entries) + 1) /\ Len(d.entries) + 1 \in 1 .. Len(d.entries) + 1
    BY <1>1, BeforeIs
  <2> QED
    BY <1>1, <2>1, BeforeNat
<1>3. /\ LeafStart(d) = BlockSize - 8 - 8 * d.leafs /\ LeafStart(d) >= 0
      /\ PutsOffset => EndOf(d.entries) <= LeafStart(d)
  BY DEF LeafStart, BlockSound
<1>4. BlockSize \in Nat /\ BlockSize % 8 = 0
  BY SizesNat
<1>5. BlockSize - 8 - 8 * d.leafs \in Nat
  BY <1>1, <1>2, <1>3, <1>4
<1> QED
  BY <1>1, <1>2, <1>3, <1>4, <1>5, EightLess

LEMMA RoomBehind ==
  ASSUME NEW a \in Nat, NEW k \in Nat, NEW b \in Nat, a + (k + 2) * 8 + 8 <= b
  PROVE  b - 8 - 8 * (k + 2) >= 0 /\ a <= b - 8 - 8 * (k + 2)
OBVIOUS

LEMMA RoomMade ==
  ASSUME NEW b \in Nat, NEW k \in Nat, NEW m \in Nat, NEW a \in Nat, NEW s \in Nat, m # 0,
         ~ ((b - 8 - 8 * k) + (m - 1) * 8 - a < s)
  PROVE  a + s <= b - 8 - 8 * (k - (m - 1))
OBVIOUS

\* Every entry becomes one of the block, where it was to be.
LEMMA ToBlockSound ==
  ASSUME NEW d, Sound(d), ShortSound(d)
  PROVE  LET b == ToBlock(d) IN
         Sound(b) /\ BlockSound(b) /\ b.entries = d.entries /\ b.parent = d.parent /\ b.stale = 0
<1> DEFINE b == ToBlock(d)
           leafs == Len(d.entries) + 2
<1>1. d \in Dir /\ Valid(d.entries) /\ Len(d.entries) \in Nat /\ leafs \in Nat /\ BlockSize \in Nat
  BY DirFields, SizesNat DEF Sound
<1>2. b = [d EXCEPT !.form = "block", !.i8count = 0, !.size = BlockSize, !.leafs = leafs, !.stale = 0]
  BY DEF ToBlock
<1> HIDE DEF b, leafs
<1>3. /\ b \in Dir /\ b.entries = d.entries /\ b.parent = d.parent /\ b.stale = 0 /\ b.leafs = leafs
      /\ b.form = "block"
  BY <1>1, <1>2 DEF Dir
<1>4. /\ (Len(d.entries) + 2) * 8 + 8 <= BlockSize
      /\ PutsOffset => EndOf(d.entries) + (Len(d.entries) + 2) * 8 + 8 <= BlockSize
  BY DEF ShortSound
<1>5. EndOf(d.entries) \in Nat
  <2>1. EndOf(d.entries) = Before(d.entries, Len(d.entries) + 1) /\ Len(d.entries) + 1 \in 1 .. Len(d.entries) + 1
    BY <1>1, BeforeIs DEF Valid
  <2> QED
    BY <1>1, <2>1, BeforeNat
<1>6. LeafStart(b) >= 0 /\ (PutsOffset => EndOf(b.entries) <= LeafStart(b))
  <2>1. b.leafs = Len(d.entries) + 2 /\ LeafStart(b) = BlockSize - 8 - 8 * b.leafs
    BY <1>3 DEF LeafStart, leafs
  <2>2. PutsOffset => EndOf(d.entries) <= BlockSize - 8 - 8 * (Len(d.entries) + 2)
    BY <1>1, <1>4, <1>5, RoomBehind
  <2>3. 0 \in Nat /\ 0 + (Len(d.entries) + 2) * 8 + 8 <= BlockSize
    BY <1>1, <1>4
  <2>4. BlockSize - 8 - 8 * (Len(d.entries) + 2) >= 0
    BY <1>1, <2>3, RoomBehind
  <2> QED
    BY <1>3, <2>1, <2>2, <2>4
<1>7. b.leafs = Len(b.entries) + 2 + b.stale
  BY <1>1, <1>3 DEF leafs
<1> QED
  BY <1>1, <1>3, <1>6, <1>7 DEF Sound, BlockSound, b

\* The unused parts lie before an entry or at the end, which reaches to the
\* leaf entries; another does not, if the offsets are stored.
LEMMA FreeIs ==
  ASSUME NEW d, Sound(d), BlockSound(d), NEW f \in Free(d)
  PROVE  /\ f.i \in 1 .. Len(d.entries) + 1 /\ f.at = Before(d.entries, f.i)
         /\ f.at \in Nat /\ f.at % 8 = 0 /\ f.size \in Nat /\ f.size > 0
         /\ f.at + f.size <= BlockSize
         /\ f.i <= Len(d.entries) => f.at + f.size = d.entries[f.i].offset
         /\ f.i = Len(d.entries) + 1 => f.at = EndOf(d.entries) /\ f.at + f.size = LeafStart(d)
         /\ PutsOffset => (f.at + f.size = LeafStart(d) <=> f.i = Len(d.entries) + 1)
<1> DEFINE es == d.entries
           end(i) == IF i > Len(es) THEN LeafStart(d) ELSE es[i].offset
<1>1. /\ d \in Dir /\ Valid(es) /\ Len(es) \in Nat /\ es \in Seq(Entry) /\ \A j \in 1 .. Len(es) : es[j] \in Entry
      /\ d.leafs \in Nat /\ BlockSize \in Nat
  BY DirFields, SizesNat DEF Sound
<1>2. PICK i \in 1 .. Len(es) + 1 :
           Before(es, i) < end(i) /\ f = [i |-> i, at |-> Before(es, i), size |-> end(i) - Before(es, i)]
  BY DEF Free
<1>3. f.i = i /\ f.at = Before(es, i) /\ f.size = end(i) - Before(es, i)
  BY <1>2
<1>4. Before(es, i) \in Nat /\ Before(es, i) % 8 = 0
  BY <1>1, BeforeNat
<1>5. /\ LeafStart(d) \in Nat /\ EndOf(es) = Before(es, Len(es) + 1) /\ EndOf(es) \in Nat
      /\ PutsOffset => EndOf(es) <= LeafStart(d)
      /\ LeafStart(d) <= BlockSize
  <2>1. LeafStart(d) \in Nat /\ LeafStart(d) = BlockSize - 8 - 8 * d.leafs
        /\ EndOf(es) \in Nat /\ (PutsOffset => EndOf(es) <= LeafStart(d))
    BY LeafStartIs
  <2> QED
    BY <1>1, <2>1, BeforeIs
<1>6. CASE i <= Len(es)
  <2>1. i \in 1 .. Len(es) /\ end(i) = es[i].offset
    BY <1>1, <1>6
  <2>2. /\ es[i].offset \in Nat /\ After(es[i]) \in Nat /\ After(es[i]) >= es[i].offset + 16
        /\ es[i].offset <= BlockSize
    BY <1>1, <2>1, EntryFields
  <2>3. PutsOffset => After(es[i]) <= EndOf(es)
    BY <1>1, <2>1, EndsAll
  <2> HIDE DEF end
  <2>4. f.size \in Nat /\ f.size > 0 /\ f.at + f.size = es[i].offset
    <3>1. Before(es, i) < es[i].offset /\ f.size = es[i].offset - Before(es, i) /\ f.at = Before(es, i)
      BY <1>2, <1>3, <2>1, Zenon
    <3> QED
      BY <1>4, <2>2, <3>1
  <2>5. PutsOffset => es[i].offset # LeafStart(d)
    BY <1>5, <2>2, <2>3
  <2> QED
    BY <1>1, <1>2, <1>3, <1>4, <1>6, <2>2, <2>4, <2>5
<1>7. CASE i = Len(es) + 1
  <2>1. end(i) = LeafStart(d)
    BY <1>1, <1>7
  <2> HIDE DEF end
  <2>2. f.size \in Nat /\ f.size > 0 /\ f.at + f.size = LeafStart(d)
    BY <1>2, <1>3, <1>4, <1>5, <2>1
  <2> QED
    BY <1>1, <1>3, <1>4, <1>5, <1>7, <2>2
<1> QED
  BY <1>1, <1>6, <1>7

\* A place for a name of that length that leaves the leaf entries theirs and,
\* if the offsets are stored, the other names too.
ClearSpot(d, n, spot) ==
  /\ spot.at >= Before(d.entries, spot.i)
  /\ spot.i <= Len(d.entries) => spot.at + DataSize(n) <= d.entries[spot.i].offset
  /\ (IF spot.i = Len(d.entries) + 1 THEN spot.at + DataSize(n) ELSE EndOf(d.entries))
       <= BlockSize - 8 - 8 * spot.leafs

GoodSpot(d, n, spot) ==
  /\ spot.i \in 1 .. Len(d.entries) + 1 /\ spot.at \in 0 .. BlockSize /\ spot.at % 8 = 0
  /\ spot.stale \in Nat /\ spot.leafs \in Nat /\ spot.leafs = Len(d.entries) + 3 + spot.stale
  /\ BlockSize - 8 - 8 * spot.leafs >= 0
  /\ PutsOffset => ClearSpot(d, n, spot)

LEMMA SpotIsGood ==
  ASSUME NEW d, Sound(d), BlockSound(d), NEW n \in Name, NEW spot \in Spots(d, n)
  PROVE  GoodSpot(d, n, spot)
<1> DEFINE es == d.entries
           start0 == LeafStart(d)
           size == DataSize(n)
           last == {f \in Free(d) : f.at + f.size = LeafStart(d)}
           tight == \E f \in Biggest(Free(d)) \cap last : f.size < size + 8
           enough(S) == {f \in Biggest(S) : f.size >= size}
           start == IF last = {} THEN LeafStart(d) ELSE EndOf(d.entries)
           spotOf(S, leafs, stale) == {[i |-> f.i, at |-> f.at, leafs |-> leafs, stale |-> stale] : f \in S}
<1>1. /\ Len(es) \in Nat /\ d.leafs \in Nat /\ d.stale \in Nat /\ d.leafs = Len(es) + 2 + d.stale
      /\ BlockSize \in Nat
  BY DirFields, SizesNat DEF Sound, BlockSound
<1>2. /\ start0 \in Nat /\ start0 % 8 = 0 /\ start0 = BlockSize - 8 - 8 * d.leafs
      /\ EndOf(es) \in Nat /\ EndOf(es) % 8 = 0 /\ (PutsOffset => EndOf(es) <= start0)
  BY LeafStartIs
<1>3. size \in Nat
  BY SizeOf
<1>4. ASSUME NEW f \in Free(d)
      PROVE  /\ f.i \in 1 .. Len(es) + 1 /\ f.at = Before(es, f.i)
             /\ f.at \in Nat /\ f.at % 8 = 0 /\ f.size \in Nat /\ f.size > 0
             /\ f.at + f.size <= BlockSize /\ f.at \in 0 .. BlockSize
             /\ f.i <= Len(es) => f.at + f.size = es[f.i].offset
             /\ f.i = Len(es) + 1 => f.at = EndOf(es) /\ f.at + f.size = start0
             /\ f \in last <=> f.at + f.size = start0
             /\ PutsOffset => (f \in last <=> f.i = Len(es) + 1)
  <2>1. /\ f.i \in 1 .. Len(es) + 1 /\ f.at = Before(es, f.i)
        /\ f.at \in Nat /\ f.at % 8 = 0 /\ f.size \in Nat /\ f.size > 0
        /\ f.at + f.size <= BlockSize
        /\ f.i <= Len(es) => f.at + f.size = es[f.i].offset
        /\ f.i = Len(es) + 1 => f.at = EndOf(es) /\ f.at + f.size = start0
        /\ PutsOffset => (f.at + f.size = start0 <=> f.i = Len(es) + 1)
    BY FreeIs
  <2> QED
    BY <1>1, <2>1
<1>6. spot \in IF d.stale = 0
               THEN IF last = {} THEN {}
                    ELSE spotOf({f \in enough(Free(d)) : f \in last => ~ tight}
                                 \cup (IF tight THEN enough(Free(d) \ last) ELSE {}), d.leafs + 1, 0)
               ELSE IF enough(Free(d)) # {} THEN spotOf(enough(Free(d)), d.leafs, d.stale - 1)
               ELSE IF LeafStart(d) + (d.stale - 1) * 8 - start < size THEN {}
               ELSE {[i |-> Len(d.entries) + 1, at |-> start, leafs |-> d.leafs - (d.stale - 1), stale |-> 0]}
  BY Zenon DEF Spots
<1>7. \A S : enough(S) \subseteq S /\ enough(S) \subseteq Biggest(S) /\ \A f \in enough(S) : f.size >= size
  BY DEF Biggest
<1>8. \A S, leafs, stale : \A x \in spotOf(S, leafs, stale) :
        \E f \in S : x = [i |-> f.i, at |-> f.at, leafs |-> leafs, stale |-> stale]
  OBVIOUS
<1>9. (\E f \in Biggest(Free(d)) \cap last : f.size < size + 8) <=> tight
  OBVIOUS
<1>10. last \subseteq Free(d)
  OBVIOUS
<1> HIDE DEF enough, spotOf, last, tight, start0, size
\* Next to the leaf entries there is room for one more.
<1>11. ASSUME last # {}
       PROVE  start0 - 8 \in Nat /\ (PutsOffset => EndOf(es) <= start0 - 8)
  <2>1. PICK g \in Free(d) : g \in last
    BY <1>10, <1>11
  <2>2. g.at \in Nat /\ g.at % 8 = 0 /\ g.size > 0 /\ g.size \in Nat /\ g.at + g.size = start0
        /\ (PutsOffset => g.at = EndOf(es))
    BY <1>4, <2>1
  <2>3. g.at < start0
    BY <1>2, <2>2
  <2>4. g.at + 8 <= start0
    BY <1>2, <2>2, <2>3, EightApart
  <2> QED
    BY <1>2, <2>2, <2>4
<1>12. CASE d.stale = 0
  <2>1. spot \in spotOf({f \in enough(Free(d)) : f \in last => ~ tight}
                       \cup (IF tight THEN enough(Free(d) \ last) ELSE {}), d.leafs + 1, 0)
        /\ last # {}
    BY <1>6, <1>12
  <2> DEFINE S == {f \in enough(Free(d)) : f \in last => ~ tight}
                  \cup (IF tight THEN enough(Free(d) \ last) ELSE {})
             more == d.leafs + 1
             none == 0
  <2>2. PICK f \in S : spot = [i |-> f.i, at |-> f.at, leafs |-> d.leafs + 1, stale |-> 0]
    <3>1. spot \in spotOf(S, more, none)
      BY <2>1
    <3> HIDE DEF S, more, none
    <3>2. \E f \in S : spot = [i |-> f.i, at |-> f.at, leafs |-> more, stale |-> none]
      BY <3>1, <1>8
    <3> QED
      BY <3>2 DEF more, none
  <2>3. /\ f \in Free(d) /\ f.size >= size /\ (f \in last => ~ tight /\ f \in Biggest(Free(d)))
    BY <1>7, <2>2
  <2>4. f \in last => f.size >= size + 8
    <3>1. f.size \in Nat
      BY <1>4, <2>3
    <3> QED
      BY <1>3, <1>9, <2>3, <3>1
  <2>5. start0 - 8 \in Nat /\ (PutsOffset => EndOf(es) <= start0 - 8)
    BY <1>11, <2>1
  <2>6. /\ spot.i = f.i /\ spot.at = f.at /\ spot.leafs = d.leafs + 1 /\ spot.stale = 0
    BY <2>2
  <2>7. /\ f.i \in 1 .. Len(es) + 1 /\ f.at = Before(es, f.i)
        /\ f.at \in 0 .. BlockSize /\ f.at \in Nat /\ f.at % 8 = 0 /\ f.size \in Nat
        /\ f.i <= Len(es) => f.at + f.size = es[f.i].offset
        /\ f.i = Len(es) + 1 => f.at + f.size = start0 /\ f \in last
    BY <1>4, <2>3
  <2>8. BlockSize - 8 - 8 * spot.leafs = start0 - 8
    BY <1>1, <1>2, <2>6
  <2>9. f.i <= Len(es) => f.at + size <= es[f.i].offset
    BY <1>3, <2>3, <2>7
  <2>10. f.i = Len(es) + 1 => f.at + size <= start0 - 8
    BY <1>2, <1>3, <2>4, <2>7
  <2>11. spot.leafs = Len(es) + 3 + spot.stale /\ spot.leafs \in Nat /\ spot.stale \in Nat
    BY <1>1, <1>12, <2>6
  <2>12. BlockSize - 8 - 8 * spot.leafs >= 0
    BY <2>5, <2>8
  <2>13. ASSUME PutsOffset PROVE ClearSpot(d, n, spot)
    <3>1. spot.at >= Before(es, spot.i)
      BY <2>6, <2>7
    <3> QED
      BY <2>5, <2>6, <2>7, <2>8, <2>9, <2>10, <2>13, <3>1 DEF ClearSpot, size
  <2> QED
    BY <2>6, <2>7, <2>11, <2>12, <2>13 DEF GoodSpot
<1>13. CASE d.stale # 0 /\ enough(Free(d)) # {}
  <2>1. PICK f \in enough(Free(d)) : spot = [i |-> f.i, at |-> f.at, leafs |-> d.leafs, stale |-> d.stale - 1]
    BY <1>6, <1>8, <1>13
  <2>2. f \in Free(d) /\ f.size >= size
    BY <1>7, <2>1
  <2>3. spot.i = f.i /\ spot.at = f.at /\ spot.leafs = d.leafs /\ spot.stale = d.stale - 1
    BY <2>1
  <2>4. /\ f.i \in 1 .. Len(es) + 1 /\ f.at = Before(es, f.i)
        /\ f.at \in 0 .. BlockSize /\ f.at \in Nat /\ f.at % 8 = 0 /\ f.size \in Nat
        /\ f.i <= Len(es) => f.at + f.size = es[f.i].offset
        /\ f.i = Len(es) + 1 => f.at + f.size = start0
    BY <1>4, <2>2
  <2>5. BlockSize - 8 - 8 * spot.leafs = start0
    BY <1>1, <1>2, <2>3
  <2>6. f.i <= Len(es) => f.at + size <= es[f.i].offset
    BY <1>3, <2>2, <2>4
  <2>7. f.i = Len(es) + 1 => f.at + size <= start0
    BY <1>2, <1>3, <2>2, <2>4
  <2>8. spot.leafs = Len(es) + 3 + spot.stale /\ spot.leafs \in Nat /\ spot.stale \in Nat
    BY <1>1, <1>13, <2>3
  <2>9. ASSUME PutsOffset PROVE ClearSpot(d, n, spot)
    <3>1. spot.at >= Before(es, spot.i)
      BY <2>3, <2>4
    <3> QED
      BY <1>2, <2>3, <2>4, <2>5, <2>6, <2>7, <2>9, <3>1 DEF ClearSpot, size
  <2>10. BlockSize - 8 - 8 * spot.leafs >= 0
    BY <1>2, <2>5
  <2> QED
    BY <2>3, <2>4, <2>8, <2>9, <2>10 DEF GoodSpot
<1>14. CASE d.stale # 0 /\ enough(Free(d)) = {}
  <2>1. /\ spot = [i |-> Len(es) + 1, at |-> start, leafs |-> d.leafs - (d.stale - 1), stale |-> 0]
        /\ ~ (start0 + (d.stale - 1) * 8 - start < size)
    BY <1>6, <1>14 DEF start0
  <2>2. start \in Nat /\ start % 8 = 0 /\ (PutsOffset => start >= EndOf(es))
    BY <1>2 DEF start0
  <2> HIDE DEF start
  <2>3. /\ spot.i = Len(es) + 1 /\ spot.at = start /\ spot.leafs = d.leafs - (d.stale - 1) /\ spot.stale = 0
    BY <2>1
  <2>4. ~ ((BlockSize - 8 - 8 * d.leafs) + (d.stale - 1) * 8 - start < size)
    BY <1>2, <2>1
  <2>5. start + size <= BlockSize - 8 - 8 * (d.leafs - (d.stale - 1))
    BY <1>1, <1>3, <1>14, <2>2, <2>4, RoomMade
  <2>6. spot.leafs = Len(es) + 3 + spot.stale /\ spot.leafs \in Nat /\ spot.stale \in Nat
    BY <1>1, <1>14, <2>3
  <2>7. Before(es, Len(es) + 1) = EndOf(es)
    BY DEF EndOf
  <2>8. ~ (spot.i <= Len(es)) /\ spot.i \in 1 .. Len(es) + 1
    BY <1>1, <2>3
  <2>9. start + size <= BlockSize - 8 - 8 * spot.leafs
    BY <2>3, <2>5
  <2>10. BlockSize - 8 - 8 * spot.leafs >= 0 /\ start \in 0 .. BlockSize
    <3>1. ASSUME NEW a \in Nat, NEW b \in Nat, NEW c \in Nat, NEW k \in Nat, a + c <= b - 8 - 8 * k
          PROVE  b - 8 - 8 * k >= 0 /\ a \in 0 .. b
      BY <3>1
    <3> QED
      BY <1>1, <1>3, <2>2, <2>6, <2>9, <3>1
  <2>11. ASSUME PutsOffset PROVE ClearSpot(d, n, spot)
    BY <2>2, <2>3, <2>7, <2>8, <2>9, <2>11 DEF ClearSpot, size
  <2> QED
    BY <2>2, <2>3, <2>6, <2>8, <2>10, <2>11 DEF GoodSpot
<1> QED
  BY <1>12, <1>13, <1>14

LEMMA BlockAddSound ==
  ASSUME NEW d, Sound(d), BlockSound(d), NEW n \in Name, n \notin Names(d), NEW ino \in Ino,
         NEW spot \in Spots(d, n), NEW d2, d2 = BlockAdd(d, n, ino, spot)
  PROVE  Sound(d2) /\ Puts(d, d2, n, ino)
<1> DEFINE es == d.entries
           i == spot.i
           e == [name |-> n, offset |-> spot.at, ino |-> ino]
           t == InsertAt(es, i, e)
<1>1. /\ d \in Dir /\ Valid(es) /\ es \in Seq(Entry) /\ Len(es) \in Nat /\ DOMAIN es = 1 .. Len(es)
      /\ \A j \in 1 .. Len(es) : es[j] \in Entry
      /\ EndOf(es) \in Nat /\ DataSize(n) \in Nat /\ BlockSize \in Nat
  BY DirFields, LeafStartIs, SizeOf, SizesNat DEF Sound
<1>2. GoodSpot(d, n, spot)
  BY SpotIsGood
<1>3. d2 = [d EXCEPT !.entries = t, !.leafs = spot.leafs, !.stale = spot.stale]
  BY DEF BlockAdd
<1>5. e \in Entry /\ e.name = n /\ e.ino = ino /\ e.offset = spot.at /\ After(e) = spot.at + DataSize(n)
  <2>1. spot.at \in 0 .. BlockSize
    BY <1>2 DEF GoodSpot
  <2> QED
    BY <2>1 DEF Entry, After
<1>6. \A j \in 1 .. Len(es) : es[j].name # n
  BY <1>1 DEF Names
<1> HIDE DEF e
<1>7. i \in 1 .. Len(es) + 1 /\ FitsAt(e, es, i)
  <2>1. PutsOffset => Between(e, es, i)
    BY <1>2, <1>5 DEF GoodSpot, ClearSpot, Between
  <2> QED
    BY <1>2, <1>5, <1>6, <2>1 DEF FitsAt, GoodSpot
<1>8. /\ Valid(t) /\ t \in Seq(Entry) /\ Len(t) = Len(es) + 1
      /\ EndOf(t) = IF i = Len(es) + 1 THEN After(e) ELSE EndOf(es)
  <2>1. /\ Valid(t) /\ Len(t) = Len(es) + 1
        /\ EndOf(t) = IF i = Len(es) + 1 THEN After(e) ELSE EndOf(es)
    BY <1>1, <1>7, Enters
  <2> QED
    BY <2>1 DEF Valid
<1>9. spot.leafs \in Nat /\ spot.stale \in Nat /\ spot.leafs = Len(t) + 2 + spot.stale
  BY <1>1, <1>2, <1>8 DEF GoodSpot
<1>10. /\ BlockSize - 8 - 8 * spot.leafs >= 0
       /\ PutsOffset => EndOf(t) <= BlockSize - 8 - 8 * spot.leafs
  BY <1>2, <1>5, <1>8 DEF GoodSpot, ClearSpot
<1> HIDE DEF t
<1>11. /\ d2 \in Dir /\ d2.entries = t /\ d2.parent = d.parent /\ d2.form = d.form
       /\ d2.leafs = spot.leafs /\ d2.stale = spot.stale
  BY <1>1, <1>3, <1>8, <1>9 DEF Dir
<1>12. BlockSound(d2)
  BY <1>9, <1>10, <1>11 DEF BlockSound, LeafStart
<1>13. Sound(d2)
  BY <1>8, <1>11, <1>12 DEF Sound
<1>14. d2.entries = InsertAt(es, i, e)
  BY <1>11 DEF t
<1>15. Puts(d, d2, n, ino)
  BY <1>5, <1>7, <1>11, <1>14 DEF Puts
<1> QED
  BY <1>13, <1>15

LEMMA AddNameSound ==
  ASSUME Sound(dir), NEW n \in Name, NEW ino \in Ino, AddName(n, ino)
  PROVE  Sound(dir') /\ n \notin Names(dir) /\ Puts(dir, dir', n, ino)
<1>1. n \notin Names(dir)
  BY DEF AddName
<1>2. CASE dir.form = "short" /\ ShortFits(dir, n, ino)
  <2>1. ShortSound(dir) /\ dir' = ShortAdd(dir, n, ino)
    BY <1>2 DEF AddName, Sound, BlockSound
  <2> QED
    BY <1>1, <1>2, <2>1, ShortAddSound
<1>3. CASE ~ (dir.form = "short" /\ ShortFits(dir, n, ino))
  <2> DEFINE d == IF dir.form = "short" THEN ToBlock(dir) ELSE dir
  <2>1. PICK spot \in Spots(d, n) : dir' = BlockAdd(d, n, ino, spot)
    BY <1>3 DEF AddName
  <2>2. Sound(d) /\ BlockSound(d) /\ d.entries = dir.entries /\ d.parent = dir.parent
    <3>1. CASE dir.form = "short"
      <4>1. ShortSound(dir)
        BY <3>1 DEF Sound, BlockSound
      <4> QED
        BY <3>1, <4>1, ToBlockSound
    <3>2. CASE dir.form # "short"
      BY <3>2 DEF Sound, ShortSound
    <3> QED
      BY <3>1, <3>2
  <2> HIDE DEF d
  <2>3. n \notin Names(d)
    BY <1>1, <2>2 DEF Names
  <2>4. Sound(dir') /\ Puts(d, dir', n, ino)
    BY <2>1, <2>2, <2>3, BlockAddSound
  <2>5. Puts(dir, dir', n, ino)
    BY <2>2, <2>4 DEF Puts
  <2> QED
    BY <1>1, <2>4, <2>5
<1> QED
  BY <1>2, <1>3

(***************************************************************************)
(* A name less.                                                            *)
(***************************************************************************)
\* u is t but for the offsets, and those too if they are stored.
Same(t, u) == /\ Len(u) = Len(t)
              /\ \A i \in 1 .. Len(t) : u[i].name = t[i].name /\ u[i].ino = t[i].ino
              /\ PutsOffset => u = t

\* What RemoveName does to the names.
Takes(d, d2, n) ==
  \E i \in 1 .. Len(d.entries) :
    /\ d.entries[i].name = n
    /\ Same(RemoveAt(d.entries, i), d2.entries)
    /\ d2.parent = d.parent

LEMMA PlaceOfIs ==
  ASSUME NEW d \in Dir, NEW n \in Names(d)
  PROVE  PlaceOf(d, n) \in 1 .. Len(d.entries) /\ d.entries[PlaceOf(d, n)].name = n
<1>1. DOMAIN d.entries = 1 .. Len(d.entries)
  BY DirFields
<1>2. \E i \in DOMAIN d.entries : d.entries[i].name = n
  BY DEF Names
<1>3. Places(d, n) # {}
  BY <1>2 DEF Places
<1>4. PlaceOf(d, n) \in Places(d, n)
  BY <1>3 DEF PlaceOf
<1> QED
  BY <1>1, <1>4 DEF Places

LEMMA NarrowIs ==
  ASSUME NEW es \in Seq(Entry), NEW p \in Ino, Wides(es, p) = 0
  PROVE  ~ IsWide(p) /\ \A i \in 1 .. Len(es) : ~ IsWide(es[i].ino)
<1>1. Wides(es, p) = Total(Bits(es)) + Wide(p) /\ Wide(p) \in {0, 1}
  <2>1. 0 \in Nat
    OBVIOUS
  <2> QED
    BY <2>1, PackedIs
<1>2. Total(Bits(es)) \in Nat
  <2>1. 0 \in Nat
    OBVIOUS
  <2>2. Bits(es) \in Seq(Nat)
    BY <2>1, BytesAndBits
  <2> QED
    BY <2>2, TotalNat
<1>3. Wide(p) = 0
  BY <1>1, <1>2
<1>4. ~ IsWide(p)
  BY <1>3 DEF Wide
<1>5. ASSUME NEW i \in 1 .. Len(es) PROVE ~ IsWide(es[i].ino)
  <2>1. Wide(es[i].ino) + Wide(p) <= Wides(es, p)
    BY WideIsCounted
  <2>2. Wide(es[i].ino) \in {0, 1}
    BY DEF Wide
  <2>3. Wide(es[i].ino) = 0
    BY <1>3, <2>1, <2>2
  <2> QED
    BY <2>3 DEF Wide
<1> QED
  BY <1>4, <1>5

LEMMA RoomLeft ==
  ASSUME NEW a \in Nat, NEW k \in Nat, NEW b \in Nat, NEW m \in Nat, a <= b - 8 - 8 * (k + 2 + m)
  PROVE  a + (k + 2) * 8 + 8 <= b
OBVIOUS

LEMMA SameCounted ==
  ASSUME NEW t \in Seq(Entry), NEW u \in Seq(Entry), Same(t, u), NEW c \in Nat, NEW p \in Ino
  PROVE  Packed(c, u) = Packed(c, t) /\ Wides(u, p) = Wides(t, p)
<1>1. /\ DOMAIN t = 1 .. Len(t) /\ DOMAIN u = 1 .. Len(t)
      /\ \A i \in 1 .. Len(t) : u[i].name = t[i].name /\ u[i].ino = t[i].ino
  BY DEF Same
<1>2. Bytes(c, u) = Bytes(c, t) /\ Bits(u) = Bits(t)
  BY <1>1 DEF Bytes, Bits
<1> QED
  BY <1>2, PackedIs

\* The entries of a block, packed with the offsets that put_offset leaves.
Unblocked(es) == [i \in DOMAIN es |-> [es[i] EXCEPT !.offset = PutOffset(es[i].offset)]]

LEMMA UnblockedIs ==
  ASSUME NEW es, Valid(es)
  PROVE  /\ Valid(Unblocked(es)) /\ Unblocked(es) \in Seq(Entry) /\ Len(Unblocked(es)) = Len(es)
         /\ Same(es, Unblocked(es))
<1> DEFINE u == Unblocked(es)
<1>1. /\ es \in Seq(Entry) /\ Len(es) \in Nat /\ DOMAIN es = 1 .. Len(es)
      /\ \A i \in 1 .. Len(es) : es[i] \in Entry /\ es[i].offset % 8 = 0
  BY DEF Valid, Aligned
<1>2. ASSUME NEW i \in 1 .. Len(es)
      PROVE  /\ u[i] \in Entry /\ u[i].name = es[i].name /\ u[i].ino = es[i].ino
             /\ u[i].offset % 8 = 0
             /\ PutsOffset => u[i] = es[i]
  <2> DEFINE e == es[i]
             o == PutOffset(e.offset)
  <2>1. u[i] = [e EXCEPT !.offset = o]
    BY <1>1 DEF Unblocked
  <2>2. e \in Entry /\ e.offset % 8 = 0 /\ e.offset \in 0 .. BlockSize /\ BlockSize \in Nat
    BY <1>1, EntryFields, SizesNat
  <2>3. o \in 0 .. BlockSize /\ o % 8 = 0 /\ (PutsOffset => o = e.offset)
    BY <2>2 DEF PutOffset
  <2> HIDE DEF u, e, o
  <2>4. u[i] \in Entry /\ u[i].name = e.name /\ u[i].ino = e.ino /\ u[i].offset = o
    BY <2>1, <2>2, <2>3 DEF Entry
  <2>5. PutsOffset => u[i] = e
    BY <2>1, <2>2, <2>3, SameEntry
  <2> QED
    BY <2>3, <2>4, <2>5 DEF e
<1>3. u \in [1 .. Len(es) -> Entry]
  <2>1. u = [i \in 1 .. Len(es) |-> u[i]]
    BY <1>1 DEF Unblocked
  <2> HIDE DEF u
  <2> QED
    BY <1>2, <2>1
<1> HIDE DEF u
<1>4. u \in Seq(Entry) /\ Len(u) = Len(es)
  BY <1>1, <1>3, AsSequence
<1>5. ASSUME PutsOffset PROVE u = es
  <2>1. es \in [1 .. Len(es) -> Entry]
    BY <1>1
  <2> QED
    BY <1>2, <1>3, <1>5, <2>1
<1>6. Valid(u)
  <2>1. Distinct(es) /\ (PutsOffset => Apart(es))
    BY DEF Valid
  <2>2. Distinct(u)
    BY <1>2, <1>4, <2>1 DEF Distinct
  <2>3. Aligned(u)
    BY <1>2, <1>4 DEF Aligned
  <2> QED
    BY <1>4, <1>5, <2>1, <2>2, <2>3 DEF Valid
<1>7. Same(es, u)
  BY <1>2, <1>4, <1>5 DEF Same
<1> QED
  BY <1>4, <1>6, <1>7 DEF u

\* Back in the inode, the entries are the same, and their offsets if they are
\* stored.
LEMMA ToShortSound ==
  ASSUME NEW d, Sound(d), BlockSound(d),
         ~ (Packed(Wides(d.entries, d.parent), d.entries) > ForkSize), NEW d2, d2 = ToShort(d)
  PROVE  Sound(d2) /\ Same(d.entries, d2.entries) /\ d2.parent = d.parent
<1> DEFINE es == d.entries
           c == Wides(es, d.parent)
           size == Packed(c, es)
           h == Headed(d, c, size)
<1>1. /\ d \in Dir /\ Valid(es) /\ es \in Seq(Entry) /\ Len(es) \in Nat /\ DOMAIN es = 1 .. Len(es)
      /\ \A j \in 1 .. Len(es) : es[j] \in Entry
      /\ d.parent \in Ino /\ d.stale \in Nat /\ ForkSize \in Nat /\ BlockSize \in Nat
  BY DirFields, SizesNat DEF Sound
<1>2. c \in Nat
  <2>1. 0 \in Nat
    OBVIOUS
  <2> QED
    BY <1>1, <2>1, PackedIs
<1>3. c # 0 \/ AllNarrow(d)
  BY <1>1, NarrowIs DEF AllNarrow
<1>4. size \in Nat
  <2> HIDE DEF c
  <2> QED
    BY <1>1, <1>2, PackedIs
<1> HIDE DEF c, size
<1>5. Rewrite(d, c, size) = h
  BY <1>1, <1>2, <1>3, RewriteIs
<1>6. h.entries = es /\ h \in Dir /\ h.parent = d.parent /\ h.i8count = c /\ h.size = size
  BY <1>1, <1>2, <1>4 DEF Headed, Dir
<1> DEFINE u == Unblocked(es)
<1>7. d2 = [h EXCEPT !.form = "short", !.leafs = 0, !.stale = 0, !.entries = u]
  BY <1>5, <1>6 DEF ToShort, c, size, Unblocked
<1>8. Valid(u) /\ u \in Seq(Entry) /\ Len(u) = Len(es) /\ Same(es, u)
  BY <1>1, UnblockedIs
<1> HIDE DEF h, es, u
<1>9. /\ d2 \in Dir /\ d2.entries = u /\ d2.parent = d.parent /\ d2.i8count = c /\ d2.size = size
      /\ d2.form = "short" /\ d2.leafs = 0 /\ d2.stale = 0
  <2>1. h \in Dir
    BY <1>6
  <2>2. d2 \in Dir
    <3>1. /\ h.i8count \in Nat /\ h.parent \in Ino /\ h.size \in Nat
      BY <2>1, DirFields
    <3>2. h = [form |-> h.form, entries |-> h.entries, i8count |-> h.i8count, parent |-> h.parent,
               size |-> h.size, leafs |-> h.leafs, stale |-> h.stale]
      BY <2>1 DEF Dir
    <3>3. d2 = [form |-> "short", entries |-> u, i8count |-> h.i8count, parent |-> h.parent,
                size |-> h.size, leafs |-> 0, stale |-> 0]
      BY <3>2, <1>7
    <3> QED
      BY <1>8, <3>1, <3>3 DEF Dir
  <2>3. /\ d2.entries = u /\ d2.parent = h.parent /\ d2.i8count = h.i8count /\ d2.size = h.size
        /\ d2.form = "short" /\ d2.leafs = 0 /\ d2.stale = 0
    BY <2>1, <1>7 DEF Dir
  <2> QED
    BY <1>6, <2>2, <2>3
<1>10. size <= ForkSize
  BY <1>1, <1>4 DEF c, size, es
<1>11. /\ (Len(u) + 2) * 8 + 8 <= BlockSize
       /\ PutsOffset => EndOf(u) + (Len(u) + 2) * 8 + 8 <= BlockSize
  <2>1. EndOf(es) \in Nat /\ 0 <= BlockSize - 8 - 8 * d.leafs /\ (PutsOffset => EndOf(es) <= BlockSize - 8 - 8 * d.leafs)
    BY LeafStartIs DEF es
  <2>2. d.leafs = Len(es) + 2 + d.stale
    BY DEF BlockSound, es
  <2>3. 0 \in Nat
    OBVIOUS
  <2>4. 0 + (Len(es) + 2) * 8 + 8 <= BlockSize
    BY <1>1, <2>1, <2>2, <2>3, RoomLeft
  <2>5. PutsOffset => EndOf(es) + (Len(es) + 2) * 8 + 8 <= BlockSize
    BY <1>1, <2>1, <2>2, RoomLeft
  <2>6. PutsOffset => u = es
    BY <1>8 DEF Same
  <2> QED
    BY <1>1, <1>8, <2>4, <2>5, <2>6
<1>12. c = Wides(u, d.parent) /\ size = Packed(c, u)
  <2>1. c = Wides(es, d.parent) /\ size = Packed(c, es)
    BY DEF c, size
  <2>2. Packed(c, u) = Packed(c, es) /\ Wides(u, d.parent) = Wides(es, d.parent)
    BY <1>1, <1>2, <1>8, SameCounted
  <2> QED
    BY <2>1, <2>2
<1>13. ShortSound(d2)
  BY <1>9, <1>10, <1>11, <1>12 DEF ShortSound
<1>14. Sound(d2)
  BY <1>8, <1>9, <1>13 DEF Sound
<1> QED
  BY <1>8, <1>9, <1>14 DEF es

LEMMA BlockRemoveSound ==
  ASSUME NEW d, Sound(d), BlockSound(d), NEW n \in Names(d), NEW d2, d2 = BlockRemove(d, n)
  PROVE  Sound(d2) /\ Takes(d, d2, n)
<1> DEFINE es == d.entries
           i == PlaceOf(d, n)
           t == RemoveAt(es, i)
           stale == d.stale + 1
           less == [d EXCEPT !.entries = t, !.stale = stale]
<1>1. /\ d \in Dir /\ Valid(es) /\ es \in Seq(Entry) /\ Len(es) \in Nat /\ d.stale \in Nat /\ d.leafs \in Nat
      /\ i \in 1 .. Len(es) /\ es[i].name = n
  BY DirFields, PlaceOfIs DEF Sound
<1>2. d2 = IF Packed(Wides(less.entries, less.parent), less.entries) > ForkSize THEN less ELSE ToShort(less)
  BY DEF BlockRemove
<1> HIDE DEF i
<1>3. /\ Valid(t) /\ t \in Seq(Entry) /\ Len(t) = Len(es) - 1 /\ Len(t) \in Nat
      /\ PutsOffset => EndOf(t) <= EndOf(es)
  <2>1. Valid(t) /\ Len(t) = Len(es) - 1 /\ (PutsOffset => EndOf(t) <= EndOf(es))
    BY <1>1, Leaves
  <2> QED
    BY <2>1 DEF Valid
<1>4. stale \in Nat
  BY <1>1
<1> HIDE DEF t, stale
<1>5. /\ less \in Dir /\ less.entries = t /\ less.parent = d.parent /\ less.form = d.form
      /\ less.leafs = d.leafs /\ less.stale = stale
  BY <1>1, <1>3, <1>4 DEF Dir
<1> HIDE DEF less
<1>6. BlockSound(less)
  <2>1. less.leafs = Len(t) + 2 + stale
    <3>1. d.leafs = Len(es) + 2 + d.stale
      BY DEF BlockSound
    <3>2. less.leafs = d.leafs /\ stale = d.stale + 1 /\ Len(t) = Len(es) - 1
      BY <1>3, <1>5 DEF stale
    <3>3. Len(es) \in Nat /\ d.stale \in Nat
      BY <1>1
    <3>4. Len(es) + 2 + d.stale = (Len(es) - 1) + 2 + (d.stale + 1)
      BY <3>3
    <3> QED
      BY <3>1, <3>2, <3>4, Zenon
  <2>2. EndOf(es) \in Nat /\ LeafStart(d) \in Nat /\ (PutsOffset => EndOf(es) <= LeafStart(d))
    BY LeafStartIs
  <2>3. EndOf(t) = Before(t, Len(t) + 1) /\ Len(t) + 1 \in 1 .. Len(t) + 1
    BY <1>3, BeforeIs
  <2>4. EndOf(t) \in Nat
    BY <1>3, <2>3, BeforeNat
  <2>5. LeafStart(less) = LeafStart(d)
    BY <1>5 DEF LeafStart
  <2>6. LeafStart(less) >= 0 /\ (PutsOffset => EndOf(t) <= LeafStart(less))
    BY <1>3, <2>2, <2>4, <2>5
  <2> QED
    BY <1>5, <2>1, <2>6 DEF BlockSound
<1>7. Sound(less)
  BY <1>3, <1>5, <1>6 DEF Sound
<1>8. Sound(d2) /\ Same(t, d2.entries) /\ d2.parent = d.parent
  <2>1. CASE Packed(Wides(less.entries, less.parent), less.entries) > ForkSize
    <3>1. Same(t, t)
      BY DEF Same
    <3> QED
      BY <1>2, <1>5, <1>7, <2>1, <3>1
  <2>2. CASE ~ (Packed(Wides(less.entries, less.parent), less.entries) > ForkSize)
    <3>1. d2 = ToShort(less)
      BY <1>2, <2>2
    <3> QED
      BY <1>5, <1>6, <1>7, <2>2, <3>1, ToShortSound
  <2> QED
    BY <2>1, <2>2
<1>9. Takes(d, d2, n)
  BY <1>1, <1>8 DEF Takes, t
<1> QED
  BY <1>8, <1>9

\* The last wide number goes, and with it four bytes of each of the others.
LEMMA ShortRemoveSound ==
  ASSUME NEW d, Sound(d), ShortSound(d), NEW n \in Names(d), NEW d2, d2 = ShortRemove(d, n)
  PROVE  Sound(d2) /\ Takes(d, d2, n)
<1> DEFINE es == d.entries
           i == PlaceOf(d, n)
           ino == es[i].ino
           t == RemoveAt(es, i)
           size == d.size - EntSize(d.i8count, n)
           less == [d EXCEPT !.entries = t, !.size = size]
           p == d.parent
           c == d.i8count
<1>1. /\ d \in Dir /\ Valid(es) /\ es \in Seq(Entry) /\ Len(es) \in Nat /\ p \in Ino
      /\ c \in Nat /\ d.size \in Nat /\ ForkSize \in Nat /\ BlockSize \in Nat
      /\ i \in 1 .. Len(es) /\ es[i].name = n /\ es[i] \in Entry
  BY DirFields, PlaceOfIs, SizesNat DEF Sound
<1>2. d2 = IF ~ IsWide(ino) THEN less
           ELSE IF c = 1 THEN ToIno4(less)
           ELSE [less EXCEPT !.i8count = less.i8count - 1]
  BY DEF ShortRemove
<1> HIDE DEF i
<1>3. /\ Valid(t) /\ t \in Seq(Entry) /\ Len(t) = Len(es) - 1 /\ Len(t) \in Nat
      /\ PutsOffset => EndOf(t) <= EndOf(es)
      /\ \A j \in 1 .. Len(t) : t[j] = IF j < i THEN es[j] ELSE es[j + 1]
  <2>1. t = RemoveAt(es, i)
    OBVIOUS
  <2> HIDE DEF t, es
  <2>2. /\ Valid(t) /\ Len(t) = Len(es) - 1 /\ (PutsOffset => EndOf(t) <= EndOf(es))
        /\ \A j \in 1 .. Len(t) : t[j] = IF j < i THEN es[j] ELSE es[j + 1]
    BY <1>1, <2>1, Leaves
  <2>3. t \in Seq(Entry) /\ Len(t) \in Nat
    BY <2>2 DEF Valid
  <2> QED
    BY <2>2, <2>3
<1> HIDE DEF t
<1>4. Packed(c, es) = Packed(c, t) + EntSize(c, n) /\ Wides(es, p) = Wides(t, p) + Wide(ino)
  <2>1. /\ es \in Seq(Entry) /\ t \in Seq(Entry) /\ i \in 1 .. Len(es) /\ Len(t) = Len(es) - 1
        /\ \A j \in 1 .. Len(t) : t[j] = IF j < i THEN es[j] ELSE es[j + 1]
        /\ c \in Nat /\ p \in Ino
    BY <1>1, <1>3
  <2> HIDE DEF es, c, p
  <2>2. /\ Packed(c, es) = Packed(c, t) + EntSize(c, es[i].name)
        /\ Wides(es, p) = Wides(t, p) + Wide(es[i].ino)
    BY <2>1, LeavesCounted
  <2> QED
    BY <1>1, <2>2 DEF es
<1>5. /\ Packed(c, t) \in Nat /\ EntSize(c, n) \in Nat /\ Wides(t, p) \in Nat /\ Wide(ino) \in {0, 1}
      /\ n \in Name
  <2>1. n \in Name
    BY <1>1, EntryFields
  <2>2. EntSize(c, n) \in Nat
    BY <1>1, <2>1, EntSizeOf
  <2>3. Packed(c, t) \in Nat /\ Wides(t, p) \in Nat
    BY <1>1, <1>3, PackedIs
  <2> QED
    BY <2>1, <2>2, <2>3 DEF Wide
<1>6. c = Wides(es, p) /\ d.size = Packed(c, es) /\ d.size <= ForkSize
  BY DEF ShortSound
<1>7. size = Packed(c, t) /\ size \in Nat /\ size <= ForkSize
  BY <1>1, <1>4, <1>5, <1>6
<1>8. /\ (Len(t) + 2) * 8 + 8 <= BlockSize
      /\ PutsOffset => EndOf(t) + (Len(t) + 2) * 8 + 8 <= BlockSize
  <2>1. /\ (Len(es) + 2) * 8 + 8 <= BlockSize
        /\ PutsOffset => EndOf(es) + (Len(es) + 2) * 8 + 8 <= BlockSize
    BY DEF ShortSound
  <2>2. EndOf(es) = Before(es, Len(es) + 1) /\ EndOf(t) = Before(t, Len(t) + 1)
        /\ Len(es) + 1 \in 1 .. Len(es) + 1 /\ Len(t) + 1 \in 1 .. Len(t) + 1
    BY <1>1, <1>3, BeforeIs
  <2>3. EndOf(es) \in Nat /\ EndOf(t) \in Nat
    BY <1>1, <1>3, <2>2, BeforeNat
  <2> DEFINE k == Len(es)
             x == EndOf(es)
             y == EndOf(t)
  <2>4. k \in Nat /\ x \in Nat /\ y \in Nat /\ (PutsOffset => y <= x) /\ Len(t) = k - 1
    BY <1>1, <1>3, <2>3
  <2>5. (k + 2) * 8 + 8 <= BlockSize /\ (PutsOffset => x + (k + 2) * 8 + 8 <= BlockSize)
    BY <2>1, Zenon
  <2> HIDE DEF k, x, y
  <2>6. /\ ((k - 1) + 2) * 8 + 8 <= BlockSize
        /\ PutsOffset => y + ((k - 1) + 2) * 8 + 8 <= BlockSize
    BY <1>1, <2>4, <2>5
  <2> QED
    BY <2>4, <2>6, Zenon DEF y
<1> HIDE DEF size
<1>9. /\ less \in Dir /\ less.entries = t /\ less.parent = p /\ less.form = "short"
      /\ less.leafs = 0 /\ less.stale = 0 /\ less.i8count = c /\ less.size = size
  <2>1. /\ less \in Dir /\ less.entries = t /\ less.parent = p /\ less.form = d.form
        /\ less.leafs = d.leafs /\ less.stale = d.stale /\ less.i8count = c /\ less.size = size
    BY <1>1, <1>3, <1>7 DEF Dir
  <2> QED
    BY <2>1 DEF ShortSound
<1> HIDE DEF less
<1>10. ASSUME NEW x \in Dir, x.entries = t, x.parent = p, x.form = "short", x.leafs = 0, x.stale = 0,
              x.i8count = Wides(t, p), x.size = Packed(x.i8count, t), x.size <= ForkSize, d2 = x
       PROVE  Sound(d2) /\ Takes(d, d2, n)
  <2>1. ShortSound(x)
    BY <1>8, <1>10 DEF ShortSound
  <2>2. Sound(x)
    BY <1>3, <1>10, <2>1 DEF Sound
  <2>3. Same(t, d2.entries)
    BY <1>10 DEF Same
  <2> QED
    BY <1>1, <1>10, <2>2, <2>3 DEF Takes, t
<1>11. CASE ~ IsWide(ino)
  <2>1. Wides(t, p) = c
    BY <1>4, <1>5, <1>6, <1>11 DEF Wide
  <2>2. d2 = less
    BY <1>2, <1>11
  <2> QED
    BY <1>7, <1>9, <1>10, <2>1, <2>2
<1>12. CASE IsWide(ino) /\ c = 1
  <2>1. Wides(t, p) = 0
    BY <1>4, <1>5, <1>6, <1>12 DEF Wide
  <2> DEFINE none == 0
             z == less.size - (Len(less.entries) + 1) * 4
  <2>2. d2 = Rewrite(less, none, z)
    BY <1>2, <1>12 DEF ToIno4
  <2>3. AllNarrow(less) /\ none \in Nat
    BY <1>1, <1>3, <1>9, <2>1, NarrowIs DEF AllNarrow
  <2>4. z = Packed(none, t) /\ z \in Nat /\ z <= ForkSize
    <3>1. Packed(c, t) = Packed(0, t) + (Len(t) + 1) * 4
      <4>1. c # 0
        BY <1>12
      <4> HIDE DEF c
      <4> QED
        BY <1>1, <1>3, <4>1, WidePacked
    <3>2. 0 \in Nat
      OBVIOUS
    <3>3. Packed(0, t) \in Nat
      BY <1>1, <1>3, <3>2, PackedIs
    <3>4. z = size - (Len(t) + 1) * 4
      BY <1>9
    <3> QED
      BY <1>1, <1>3, <1>7, <3>1, <3>3, <3>4
  <2>5. none = Wides(t, p)
    BY <2>1
  <2> HIDE DEF none, z
  <2>6. Rewrite(less, none, z) = Headed(less, none, z)
    BY <1>9, <2>3, RewriteIs
  <2> DEFINE x == Headed(less, none, z)
  <2>7. /\ x \in Dir /\ x.entries = t /\ x.parent = p /\ x.form = "short"
        /\ x.leafs = 0 /\ x.stale = 0 /\ x.i8count = none /\ x.size = z
    BY <1>9, <2>3, <2>4 DEF Headed, Dir
  <2>8. d2 = x
    BY <2>2, <2>6
  <2> HIDE DEF x
  <2> QED
    BY <1>10, <2>4, <2>5, <2>7, <2>8
<1>13. CASE IsWide(ino) /\ c # 1
  <2> DEFINE k == c - 1
             x == [less EXCEPT !.i8count = k]
  <2>1. k = Wides(t, p) /\ k \in Nat /\ k # 0 /\ c # 0
    BY <1>1, <1>4, <1>5, <1>6, <1>13 DEF Wide
  <2>2. d2 = x
    BY <1>2, <1>9, <1>13
  <2>3. Packed(k, t) = Packed(c, t)
    <3> HIDE DEF k
    <3>1. Packed(k, t) = Packed(0, t) + (Len(t) + 1) * 4
      BY <1>3, <2>1, WidePacked
    <3>2. Packed(c, t) = Packed(0, t) + (Len(t) + 1) * 4
      BY <1>1, <1>3, <2>1, WidePacked
    <3> QED
      BY <3>1, <3>2
  <2> HIDE DEF k
  <2>4. /\ x \in Dir /\ x.entries = t /\ x.parent = p /\ x.form = "short"
        /\ x.leafs = 0 /\ x.stale = 0 /\ x.i8count = k /\ x.size = size
    BY <1>9, <2>1 DEF Dir
  <2> HIDE DEF x
  <2> QED
    BY <1>7, <1>10, <2>1, <2>2, <2>3, <2>4
<1> QED
  BY <1>11, <1>12, <1>13

LEMMA RemoveNameSound ==
  ASSUME Sound(dir), NEW n \in Name, RemoveName(n)
  PROVE  Sound(dir') /\ Takes(dir, dir', n)
<1>1. n \in Names(dir)
  BY DEF RemoveName
<1>2. CASE dir.form = "short"
  <2>1. ShortSound(dir) /\ dir' = ShortRemove(dir, n)
    BY <1>2 DEF RemoveName, Sound, BlockSound
  <2> QED
    BY <1>1, <2>1, ShortRemoveSound
<1>3. CASE dir.form # "short"
  <2>1. BlockSound(dir) /\ dir' = BlockRemove(dir, n)
    BY <1>3 DEF RemoveName, Sound, ShortSound
  <2> QED
    BY <1>1, <2>1, BlockRemoveSound
<1> QED
  BY <1>2, <1>3

(***************************************************************************)
(* Another inode number for a name, or for the parent.                     *)
(***************************************************************************)
Old(d, n) == IF n = DotDot THEN d.parent ELSE Lookup(d, n)

\* What Replace does to the names: a name that is not there is left alone.
Sets(d, d2, n, ino) ==
  IF n = DotDot THEN d2.entries = d.entries /\ d2.parent = ino
  ELSE /\ d2.parent = d.parent
       /\ IF n \in Names(d)
          THEN \E k \in 1 .. Len(d.entries) :
                 /\ d.entries[k].name = n
                 /\ d2.entries \in Seq(Entry)
                 /\ IsChanged(d2.entries, d.entries, k, ino)
          ELSE d2.entries = d.entries

\* d2 is d but for its inode numbers.
Kept(d, d2) ==
  /\ d2 \in Dir /\ Valid(d2.entries)
  /\ Len(d2.entries) = Len(d.entries) /\ EndOf(d2.entries) = EndOf(d.entries)
  /\ \A c \in Nat : Packed(c, d2.entries) = Packed(c, d.entries)
  /\ d2.form = d.form /\ d2.leafs = d.leafs /\ d2.stale = d.stale

LEMMA PutIs ==
  ASSUME NEW d \in Dir, Valid(d.entries), NEW n \in Name \cup {DotDot}, NEW ino \in Ino,
         NEW d2, d2 = Put(d, n, ino)
  PROVE  /\ Kept(d, d2) /\ Sets(d, d2, n, ino) /\ d2.i8count = d.i8count /\ d2.size = d.size
         /\ n = DotDot \/ n \in Names(d)
            => Wides(d2.entries, d2.parent) + Wide(Old(d, n)) = Wides(d.entries, d.parent) + Wide(ino)
<1> DEFINE es == d.entries
<1>1. /\ es \in Seq(Entry) /\ Len(es) \in Nat /\ DOMAIN es = 1 .. Len(es) /\ d.parent \in Ino
      /\ \A i \in 1 .. Len(es) : es[i] \in Entry
  BY DirFields
<1>2. CASE n = DotDot
  <2>1. d2 = [d EXCEPT !.parent = ino]
    BY <1>2 DEF Put
  <2>2. /\ d2 \in Dir /\ d2.entries = es /\ d2.parent = ino /\ d2.form = d.form /\ d2.i8count = d.i8count
        /\ d2.size = d.size /\ d2.leafs = d.leafs /\ d2.stale = d.stale
    BY <2>1 DEF Dir
  <2>3. Wides(es, ino) + Wide(d.parent) = Wides(es, d.parent) + Wide(ino)
    <3>1. 0 \in Nat
      OBVIOUS
    <3>2. /\ Wides(es, ino) = Total(Bits(es)) + Wide(ino) /\ Wide(ino) \in {0, 1}
          /\ Wides(es, d.parent) = Total(Bits(es)) + Wide(d.parent) /\ Wide(d.parent) \in {0, 1}
      BY <1>1, <3>1, PackedIs
    <3>3. Total(Bits(es)) \in Nat
      BY <1>1, <3>1, BytesAndBits, TotalNat
    <3> QED
      BY <3>2, <3>3
  <2> QED
    BY <1>2, <2>2, <2>3 DEF Kept, Sets, Old
<1>3. CASE n # DotDot
  <2> DEFINE f == [i \in DOMAIN es |-> IF es[i].name = n THEN [es[i] EXCEPT !.ino = ino] ELSE es[i]]
  <2>1. d2 = [d EXCEPT !.entries = f]
    BY <1>3 DEF Put
  <2>2. ASSUME NEW i \in 1 .. Len(es)
        PROVE  /\ [es[i] EXCEPT !.ino = ino] \in Entry
               /\ [es[i] EXCEPT !.ino = ino].name = es[i].name
               /\ [es[i] EXCEPT !.ino = ino].offset = es[i].offset
               /\ [es[i] EXCEPT !.ino = ino].ino = ino
    BY <1>1 DEF Entry
  <2>3. f \in [1 .. Len(es) -> Entry]
    BY <1>1, <2>2
  <2>4. f \in Seq(Entry) /\ Len(f) = Len(es)
    BY <1>1, <2>3, AsSequence
  <2>5. \A i \in 1 .. Len(es) : f[i] = IF es[i].name = n THEN [es[i] EXCEPT !.ino = ino] ELSE es[i]
    BY <1>1
  <2> HIDE DEF f
  <2>6. /\ d2 \in Dir /\ d2.entries = f /\ d2.parent = d.parent /\ d2.form = d.form /\ d2.i8count = d.i8count
        /\ d2.size = d.size /\ d2.leafs = d.leafs /\ d2.stale = d.stale
    BY <2>1, <2>4 DEF Dir
  <2>7. CASE n \in Names(d)
    <3> DEFINE k == PlaceOf(d, n)
    <3>1. k \in 1 .. Len(es) /\ es[k].name = n
      BY <2>7, PlaceOfIs
    <3>2. Old(d, n) = es[k].ino
      BY <1>3, <2>7 DEF Old, Lookup
    <3> HIDE DEF k
    <3>3. \A i \in 1 .. Len(es) : es[i].name = n <=> i = k
      BY <3>1 DEF Valid, Distinct
    <3>4. IsChanged(f, es, k, ino)
      <4>1. ASSUME NEW i \in 1 .. Len(es), i = k
            PROVE  f[i].name = es[i].name /\ f[i].offset = es[i].offset /\ f[i].ino = ino
        <5>1. f[i] = [es[i] EXCEPT !.ino = ino]
          BY <2>5, <3>3, <4>1, Zenon
        <5> QED
          BY <2>2, <5>1, Zenon
      <4>2. ASSUME NEW i \in 1 .. Len(es), i # k PROVE f[i] = es[i]
        BY <2>5, <3>3, <4>2, Zenon
      <4> QED
        BY <2>4, <4>1, <4>2 DEF IsChanged
    <3>5. /\ Valid(f) /\ EndOf(f) = EndOf(es)
          /\ \A c \in Nat : Packed(c, f) = Packed(c, es)
          /\ Wides(f, d.parent) + Wide(es[k].ino) = Wides(es, d.parent) + Wide(ino)
      BY <1>1, <2>4, <3>1, <3>4, Changes
    <3>6. Kept(d, d2)
      BY <2>4, <2>6, <3>5 DEF Kept
    <3>7. Sets(d, d2, n, ino)
      BY <1>3, <2>4, <2>6, <2>7, <3>1, <3>4 DEF Sets
    <3> QED
      BY <2>6, <3>2, <3>5, <3>6, <3>7
  <2>8. CASE n \notin Names(d)
    <3>1. \A i \in 1 .. Len(es) : es[i].name # n
      BY <1>1, <2>8 DEF Names
    <3>2. f = es
      <4>1. \A i \in 1 .. Len(es) : f[i] = es[i]
        BY <2>5, <3>1
      <4>2. es \in [1 .. Len(es) -> Entry]
        BY <1>1
      <4> QED
        BY <2>3, <4>1, <4>2
    <3> QED
      BY <1>1, <1>3, <2>6, <2>8, <3>2 DEF Kept, Sets
  <2> QED
    BY <2>7, <2>8
<1> QED
  BY <1>2, <1>3

LEMMA ShortKept ==
  ASSUME NEW d, Sound(d), ShortSound(d), NEW x, NEW y \in Dir, Kept(d, x),
         y.entries = x.entries, y.parent = x.parent, y.form = "short", y.leafs = 0, y.stale = 0,
         y.i8count = Wides(x.entries, x.parent), y.size = Packed(y.i8count, d.entries), y.size <= ForkSize
  PROVE  Sound(y)
<1>1. y.size = Packed(y.i8count, y.entries)
  BY DirFields DEF Kept
<1>2. /\ (Len(y.entries) + 2) * 8 + 8 <= BlockSize
      /\ PutsOffset => EndOf(y.entries) + (Len(y.entries) + 2) * 8 + 8 <= BlockSize
  BY DEF Kept, ShortSound
<1>3. Valid(y.entries)
  BY DEF Kept
<1> QED
  BY <1>1, <1>2, <1>3 DEF Sound, ShortSound

LEMMA SetsHeader ==
  ASSUME NEW d, NEW x, NEW y, NEW n, NEW ino, Sets(d, x, n, ino), y.entries = x.entries, y.parent = x.parent
  PROVE  Sets(d, y, n, ino)
BY DEF Sets

\* The wide number of an entry or of the parent is counted.
LEMMA OldIsCounted ==
  ASSUME NEW d \in Dir, NEW n, n = DotDot \/ n \in Names(d)
  PROVE  /\ Old(d, n) \in Ino
         /\ Wide(Old(d, n)) \in {0, 1} /\ Wide(Old(d, n)) <= Wides(d.entries, d.parent)
<1>1. /\ d.entries \in Seq(Entry) /\ d.parent \in Ino
      /\ \A i \in 1 .. Len(d.entries) : d.entries[i] \in Entry
  BY DirFields
<1>2. \A ino : Wide(ino) \in {0, 1}
  BY DEF Wide
<1>3. Wides(d.entries, d.parent) = Total(Bits(d.entries)) + Wide(d.parent) /\ Total(Bits(d.entries)) \in Nat
  <2>1. 0 \in Nat
    OBVIOUS
  <2> QED
    BY <1>1, <2>1, PackedIs, BytesAndBits, TotalNat
<1>4. CASE n = DotDot
  <2>1. Old(d, n) = d.parent
    BY <1>4 DEF Old
  <2> QED
    BY <1>1, <1>2, <1>3, <2>1
<1>5. CASE n # DotDot
  <2> DEFINE k == PlaceOf(d, n)
  <2>1. k \in 1 .. Len(d.entries) /\ Old(d, n) = d.entries[k].ino
    BY <1>5, PlaceOfIs DEF Old, Lookup
  <2> HIDE DEF k
  <2>2. Wide(d.entries[k].ino) + Wide(d.parent) <= Wides(d.entries, d.parent)
    BY <1>1, <2>1, WideIsCounted
  <2>3. d.entries[k].ino \in Ino
    BY <1>1, <2>1, EntryFields
  <2>4. Wides(d.entries, d.parent) \in Nat
    BY <1>2, <1>3
  <2> QED
    BY <1>2, <2>1, <2>2, <2>3, <2>4
<1> QED
  BY <1>4, <1>5

LEMMA ReplaceShortSound ==
  ASSUME NEW d, Sound(d), ShortSound(d), NEW n \in Name \cup {DotDot}, NEW ino \in Ino,
         ~ Widens(d, ino), NEW d2, d2 = ReplaceShort(d, n, ino, FALSE)
  PROVE  Sound(d2) /\ Sets(d, d2, n, ino)
<1> DEFINE c == d.i8count
           x == Put(d, n, ino)
           k == Wides(x.entries, x.parent)
<1>1. /\ d \in Dir /\ Valid(d.entries) /\ c \in Nat /\ c = Wides(d.entries, d.parent)
      /\ d.form = "short" /\ d.leafs = 0 /\ d.stale = 0
      /\ d.size = Packed(c, d.entries) /\ d.size <= ForkSize /\ d.size \in Nat /\ ForkSize \in Nat
      /\ d.entries \in Seq(Entry) /\ Len(d.entries) \in Nat
  BY DirFields, SizesNat DEF Sound, ShortSound
<1>2. PutIno(c, ino) = ino
  BY <1>1, PutInoIs DEF Widens
<1>3. d2 = IF n # DotDot /\ n \notin Names(d) THEN d
           ELSE IF IsWide(Old(d, n)) /\ ~ IsWide(ino)
                THEN IF c = 1 THEN ToIno4(x) ELSE [x EXCEPT !.i8count = x.i8count - 1]
           ELSE IF ~ IsWide(Old(d, n)) /\ IsWide(ino) THEN [x EXCEPT !.i8count = x.i8count + 1]
           ELSE x
  BY <1>2 DEF ReplaceShort, Old
<1>4. /\ Kept(d, x) /\ Sets(d, x, n, ino) /\ x.i8count = c /\ x.size = d.size
      /\ n = DotDot \/ n \in Names(d) => k + Wide(Old(d, n)) = c + Wide(ino)
  BY <1>1, PutIs
<1> HIDE DEF x, c
<1>5. /\ x \in Dir /\ x.entries \in Seq(Entry) /\ x.parent \in Ino /\ Len(x.entries) = Len(d.entries)
      /\ x.form = "short" /\ x.leafs = 0 /\ x.stale = 0
      /\ \A m \in Nat : Packed(m, x.entries) = Packed(m, d.entries)
  BY <1>1, <1>4, DirFields DEF Kept
<1>6. k \in Nat
  <2>1. 0 \in Nat
    OBVIOUS
  <2> QED
    BY <1>5, <2>1, PackedIs
<1> HIDE DEF k
<1>7. ASSUME NEW y \in Dir, y.entries = x.entries, y.parent = x.parent, y.form = "short", y.leafs = 0,
             y.stale = 0, y.i8count = k, y.size = Packed(k, d.entries), y.size <= ForkSize, d2 = y
      PROVE  Sound(d2) /\ Sets(d, d2, n, ino)
  <2>1. Sound(y)
    BY <1>4, <1>7, ShortKept DEF k
  <2> QED
    BY <1>4, <1>7, <2>1, SetsHeader
<1>8. CASE n # DotDot /\ n \notin Names(d)
  BY <1>3, <1>8 DEF Sets
<1>9. CASE n = DotDot \/ n \in Names(d)
  <2> DEFINE old == Old(d, n)
  <2>1. Wide(old) \in {0, 1} /\ Wide(old) <= c
    BY <1>1, <1>9, OldIsCounted
  <2>2. k + Wide(old) = c + Wide(ino)
    BY <1>4, <1>9
  <2>3. d2 = IF IsWide(old) /\ ~ IsWide(ino)
             THEN IF c = 1 THEN ToIno4(x) ELSE [x EXCEPT !.i8count = x.i8count - 1]
             ELSE IF ~ IsWide(old) /\ IsWide(ino) THEN [x EXCEPT !.i8count = x.i8count + 1]
             ELSE x
    BY <1>3, <1>9
  <2> HIDE DEF old
  <2>4. CASE k = c
    <3>1. d2 = x
      <4>1. Wide(old) = Wide(ino)
        BY <1>1, <2>1, <2>2, <2>4 DEF Wide
      <4>2. IsWide(old) <=> IsWide(ino)
        BY <4>1 DEF Wide
      <4> QED
        BY <2>3, <4>2
    <3> QED
      BY <1>1, <1>4, <1>5, <1>7, <2>4, <3>1
  <2>5. CASE k # c /\ k # 0
    <3>1. c # 0 /\ d2 = [x EXCEPT !.i8count = k]
      <4>1. CASE IsWide(old) /\ ~ IsWide(ino)
        <5>1. k = c - 1
          BY <1>1, <1>6, <2>2, <4>1 DEF Wide
        <5>2. c # 0 /\ c # 1
          BY <1>1, <1>6, <2>5, <5>1
        <5>3. d2 = [x EXCEPT !.i8count = x.i8count - 1]
          BY <2>3, <4>1, <5>2
        <5> QED
          BY <1>4, <5>1, <5>2, <5>3
      <4>2. CASE ~ IsWide(old) /\ IsWide(ino)
        <5>1. k = c + 1
          BY <1>1, <1>6, <2>2, <4>2 DEF Wide
        <5>2. c # 0
          BY <4>2 DEF Widens, c
        <5> QED
          BY <1>1, <1>4, <2>3, <4>2, <5>1, <5>2
      <4>3. CASE IsWide(old) <=> IsWide(ino)
        BY <1>1, <1>6, <2>2, <2>5, <4>3 DEF Wide
      <4> QED
        BY <4>1, <4>2, <4>3
    <3>2. Packed(k, d.entries) = Packed(c, d.entries)
      <4>1. Packed(k, d.entries) = Packed(0, d.entries) + (Len(d.entries) + 1) * 4
        BY <1>1, <1>6, <2>5, WidePacked
      <4>2. Packed(c, d.entries) = Packed(0, d.entries) + (Len(d.entries) + 1) * 4
        BY <1>1, <3>1, WidePacked
      <4> QED
        BY <4>1, <4>2
    <3> DEFINE y == [x EXCEPT !.i8count = k]
    <3>3. /\ y \in Dir /\ y.entries = x.entries /\ y.parent = x.parent /\ y.form = "short" /\ y.leafs = 0
          /\ y.stale = 0 /\ y.i8count = k /\ y.size = d.size
      BY <1>4, <1>5, <1>6 DEF Dir
    <3> HIDE DEF y
    <3>4. d2 = y
      BY <3>1 DEF y
    <3> QED
      BY <1>1, <1>7, <3>2, <3>3, <3>4
  <2>6. CASE k # c /\ k = 0
    <3> DEFINE none == 0
               z == x.size - (Len(x.entries) + 1) * 4
               y == Headed(x, none, z)
    <3>1. IsWide(old) /\ ~ IsWide(ino) /\ c = 1
      BY <1>1, <2>1, <2>2, <2>6 DEF Wide
    <3>2. d2 = Rewrite(x, none, z)
      BY <2>3, <3>1 DEF ToIno4
    <3>3. AllNarrow(x) /\ none \in Nat
      BY <1>5, <2>6, NarrowIs DEF AllNarrow, k
    <3>4. z = Packed(none, d.entries) /\ z \in Nat /\ z <= ForkSize
      <4>1. c # 0
        BY <3>1
      <4>2. Packed(c, d.entries) = Packed(0, d.entries) + (Len(d.entries) + 1) * 4
        BY <1>1, <4>1, WidePacked
      <4>3. 0 \in Nat
        OBVIOUS
      <4>4. Packed(0, d.entries) \in Nat /\ d.parent \in Ino
        BY <1>1, <4>3, DirFields, PackedIs
      <4>5. z = d.size - (Len(d.entries) + 1) * 4
        BY <1>4, <1>5
      <4> QED
        BY <1>1, <4>2, <4>4, <4>5
    <3>5. none = k
      BY <2>6
    <3> HIDE DEF none, z
    <3>6. d2 = y
      BY <1>5, <3>2, <3>3, RewriteIs
    <3>7. /\ y \in Dir /\ y.entries = x.entries /\ y.parent = x.parent /\ y.form = "short" /\ y.leafs = 0
          /\ y.stale = 0 /\ y.i8count = none /\ y.size = z
      BY <1>5, <3>3, <3>4 DEF Headed, Dir
    <3> HIDE DEF y
    <3> QED
      BY <1>7, <3>4, <3>5, <3>6, <3>7
  <2> QED
    BY <2>4, <2>5, <2>6
<1> QED
  BY <1>8, <1>9

\* The first wide number comes in place of a narrow one.
LEMMA ReplaceWidenedSound ==
  ASSUME NEW d, Sound(d), ShortSound(d), NEW n \in Name \cup {DotDot}, NEW ino \in Ino,
         Widens(d, ino), ~ (d.size + (Len(d.entries) + 1) * 4 > ForkSize),
         NEW d2, d2 = ReplaceShort(ToIno8(d), n, ino, TRUE)
  PROVE  Sound(d2) /\ Sets(d, d2, n, ino)
<1> DEFINE w == ToIno8(d)
           x == Put(w, n, ino)
           size == d.size + (Len(d.entries) + 1) * 4
           one == 1
           none == 0
<1>1. /\ d \in Dir /\ Valid(d.entries) /\ d.i8count = 0 /\ Wides(d.entries, d.parent) = 0
      /\ d.form = "short" /\ d.leafs = 0 /\ d.stale = 0 /\ IsWide(ino)
      /\ d.size = Packed(0, d.entries) /\ d.size <= ForkSize /\ d.size \in Nat /\ ForkSize \in Nat
      /\ d.entries \in Seq(Entry) /\ Len(d.entries) \in Nat /\ d.parent \in Ino
  BY DirFields, SizesNat DEF Sound, ShortSound, Widens
<1>2. one \in Nat /\ one # 0 /\ none \in Nat /\ PutIno(one, ino) = ino
  <2>1. one \in Nat /\ one # 0 /\ none \in Nat
    OBVIOUS
  <2> HIDE DEF one
  <2> QED
    BY <2>1, PutInoIs
<1>3. size \in Nat /\ size <= ForkSize /\ size = Packed(one, d.entries)
  <2>1. size \in Nat /\ size <= ForkSize
    BY <1>1
  <2>2. Packed(one, d.entries) = Packed(0, d.entries) + (Len(d.entries) + 1) * 4
    <3> HIDE DEF one
    <3> QED
      BY <1>1, <1>2, WidePacked
  <2> QED
    BY <1>1, <2>1, <2>2
<1>4. w = [d EXCEPT !.i8count = one, !.size = size]
  BY <1>1, ToIno8Is
<1> HIDE DEF one, none, size, w
<1>5. /\ w \in Dir /\ w.entries = d.entries /\ w.parent = d.parent /\ w.form = "short" /\ w.leafs = 0
      /\ w.stale = 0 /\ w.i8count = one /\ w.size = size
  BY <1>1, <1>2, <1>3, <1>4 DEF Dir
<1>6. Old(w, n) = Old(d, n) /\ Names(w) = Names(d)
  BY <1>5 DEF Old, Lookup, Names, PlaceOf, Places
<1>7. CASE n # DotDot /\ n \notin Names(d)
  <2> DEFINE z == w.size - (Len(w.entries) + 1) * 4
             y == Headed(w, none, z)
  <2>1. d2 = Rewrite(w, none, z)
    BY <1>6, <1>7 DEF ReplaceShort, ToIno4, none, w
  <2>2. AllNarrow(w)
    BY <1>1, <1>5, NarrowIs DEF AllNarrow
  <2>3. z = d.size
    BY <1>1, <1>5 DEF size
  <2> HIDE DEF z
  <2>4. d2 = y
    BY <1>2, <1>5, <2>1, <2>2, RewriteIs
  <2>5. y = d
    BY <1>1, <1>4, <1>5, <2>3 DEF Headed, Dir, none
  <2> QED
    BY <1>7, <2>4, <2>5 DEF Sets
<1>8. CASE n = DotDot \/ n \in Names(d)
  <2>1. /\ Kept(w, x) /\ Sets(w, x, n, ino) /\ x.i8count = one /\ x.size = size
        /\ Wides(x.entries, x.parent) + Wide(Old(d, n)) = Wides(d.entries, d.parent) + Wide(ino)
    BY <1>1, <1>5, <1>6, <1>8, PutIs
  <2> HIDE DEF x
  <2>2. Wide(Old(d, n)) = 0 /\ ~ IsWide(Old(d, n)) /\ Wide(ino) = 1
    <3>1. Wide(Old(d, n)) \in {0, 1} /\ Wide(Old(d, n)) <= Wides(d.entries, d.parent)
      BY <1>1, <1>8, OldIsCounted
    <3>2. Wide(Old(d, n)) = 0
      BY <1>1, <3>1
    <3> QED
      BY <1>1, <3>2 DEF Wide
  <2>3. d2 = x
    <3>1. PutIno(w.i8count, ino) = ino
      BY <1>2, <1>5
    <3>2. ~ IsWide(IF n = DotDot THEN w.parent ELSE Lookup(w, n))
      BY <1>6, <2>2 DEF Old
    <3>3. n = DotDot \/ n \in Names(w)
      BY <1>6, <1>8
    <3> QED
      BY <3>1, <3>2, <3>3 DEF ReplaceShort, x, w
  <2>4. Kept(d, x) /\ Sets(d, x, n, ino)
    BY <1>1, <1>5, <1>6, <2>1 DEF Kept, Sets
  <2>5. x \in Dir /\ x.form = "short" /\ x.leafs = 0 /\ x.stale = 0
    BY <1>1, <2>4 DEF Kept
  <2>6. Wides(x.entries, x.parent) = one
    <3>1. Wides(x.entries, x.parent) \in Nat
      BY <1>2, <2>5, DirFields, PackedIs
    <3> QED
      BY <1>1, <2>1, <2>2, <3>1 DEF one
  <2>7. Sound(x)
    <3>1. /\ x.i8count = Wides(x.entries, x.parent) /\ x.size = Packed(x.i8count, d.entries)
          /\ x.size <= ForkSize
      BY <1>3, <2>1, <2>6
    <3> QED
      BY <2>4, <2>5, <3>1, ShortKept
  <2> QED
    BY <2>3, <2>4, <2>7
<1> QED
  BY <1>7, <1>8

LEMMA ReplaceBlockSound ==
  ASSUME NEW d, Sound(d), BlockSound(d), NEW n \in Name \cup {DotDot}, NEW ino \in Ino,
         NEW d2, d2 = Put(d, n, ino)
  PROVE  Sound(d2) /\ Sets(d, d2, n, ino)
<1>1. Kept(d, d2) /\ Sets(d, d2, n, ino)
  BY PutIs DEF Sound
<1>2. BlockSound(d2)
  BY <1>1 DEF Kept, BlockSound, LeafStart
<1> QED
  BY <1>1, <1>2 DEF Sound, Kept

LEMMA ReplaceSound ==
  ASSUME Sound(dir), NEW n \in Name \cup {DotDot}, NEW ino \in Ino, Replace(n, ino)
  PROVE  Sound(dir') /\ Sets(dir, dir', n, ino)
<1>1. CASE dir.form = "block"
  <2>1. BlockSound(dir) /\ dir' = Put(dir, n, ino)
    BY <1>1 DEF Replace, Sound, ShortSound
  <2> QED
    BY <2>1, ReplaceBlockSound
<1>2. CASE dir.form # "block"
  <2>1. ShortSound(dir)
    BY <1>2 DEF Sound, BlockSound
  <2>2. CASE ~ Widens(dir, ino)
    <3>1. dir' = ReplaceShort(dir, n, ino, FALSE)
      BY <1>2, <2>2 DEF Replace, Outgrows
    <3> QED
      BY <2>1, <2>2, <3>1, ReplaceShortSound
  <2>3. CASE Widens(dir, ino) /\ dir.size + (Len(dir.entries) + 1) * 4 > ForkSize
    <3> DEFINE b == ToBlock(dir)
    <3>1. dir' = Put(b, n, ino)
      BY <1>2, <2>3 DEF Replace, Outgrows
    <3>2. Sound(b) /\ BlockSound(b) /\ b.entries = dir.entries /\ b.parent = dir.parent
      BY <2>1, ToBlockSound
    <3> HIDE DEF b
    <3>3. Sound(dir') /\ Sets(b, dir', n, ino)
      BY <3>1, <3>2, ReplaceBlockSound
    <3>4. Sets(dir, dir', n, ino)
      BY <3>2, <3>3 DEF Sets, Names
    <3> QED
      BY <3>3, <3>4
  <2>4. CASE Widens(dir, ino) /\ ~ (dir.size + (Len(dir.entries) + 1) * 4 > ForkSize)
    <3>1. dir' = ReplaceShort(ToIno8(dir), n, ino, TRUE)
      BY <1>2, <2>4 DEF Replace, Outgrows
    <3> QED
      BY <2>1, <2>4, <3>1, ReplaceWidenedSound
  <2> QED
    BY <2>2, <2>3, <2>4
<1> QED
  BY <1>1, <1>2

(***************************************************************************)
(* The names, whatever their order.                                        *)
(***************************************************************************)
Entries(d) == {d.entries[i] : i \in 1 .. Len(d.entries)}

LEMMA OneEach ==
  ASSUME NEW d, Sound(d)
  PROVE  /\ Entries(d) \subseteq Entry
         /\ \A a, b \in Entries(d) : a.name = b.name => a = b
         /\ Names(d) = {a.name : a \in Entries(d)}
         /\ \A a \in Entries(d) : Lookup(d, a.name) = a.ino
         /\ \A m : m \notin Names(d) => Lookup(d, m) = NULL
<1>1. /\ d \in Dir /\ DOMAIN d.entries = 1 .. Len(d.entries)
      /\ \A i \in 1 .. Len(d.entries) : d.entries[i] \in Entry
  BY DirFields DEF Sound
<1>2. \A i, j \in 1 .. Len(d.entries) : d.entries[i].name = d.entries[j].name => i = j
  BY DEF Sound, Valid, Distinct
<1>3. Names(d) = {a.name : a \in Entries(d)}
  BY <1>1 DEF Names, Entries
<1>4. ASSUME NEW a \in Entries(d) PROVE Lookup(d, a.name) = a.ino
  <2>1. PICK k \in 1 .. Len(d.entries) : a = d.entries[k]
    BY DEF Entries
  <2>2. a.name \in Names(d)
    BY <1>3
  <2>3. PlaceOf(d, a.name) \in 1 .. Len(d.entries) /\ d.entries[PlaceOf(d, a.name)].name = a.name
    BY <1>1, <2>2, PlaceOfIs
  <2>4. PlaceOf(d, a.name) = k
    BY <1>2, <2>1, <2>3
  <2> QED
    BY <2>1, <2>2, <2>4 DEF Lookup
<1>5. \A m : m \notin Names(d) => Lookup(d, m) = NULL
  BY DEF Lookup
<1> QED
  BY <1>1, <1>2, <1>3, <1>4, <1>5 DEF Entries

LEMMA PutsOne ==
  ASSUME NEW d, Sound(d), NEW d2, Sound(d2), NEW n, NEW ino, Puts(d, d2, n, ino)
  PROVE  \E e \in Entry : /\ e.name = n /\ e.ino = ino
                          /\ \A a \in Entries(d) : a.name # n
                          /\ Entries(d2) = Entries(d) \cup {e}
<1>1. PICK i \in 1 .. Len(d.entries) + 1, e \in Entry :
        /\ e.name = n /\ e.ino = ino
        /\ FitsAt(e, d.entries, i)
        /\ d2.entries = InsertAt(d.entries, i, e)
  BY DEF Puts
<1> DEFINE es == d.entries
           t == d2.entries
<1>2. es \in Seq(Entry) /\ Len(es) \in Nat
  BY DirFields DEF Sound
<1>3. /\ Len(t) = Len(es) + 1
      /\ \A j \in 1 .. Len(es) + 1 : t[j] = IF j < i THEN es[j] ELSE IF j = i THEN e ELSE es[j - 1]
  BY <1>1, <1>2, InsertedRead DEF IsInserted
<1> HIDE DEF es, t
<1>4. ASSUME NEW j \in 1 .. Len(es) PROVE \E k \in 1 .. Len(t) : t[k] = es[j]
  <2>1. CASE j < i
    BY <1>2, <1>3, <2>1
  <2>2. CASE ~ (j < i)
    <3>1. j + 1 \in 1 .. Len(t) /\ t[j + 1] = es[j]
      BY <1>2, <1>3, <2>2
    <3> QED
      BY <3>1
  <2> QED
    BY <2>1, <2>2
<1>5. i \in 1 .. Len(t) /\ t[i] = e
  BY <1>1, <1>2, <1>3 DEF es
<1>6. ASSUME NEW j \in 1 .. Len(t) PROVE t[j] = e \/ \E k \in 1 .. Len(es) : t[j] = es[k]
  <2>1. CASE j < i
    BY <1>1, <1>2, <1>3, <2>1 DEF es
  <2>2. CASE j > i
    <3>1. j - 1 \in 1 .. Len(es) /\ t[j] = es[j - 1]
      BY <1>1, <1>2, <1>3, <2>2
    <3> QED
      BY <3>1
  <2> QED
    BY <1>1, <1>5, <2>1, <2>2
<1>7. Entries(d) = {es[j] : j \in 1 .. Len(es)} /\ Entries(d2) = {t[j] : j \in 1 .. Len(t)}
  BY DEF Entries, es, t
<1>8. Entries(d2) = Entries(d) \cup {e}
  <2>1. Entries(d2) \subseteq Entries(d) \cup {e}
    BY <1>6, <1>7
  <2>2. Entries(d) \cup {e} \subseteq Entries(d2)
    BY <1>4, <1>5, <1>7
  <2> QED
    BY <2>1, <2>2
<1>9. \A a \in Entries(d) : a.name # n
  BY <1>1 DEF FitsAt, Entries
<1> QED
  BY <1>1, <1>8, <1>9

\* The same but for an offset that was not stored.
Alike(a, b) == a.name = b.name /\ a.ino = b.ino /\ (PutsOffset => a = b)

LEMMA TakesOne ==
  ASSUME NEW d, Sound(d), NEW d2, Sound(d2), NEW n, Takes(d, d2, n)
  PROVE  \E e \in Entries(d) :
           /\ e.name = n
           /\ \A a \in Entries(d) : a # e => \E b \in Entries(d2) : Alike(a, b)
           /\ \A b \in Entries(d2) : \E a \in Entries(d) : a # e /\ Alike(a, b)
<1> DEFINE es == d.entries
           t == d2.entries
<1>1. PICK i \in 1 .. Len(es) : es[i].name = n /\ Same(RemoveAt(es, i), t)
  BY DEF Takes
<1>2. /\ es \in Seq(Entry) /\ Len(es) \in Nat
      /\ \A j, k \in 1 .. Len(es) : es[j] = es[k] => j = k
  BY DirFields DEF Sound, Valid, Distinct
<1> DEFINE u == RemoveAt(es, i)
<1>3. /\ Len(u) = Len(es) - 1
      /\ \A j \in 1 .. Len(es) - 1 : u[j] = IF j < i THEN es[j] ELSE es[j + 1]
  <2> HIDE DEF es
  <2> QED
    BY <1>1, <1>2, Removed
<1>4. Len(t) = Len(u) /\ \A j \in 1 .. Len(u) : Alike(u[j], t[j])
  <2>1. Same(u, t)
    BY <1>1
  <2> HIDE DEF u, t
  <2> QED
    BY <2>1 DEF Same, Alike
<1> HIDE DEF es, t, u
<1>5. ASSUME NEW j \in 1 .. Len(es), j # i PROVE \E k \in 1 .. Len(t) : Alike(es[j], t[k])
  <2>1. CASE j < i
    <3>1. j \in 1 .. Len(u) /\ u[j] = es[j]
      BY <1>1, <1>2, <1>3, <2>1
    <3> QED
      BY <1>4, <3>1
  <2>2. CASE j > i
    <3>1. j - 1 \in 1 .. Len(u) /\ u[j - 1] = es[j]
      BY <1>1, <1>2, <1>3, <2>2
    <3> QED
      BY <1>4, <3>1
  <2> QED
    BY <1>1, <1>2, <1>5, <2>1, <2>2
<1>6. ASSUME NEW j \in 1 .. Len(t) PROVE \E k \in 1 .. Len(es) : k # i /\ Alike(es[k], t[j])
  <2>1. j \in 1 .. Len(u) /\ Alike(u[j], t[j])
    BY <1>4
  <2>2. CASE j < i
    <3>1. j \in 1 .. Len(es) /\ j # i /\ u[j] = es[j]
      BY <1>1, <1>2, <1>3, <2>1, <2>2
    <3> QED
      BY <2>1, <3>1
  <2>3. CASE ~ (j < i)
    <3>1. j \in 1 .. Len(es) - 1 /\ j + 1 \in 1 .. Len(es) /\ j + 1 # i
      BY <1>1, <1>2, <1>3, <2>1, <2>3
    <3>2. u[j] = es[j + 1]
      BY <1>3, <2>3, <3>1
    <3> QED
      BY <2>1, <3>1, <3>2
  <2> QED
    BY <2>2, <2>3
<1>7. Entries(d) = {es[j] : j \in 1 .. Len(es)} /\ Entries(d2) = {t[j] : j \in 1 .. Len(t)}
  BY DEF Entries, es, t
<1>8. es[i] \in Entries(d) /\ es[i].name = n
  BY <1>1, <1>7
<1>9. ASSUME NEW a \in Entries(d), a # es[i] PROVE \E b \in Entries(d2) : Alike(a, b)
  <2>1. PICK j \in 1 .. Len(es) : a = es[j]
    BY <1>7
  <2>2. PICK k \in 1 .. Len(t) : Alike(es[j], t[k])
    BY <1>5, <1>9, <2>1
  <2> QED
    BY <1>7, <2>1, <2>2
<1>10. ASSUME NEW b \in Entries(d2) PROVE \E a \in Entries(d) : a # es[i] /\ Alike(a, b)
  <2>1. PICK j \in 1 .. Len(t) : b = t[j]
    BY <1>7
  <2>2. PICK k \in 1 .. Len(es) : k # i /\ Alike(es[k], t[j])
    BY <1>6
  <2>3. es[k] # es[i]
    BY <1>1, <1>2, <2>2
  <2> QED
    BY <1>7, <2>1, <2>2, <2>3
<1> QED
  BY <1>8, <1>9, <1>10

\* If the offsets are stored, the others are as they were.
LEMMA TakesThat ==
  ASSUME PutsOffset, NEW d, Sound(d), NEW d2, Sound(d2), NEW n, Takes(d, d2, n)
  PROVE  \E e \in Entries(d) : e.name = n /\ Entries(d2) = Entries(d) \ {e}
<1>1. PICK e \in Entries(d) :
        /\ e.name = n
        /\ \A a \in Entries(d) : a # e => \E b \in Entries(d2) : Alike(a, b)
        /\ \A b \in Entries(d2) : \E a \in Entries(d) : a # e /\ Alike(a, b)
  BY TakesOne
<1>2. \A a, b : Alike(a, b) => a = b
  BY DEF Alike
<1>3. Entries(d) \ {e} \subseteq Entries(d2)
  BY <1>1, <1>2
<1>4. Entries(d2) \subseteq Entries(d) \ {e}
  BY <1>1, <1>2
<1> QED
  BY <1>1, <1>3, <1>4

LEMMA SetsOne ==
  ASSUME NEW d, Sound(d), NEW d2, Sound(d2), NEW n \in Names(d), n # DotDot, NEW ino, Sets(d, d2, n, ino)
  PROVE  \E e \in Entries(d), x \in Entry :
           /\ e.name = n /\ x.name = n /\ x.offset = e.offset /\ x.ino = ino
           /\ Entries(d2) = (Entries(d) \ {e}) \cup {x}
<1>1. PICK k \in 1 .. Len(d.entries) : d.entries[k].name = n /\ IsChanged(d2.entries, d.entries, k, ino)
  BY DEF Sets
<1> DEFINE es == d.entries
           t == d2.entries
<1>2. /\ \A i, j \in 1 .. Len(es) : es[i] = es[j] => i = j
      /\ \A j \in 1 .. Len(t) : t[j] \in Entry
  BY DirFields DEF Sound, Valid, Distinct
<1>3. /\ Len(t) = Len(es) /\ t[k].name = n /\ t[k].offset = es[k].offset /\ t[k].ino = ino
      /\ \A j \in 1 .. Len(es) : j # k => t[j] = es[j]
  BY <1>1 DEF IsChanged
<1>4. k \in 1 .. Len(es) /\ es[k].name = n
  BY <1>1
<1>5. Entries(d) = {es[j] : j \in 1 .. Len(es)} /\ Entries(d2) = {t[j] : j \in 1 .. Len(t)}
  BY DEF Entries
<1> HIDE DEF es, t
<1>6. Entries(d2) = (Entries(d) \ {es[k]}) \cup {t[k]}
  <2>1. Entries(d2) \subseteq (Entries(d) \ {es[k]}) \cup {t[k]}
    BY <1>2, <1>3, <1>4, <1>5
  <2>2. (Entries(d) \ {es[k]}) \cup {t[k]} \subseteq Entries(d2)
    BY <1>2, <1>3, <1>4, <1>5
  <2> QED
    BY <2>1, <2>2
<1>7. es[k] \in Entries(d) /\ t[k] \in Entry
  BY <1>2, <1>3, <1>4, <1>5
<1> QED
  BY <1>3, <1>4, <1>6, <1>7

\* A name that is not there, or .., is no change of the entries.
LEMMA SetsNone ==
  ASSUME NEW d, NEW d2, NEW n, NEW ino, Sets(d, d2, n, ino), n = DotDot \/ n \notin Names(d)
  PROVE  /\ Entries(d2) = Entries(d)
         /\ n = DotDot => d2.parent = ino
         /\ n # DotDot => d2.parent = d.parent
<1>1. d2.entries = d.entries
  BY DEF Sets
<1> QED
  BY <1>1 DEF Sets, Entries

LEMMA InitSound == Init => Sound(dir)
<1> SUFFICES ASSUME Init PROVE Sound(dir)
  OBVIOUS
<1>1. PICK pino \in Ino :
        dir = [form |-> "short", entries |-> <<>>, i8count |-> Wide(pino), parent |-> PutIno(Wide(pino), pino),
               size |-> HdrSize(Wide(pino)), leafs |-> 0, stale |-> 0]
  BY DEF Init, Wide
<1> DEFINE es == <<>>
           c == Wide(pino)
<1>2. es \in Seq(Entry) /\ Len(es) = 0
  OBVIOUS
<1>3. c \in {0, 1} /\ c \in Nat /\ PutIno(c, pino) = pino
  <2>1. c \in {0, 1} /\ (c # 0 \/ ~ IsWide(pino))
    BY DEF Wide
  <2>2. c \in Nat
    BY <2>1
  <2> HIDE DEF c
  <2> QED
    BY <2>1, <2>2, PutInoIs
<1>4. Wides(es, pino) = c
  <2>1. Bits(es) = <<>> /\ Total(Bits(es)) = 0
    <3>1. Bits(es) = <<>>
      BY DEF Bits
    <3> QED
      BY <3>1, TotalEmpty
  <2>2. 0 \in Nat
    OBVIOUS
  <2>3. Wides(es, pino) = Total(Bits(es)) + Wide(pino)
    BY <1>2, <2>2, PackedIs
  <2> QED
    BY <1>3, <2>1, <2>3
<1>5. Packed(c, es) = HdrSize(c) /\ HdrSize(c) \in Nat /\ HdrSize(c) <= 10
  <2>1. Bytes(c, es) = <<>>
    BY DEF Bytes
  <2>2. Total(Bytes(c, es)) = 0
    BY <2>1, TotalEmpty
  <2>3. HdrSize(c) \in Nat /\ HdrSize(c) <= 10
    BY DEF HdrSize, InoSize
  <2>4. Packed(c, es) = HdrSize(c) + Total(Bytes(c, es))
    BY DEF Packed, Bytes
  <2> QED
    BY <2>2, <2>3, <2>4
<1>6. EndOf(es) = 48
  <2> HIDE DEF es
  <2>1. EndOf(es) = Before(es, Len(es) + 1) /\ Before(es, 1) = First
    BY <1>2, BeforeIs
  <2>2. Len(es) + 1 = 1
    BY <1>2
  <2> QED
    BY <2>1, <2>2, Places48
<1>7. Valid(es)
  BY <1>2 DEF Valid, Distinct, Aligned, Apart
<1>8. ForkSize >= 10 /\ BlockSize >= 72
  <2>1. ForkSize \in Nat /\ BlockSize \in Nat
    BY SizesNat
  <2> QED
    BY <2>1, RoomAssumption, Places48
<1> HIDE DEF es, c
<1>9. /\ dir \in Dir /\ dir.entries = es /\ dir.i8count = c /\ dir.parent = pino
      /\ dir.size = HdrSize(c) /\ dir.form = "short" /\ dir.leafs = 0 /\ dir.stale = 0
  <2>1. dir = [form |-> "short", entries |-> es, i8count |-> c, parent |-> pino,
               size |-> HdrSize(c), leafs |-> 0, stale |-> 0]
    BY <1>1, <1>3 DEF es, c
  <2> QED
    BY <1>2, <1>3, <1>5, <2>1 DEF Dir
<1>10. /\ HdrSize(c) <= ForkSize /\ EndOf(es) + (Len(es) + 2) * 8 + 8 <= BlockSize
       /\ (Len(es) + 2) * 8 + 8 <= BlockSize
  BY <1>2, <1>5, <1>6, <1>8, SizesNat
<1> QED
  BY <1>4, <1>5, <1>7, <1>9, <1>10 DEF Sound, ShortSound

\* Each operation is one of these to the names and leaves the directory sound.
Grows(d, d2) == \E n \in Name, ino \in Ino : n \notin Names(d) /\ Puts(d, d2, n, ino)
Shrinks(d, d2) == \E n \in Name : Takes(d, d2, n)
Alters(d, d2) == \E n \in Name \cup {DotDot}, ino \in Ino : Sets(d, d2, n, ino)

LEMMA NextIs ==
  ASSUME Sound(dir), Next
  PROVE  Sound(dir') /\ (Grows(dir, dir') \/ Shrinks(dir, dir') \/ Alters(dir, dir'))
<1>1. CASE \E n \in Name, ino \in Ino : AddName(n, ino)
  BY <1>1, AddNameSound DEF Grows
<1>2. CASE \E n \in Name : RemoveName(n)
  BY <1>2, RemoveNameSound DEF Shrinks
<1>3. CASE \E n \in Name \cup {DotDot}, ino \in Ino : Replace(n, ino)
  BY <1>3, ReplaceSound DEF Alters
<1> QED
  BY <1>1, <1>2, <1>3 DEF Next

LEMMA AlwaysSoundDir == Spec => []Sound(dir)
<1>1. Sound(dir) /\ [Next]_dir => Sound(dir)'
  <2>1. CASE Next
    BY <2>1, NextIs
  <2>2. CASE UNCHANGED dir
    BY <2>2
  <2> QED
    BY <2>1, <2>2
<1> QED
  BY <1>1, InitSound, PTL DEF Spec

(***************************************************************************)
(* The theorems about the directory.                                       *)
(***************************************************************************)
\* The count of wide numbers, the size, the offsets and the leafs of a directory
\* are numbers and each entry has a name, an offset in the block and an inode
\* number, whatever xfs_dir2_sf_addname, _removename, _replace and the two
\* conversions do.
THEOREM DirTypeCorrect == ASSUME PutsOffset PROVE Spec => []TypeOK
<1>1. Sound(dir) => TypeOK
  BY DEF Sound, TypeOK
<1> QED
  BY <1>1, AlwaysSoundDir, PTL

\* The entries of a directory lie behind one another with room for each, and
\* the leaf entries of the block, that there is or will be, behind them: what
\* xfs_dir2_sf_check asserts of the offsets.
THEOREM OffsetsAlwaysApart == ASSUME PutsOffset PROVE Spec => []OffsetsApart
<1>1. ASSUME Sound(dir) PROVE OffsetsApart
  <2>1. DOMAIN dir.entries = 1 .. Len(dir.entries)
    BY <1>1, DirFields DEF Sound
  <2>2. \A i \in DOMAIN dir.entries : dir.entries[i].offset >= Before(dir.entries, i)
    <3>1. Apart(dir.entries)
      BY <1>1 DEF Sound, Valid
    <3> QED
      BY <2>1, <3>1 DEF Apart
  <2>3. IF dir.form = "short" THEN EndOf(dir.entries) + (Len(dir.entries) + 2) * 8 + 8 <= BlockSize
        ELSE EndOf(dir.entries) <= LeafStart(dir)
    BY <1>1 DEF Sound, ShortSound, BlockSound
  <2> QED
    BY <2>2, <2>3 DEF OffsetsApart
<1>2. Sound(dir) => OffsetsApart
  BY <1>1
<1> QED
  BY <1>2, AlwaysSoundDir, PTL

\* i8count counts the inode numbers that need eight bytes, that of the parent
\* too, and di_size is what the header and the entries take with it, through
\* every widening and narrowing (xfs_dir2_sf_check).
THEOREM CountsAlwaysMatch == ASSUME PutsOffset PROVE Spec => []CountsMatchBytes
<1>1. Sound(dir) => CountsMatchBytes
  BY DEF Sound, ShortSound, BlockSound, CountsMatchBytes
<1> QED
  BY <1>1, AlwaysSoundDir, PTL

\* A directory that is kept in the inode fits into the inode, as
\* xfs_dir2_sf_addname, xfs_dir2_sf_replace and xfs_dir2_block_sfsize see to.
THEOREM AlwaysInline == ASSUME PutsOffset PROVE Spec => []StaysInline
<1>1. Sound(dir) => StaysInline
  BY DEF Sound, ShortSound, BlockSound, StaysInline
<1> QED
  BY <1>1, AlwaysSoundDir, PTL

\* An entry that a step leaves there has the offset it had.
LEMMA OffsetsKept ==
  ASSUME PutsOffset, NEW d, Sound(d), NEW d2, Sound(d2), Grows(d, d2) \/ Shrinks(d, d2) \/ Alters(d, d2)
  PROVE  \A a \in Entries(d), b \in Entries(d2) : a.name = b.name => a.offset = b.offset
<1>1. \A a, b \in Entries(d) : a.name = b.name => a = b
  BY OneEach
<1>2. CASE Grows(d, d2)
  <2>1. PICK n \in Name, ino \in Ino : Puts(d, d2, n, ino)
    BY <1>2 DEF Grows
  <2>2. PICK e \in Entry : e.name = n /\ (\A a \in Entries(d) : a.name # n) /\ Entries(d2) = Entries(d) \cup {e}
    BY <2>1, PutsOne
  <2> QED
    BY <1>1, <2>2
<1>3. CASE Shrinks(d, d2)
  <2>1. PICK n \in Name : Takes(d, d2, n)
    BY <1>3 DEF Shrinks
  <2>2. PICK e \in Entries(d) : Entries(d2) = Entries(d) \ {e}
    BY <2>1, TakesThat
  <2> QED
    BY <1>1, <2>2
<1>4. CASE Alters(d, d2)
  <2>1. PICK n \in Name \cup {DotDot}, ino \in Ino : Sets(d, d2, n, ino)
    BY <1>4 DEF Alters
  <2>2. CASE n # DotDot /\ n \in Names(d)
    <3>1. PICK e \in Entries(d), x \in Entry :
            /\ e.name = n /\ x.name = n /\ x.offset = e.offset
            /\ Entries(d2) = (Entries(d) \ {e}) \cup {x}
      BY <2>1, <2>2, SetsOne
    <3> QED
      BY <1>1, <3>1
  <2>3. CASE n = DotDot \/ n \notin Names(d)
    BY <1>1, <2>1, <2>3, SetsNone
  <2> QED
    BY <2>2, <2>3
<1> QED
  BY <1>2, <1>3, <1>4

\* While a name is there its offset stays what it was when the name was added:
\* no operation, widening, narrowing or conversion moves an entry.
THEOREM OffsetsAlwaysStay == ASSUME PutsOffset PROVE Spec => OffsetsStay
<1> DEFINE Stay == \A i \in DOMAIN dir.entries, j \in DOMAIN dir'.entries :
                     dir.entries[i].name = dir'.entries[j].name
                        => dir.entries[i].offset = dir'.entries[j].offset
<1>1. ASSUME Sound(dir), Next PROVE Stay
  <2>1. Sound(dir') /\ (Grows(dir, dir') \/ Shrinks(dir, dir') \/ Alters(dir, dir'))
    BY <1>1, NextIs
  <2>2. \A a \in Entries(dir), b \in Entries(dir') : a.name = b.name => a.offset = b.offset
    BY <1>1, <2>1, OffsetsKept
  <2>3. DOMAIN dir.entries = 1 .. Len(dir.entries) /\ DOMAIN dir'.entries = 1 .. Len(dir'.entries)
    BY <1>1, <2>1, DirFields DEF Sound
  <2> QED
    BY <2>2, <2>3 DEF Entries
<1>2. Sound(dir) /\ [Next]_dir => [Stay]_dir
  BY <1>1
<1> QED
  BY <1>2, AlwaysSoundDir, PTL DEF Spec, OffsetsStay

(***************************************************************************)
(* The directory as a map of names.                                        *)
(***************************************************************************)
Meant(d) == [n \in Name |-> Lookup(d, n)]

LEMMA MeantIs ==
  ASSUME NEW d, Sound(d)
  PROVE  /\ \A n \in Name : n \in Names(d) <=> Meant(d)[n] # NULL
         /\ \A n \in Name : n \notin Names(d) => Meant(d)[n] = NULL
         /\ \A a \in Entries(d) : Meant(d)[a.name] = a.ino /\ a.name \in Name
<1>1. /\ \A a \in Entries(d) : a.name \in Name /\ a.ino \in Ino /\ Lookup(d, a.name) = a.ino
      /\ Names(d) = {a.name : a \in Entries(d)}
      /\ \A m : m \notin Names(d) => Lookup(d, m) = NULL
  BY OneEach, EntryFields
<1>2. NULL \notin Ino
  BY DirAssumption
<1> QED
  BY <1>1, <1>2 DEF Meant

LEMMA GrowsMeans ==
  ASSUME NEW d, Sound(d), NEW d2, Sound(d2), NEW n \in Name, NEW ino \in Ino, n \notin Names(d), Puts(d, d2, n, ino)
  PROVE  Meant(d)[n] = NULL /\ Meant(d2) = [Meant(d) EXCEPT ![n] = ino] /\ d2.parent = d.parent
<1>1. PICK e \in Entry : e.name = n /\ e.ino = ino /\ Entries(d2) = Entries(d) \cup {e}
  BY PutsOne
<1>2. ASSUME NEW m \in Name PROVE Meant(d2)[m] = IF m = n THEN ino ELSE Meant(d)[m]
  <2>1. CASE m = n
    BY <1>1, <2>1, MeantIs
  <2>2. CASE m # n /\ m \in Names(d)
    <3>1. PICK a \in Entries(d) : a.name = m
      BY <2>2, OneEach
    <3> QED
      BY <1>1, <2>2, <3>1, MeantIs
  <2>3. CASE m # n /\ m \notin Names(d)
    <3>1. m \notin Names(d2)
      BY <1>1, <2>3, OneEach
    <3> QED
      BY <2>3, <3>1, MeantIs
  <2> QED
    BY <2>1, <2>2, <2>3
<1>3. Meant(d2) = [Meant(d) EXCEPT ![n] = ino]
  BY <1>2 DEF Meant
<1> QED
  BY <1>3, MeantIs DEF Puts

LEMMA ShrinksMeans ==
  ASSUME NEW d, Sound(d), NEW d2, Sound(d2), NEW n \in Name, Takes(d, d2, n)
  PROVE  Meant(d)[n] # NULL /\ Meant(d2) = [Meant(d) EXCEPT ![n] = NULL] /\ d2.parent = d.parent
<1>1. PICK e \in Entries(d) :
        /\ e.name = n
        /\ \A a \in Entries(d) : a # e => \E b \in Entries(d2) : Alike(a, b)
        /\ \A b \in Entries(d2) : \E a \in Entries(d) : a # e /\ Alike(a, b)
  BY TakesOne
<1>2. n \in Names(d) /\ n \notin Names(d2)
  <2>1. n \in Names(d)
    BY <1>1, OneEach
  <2>2. \A b \in Entries(d2) : b.name # n
    BY <1>1, OneEach DEF Alike
  <2> QED
    BY <2>1, <2>2, OneEach
<1>3. ASSUME NEW m \in Name PROVE Meant(d2)[m] = IF m = n THEN NULL ELSE Meant(d)[m]
  <2>1. CASE m = n
    BY <1>2, <2>1, MeantIs
  <2>2. CASE m # n /\ m \in Names(d)
    <3>1. PICK a \in Entries(d) : a.name = m
      BY <2>2, OneEach
    <3>2. PICK b \in Entries(d2) : b.name = m /\ b.ino = a.ino
      BY <1>1, <2>2, <3>1 DEF Alike
    <3> QED
      BY <2>2, <3>1, <3>2, MeantIs
  <2>3. CASE m # n /\ m \notin Names(d)
    <3>1. m \notin Names(d2)
      BY <1>1, <2>3, OneEach DEF Alike
    <3> QED
      BY <2>3, <3>1, MeantIs
  <2> QED
    BY <2>1, <2>2, <2>3
<1>4. Meant(d2) = [Meant(d) EXCEPT ![n] = NULL]
  BY <1>3 DEF Meant
<1> QED
  BY <1>2, <1>4, MeantIs DEF Takes

LEMMA AltersMeans ==
  ASSUME NEW d, Sound(d), NEW d2, Sound(d2), NEW n \in Name, n # DotDot, NEW ino \in Ino, Sets(d, d2, n, ino)
  PROVE  /\ d2.parent = d.parent
         /\ n \in Names(d) => Meant(d)[n] # NULL /\ Meant(d2) = [Meant(d) EXCEPT ![n] = ino]
         /\ n \notin Names(d) => Meant(d2) = Meant(d)
<1>1. CASE n \in Names(d)
  <2>1. PICK e \in Entries(d), x \in Entry :
           /\ e.name = n /\ x.name = n /\ x.ino = ino
           /\ Entries(d2) = (Entries(d) \ {e}) \cup {x}
    BY <1>1, SetsOne
  <2>2. ASSUME NEW m \in Name PROVE Meant(d2)[m] = IF m = n THEN ino ELSE Meant(d)[m]
    <3>1. CASE m = n
      BY <2>1, <3>1, MeantIs
    <3>2. CASE m # n /\ m \in Names(d)
      <4>1. PICK a \in Entries(d) : a.name = m
        BY <3>2, OneEach
      <4>2. a \in Entries(d2)
        BY <2>1, <3>2, <4>1
      <4> QED
        BY <3>2, <4>1, <4>2, MeantIs
    <3>3. CASE m # n /\ m \notin Names(d)
      <4>1. m \notin Names(d2)
        BY <2>1, <3>3, OneEach
      <4> QED
        BY <3>3, <4>1, MeantIs
    <3> QED
      BY <3>1, <3>2, <3>3
  <2>3. Meant(d2) = [Meant(d) EXCEPT ![n] = ino]
    BY <2>2 DEF Meant
  <2>4. Meant(d)[n] # NULL
    BY <1>1, MeantIs
  <2> QED
    BY <1>1, <2>3, <2>4 DEF Sets
<1>2. CASE n \notin Names(d)
  <2>1. d2.entries = d.entries
    BY <1>2 DEF Sets
  <2>2. \A m \in Name : Lookup(d2, m) = Lookup(d, m)
    BY <2>1 DEF Lookup, Names, PlaceOf, Places
  <2> QED
    BY <1>2, <2>2 DEF Sets, Meant
<1> QED
  BY <1>1, <1>2

\* Whatever form it is in, the directory is the map of names to inode numbers
\* that Directory describes: an operation changes the one entry it is for, and
\* a conversion or a widening none.
THEOREM DirectoryImplemented == ASSUME PutsOffset PROVE Spec => ImplementsDirectory
<1>1. Init => Directory!Init
  <2> SUFFICES ASSUME Init PROVE Directory!Init
    OBVIOUS
  <2>1. Sound(dir)
    BY InitSound
  <2>2. dir.entries = <<>>
    BY DEF Init
  <2>3. \A n \in Name : Lookup(dir, n) = NULL
    BY <2>2 DEF Lookup, Names
  <2>4. dir.parent \in Ino
    BY <2>1, DirFields DEF Sound
  <2> QED
    BY <2>3, <2>4 DEF Directory!Init
<1>2. Sound(dir) /\ [Next]_dir => [Directory!Next]_(Directory!vars)
  <2> SUFFICES ASSUME Sound(dir), [Next]_dir PROVE Directory!Next \/ UNCHANGED Directory!vars
    BY DEF Directory!vars
  <2> DEFINE map == [n \in Name |-> Lookup(dir, n)]
  <2>1. CASE UNCHANGED dir
    BY <2>1 DEF Directory!vars, Lookup, Names, PlaceOf, Places
  <2>2. CASE Next
    <3>1. Sound(dir') /\ (Grows(dir, dir') \/ Shrinks(dir, dir') \/ Alters(dir, dir'))
      BY <2>2, NextIs
    <3>2. Meant(dir) = map /\ Meant(dir') = map'
      BY DEF Meant, Lookup, Names, PlaceOf, Places
    <3>3. CASE Grows(dir, dir')
      <4>1. PICK n \in Name, ino \in Ino : n \notin Names(dir) /\ Puts(dir, dir', n, ino)
        BY <3>3 DEF Grows
      <4>2. map[n] = NULL /\ map' = [map EXCEPT ![n] = ino] /\ dir'.parent = dir.parent
        BY <3>1, <3>2, <4>1, GrowsMeans
      <4>3. Directory!Add(n, ino)
        BY <4>2 DEF Directory!Add
      <4> QED
        BY <4>3 DEF Directory!Next
    <3>4. CASE Shrinks(dir, dir')
      <4>1. PICK n \in Name : Takes(dir, dir', n)
        BY <3>4 DEF Shrinks
      <4>2. map[n] # NULL /\ map' = [map EXCEPT ![n] = NULL] /\ dir'.parent = dir.parent
        BY <3>1, <3>2, <4>1, ShrinksMeans
      <4>3. Directory!Remove(n)
        BY <4>2 DEF Directory!Remove
      <4> QED
        BY <4>3 DEF Directory!Next
    <3>5. CASE Alters(dir, dir')
      <4>1. PICK n \in Name \cup {DotDot}, ino \in Ino : Sets(dir, dir', n, ino)
        BY <3>5 DEF Alters
      <4>2. CASE n = DotDot
        <5>1. dir'.entries = dir.entries /\ dir'.parent = ino
          BY <4>1, <4>2 DEF Sets
        <5>2. map' = map
          BY <5>1 DEF Lookup, Names, PlaceOf, Places
        <5>3. Directory!Replace(n, ino)
          BY <4>2, <5>1, <5>2 DEF Directory!Replace
        <5> QED
          BY <5>3 DEF Directory!Next
      <4>3. CASE n # DotDot
        <5>1. n \in Name /\ DotDot \notin Name
          BY <4>3, DirAssumption
        <5>2. /\ dir'.parent = dir.parent
              /\ n \in Names(dir) => map[n] # NULL /\ map' = [map EXCEPT ![n] = ino]
              /\ n \notin Names(dir) => map' = map
          BY <3>1, <3>2, <4>1, <4>3, <5>1, AltersMeans
        <5>3. CASE n \in Names(dir)
          <6>1. Directory!Replace(n, ino)
            BY <4>3, <5>2, <5>3 DEF Directory!Replace
          <6> QED
            BY <6>1 DEF Directory!Next
        <5>4. CASE n \notin Names(dir)
          BY <5>2, <5>4 DEF Directory!vars
        <5> QED
          BY <5>3, <5>4
      <4> QED
        BY <4>2, <4>3
    <3> QED
      BY <3>1, <3>3, <3>4, <3>5
  <2> QED
    BY <2>1, <2>2
<1> QED
  BY <1>1, <1>2, AlwaysSoundDir, PTL DEF Spec, ImplementsDirectory, Directory!Spec

(***************************************************************************)
(* The scan.                                                               *)
(***************************************************************************)
\* The entries that . and .. would have.
DotEntries == {[name |-> Dot, offset |-> DotOffset], [name |-> DotDot, offset |-> DotDotOffset]}
Listed(d) == DotEntries \cup Entries(d)

LEMMA ListingIs ==
  ASSUME NEW d, Sound(d)
  PROVE  /\ Len(Listing(d)) = Len(d.entries) + 2 /\ Len(d.entries) \in Nat
         /\ Listing(d)[1] = [name |-> Dot, offset |-> DotOffset]
         /\ Listing(d)[2] = [name |-> DotDot, offset |-> DotDotOffset]
         /\ \A i \in 3 .. Len(d.entries) + 2 : Listing(d)[i] = d.entries[i - 2]
         /\ Listed(d) = {Listing(d)[i] : i \in 1 .. Len(d.entries) + 2}
<1> DEFINE dot == [name |-> Dot, offset |-> DotOffset]
           dotdot == [name |-> DotDot, offset |-> DotDotOffset]
           S == Entry \cup {dot, dotdot}
           head == <<dot, dotdot>>
           es == d.entries
           L == Listing(d)
<1>1. es \in Seq(Entry) /\ Len(es) \in Nat
  BY DirFields DEF Sound
<1>2. L = head \o es
  BY DEF Listing
<1>3. head \in Seq(S) /\ es \in Seq(S) /\ Len(head) = 2 /\ head[1] = dot /\ head[2] = dotdot
  <2>1. dot \in S /\ dotdot \in S /\ Entry \subseteq S
    OBVIOUS
  <2> HIDE DEF S, dot, dotdot
  <2> QED
    BY <1>1, <2>1
<1>4. DotEntries = {dot, dotdot} /\ Entries(d) = {es[i] : i \in 1 .. Len(es)}
  BY DEF DotEntries, Entries
<1> HIDE DEF S, head, es, L, dot, dotdot
<1>5. /\ Len(head \o es) = Len(head) + Len(es)
      /\ \A j \in 1 .. Len(head) + Len(es) : (head \o es)[j] = IF j <= Len(head) THEN head[j] ELSE es[j - Len(head)]
  BY <1>3, Concat
<1>6. /\ Len(L) = Len(es) + 2 /\ L[1] = dot /\ L[2] = dotdot
      /\ \A i \in 3 .. Len(es) + 2 : L[i] = es[i - 2]
  BY <1>1, <1>2, <1>3, <1>5
<1>7. Listed(d) = {L[i] : i \in 1 .. Len(es) + 2}
  <2>1. ASSUME NEW i \in 1 .. Len(es) + 2 PROVE L[i] \in Listed(d)
    <3>1. CASE i >= 3
      <4>1. i - 2 \in 1 .. Len(es) /\ L[i] = es[i - 2]
        BY <1>1, <1>6, <3>1
      <4> QED
        BY <1>4, <4>1 DEF Listed
    <3>2. CASE i \in {1, 2}
      BY <1>4, <1>6, <3>2 DEF Listed
    <3> QED
      BY <1>1, <3>1, <3>2
  <2>2. ASSUME NEW a \in Listed(d) PROVE \E i \in 1 .. Len(es) + 2 : a = L[i]
    <3>1. CASE a \in Entries(d)
      <4>1. PICK j \in 1 .. Len(es) : a = es[j]
        BY <1>4, <3>1
      <4>2. j + 2 \in 3 .. Len(es) + 2 /\ (j + 2) - 2 = j
        BY <1>1
      <4>3. a = L[j + 2]
        BY <1>6, <4>1, <4>2
      <4> QED
        BY <1>1, <4>2, <4>3
    <3>2. CASE a \in DotEntries
      BY <1>1, <1>4, <1>6, <3>2
    <3> QED
      BY <3>1, <3>2 DEF Listed
  <2> QED
    BY <2>1, <2>2
<1> QED
  BY <1>1, <1>6, <1>7 DEF L, es, dot, dotdot

\* Where the entries are, and that names are told apart.
LEMMA ListedIs ==
  ASSUME NEW d, Sound(d)
  PROVE  /\ \A a \in Listed(d) : a.name \in All /\ a.offset \in Nat /\ a.offset \in 0 .. BlockSize
         /\ \A a, b \in Listed(d) : a.name = b.name => a = b
         /\ {a.name : a \in Listed(d)} = {Dot, DotDot} \cup Names(d)
<1>3. ASSUME NEW a \in Entries(d) PROVE a.name \in All /\ a.offset \in Nat /\ a.offset \in 0 .. BlockSize
  BY OneEach, EntryFields DEF All
<1>4. /\ \A a, b \in Entries(d) : a.name = b.name => a = b
      /\ \A a \in Entries(d) : a.name \in Name
      /\ Names(d) = {a.name : a \in Entries(d)}
  BY OneEach, EntryFields
<1>5. Dot \notin Name /\ Dot # DotDot /\ DotDot \notin Name
  BY DotAssumption, DirAssumption
<1>6. DotOffset \in 0 .. BlockSize /\ DotDotOffset \in 0 .. BlockSize /\ DotOffset \in Nat /\ DotDotOffset \in Nat
  BY Places48, RoomAssumption, SizesNat
<1>7. ASSUME NEW a \in DotEntries PROVE a.name \in All /\ a.offset \in Nat /\ a.offset \in 0 .. BlockSize
  BY <1>6 DEF DotEntries, All
<1>8. ASSUME NEW a \in Listed(d), NEW b \in Listed(d), a.name = b.name PROVE a = b
  BY <1>4, <1>5, <1>8 DEF Listed, DotEntries
<1>9. {a.name : a \in Listed(d)} = {Dot, DotDot} \cup Names(d)
  <2>1. {a.name : a \in DotEntries} = {Dot, DotDot}
    BY DEF DotEntries
  <2>2. {a.name : a \in Listed(d)} = {a.name : a \in DotEntries} \cup {a.name : a \in Entries(d)}
    BY DEF Listed
  <2> QED
    BY <1>4, <2>1, <2>2
<1> QED
  BY <1>3, <1>7, <1>8, <1>9 DEF Listed

\* The cookie of the end is behind all of them.
LEMMA ListedBefore ==
  ASSUME PutsOffset, NEW d, Sound(d), NEW a \in Listed(d)
  PROVE  a.offset < BlockSize
<1>1. /\ Valid(d.entries) /\ d.entries \in Seq(Entry) /\ Len(d.entries) \in Nat
      /\ \A i \in 1 .. Len(d.entries) : d.entries[i] \in Entry
  BY DirFields DEF Sound
<1>2. EndOf(d.entries) \in Nat /\ EndOf(d.entries) <= BlockSize /\ BlockSize \in Nat
  <2>1. EndOf(d.entries) = Before(d.entries, Len(d.entries) + 1) /\ Len(d.entries) + 1 \in 1 .. Len(d.entries) + 1
    BY <1>1, BeforeIs
  <2>2. EndOf(d.entries) \in Nat /\ BlockSize \in Nat
    BY <1>1, <2>1, BeforeNat, SizesNat
  <2>3. CASE ShortSound(d)
    BY <1>1, <2>2, <2>3 DEF ShortSound
  <2>4. CASE BlockSound(d)
    <3>1. LeafStart(d) = BlockSize - 8 - 8 * d.leafs /\ EndOf(d.entries) <= LeafStart(d) /\ d.leafs \in Nat
      BY <2>4, LeafStartIs, DirFields DEF Sound
    <3> QED
      BY <2>2, <3>1
  <2> QED
    BY <2>2, <2>3, <2>4 DEF Sound
<1>3. CASE a \in Entries(d)
  <2>1. PICK i \in 1 .. Len(d.entries) : a = d.entries[i]
    BY <1>3 DEF Entries
  <2>2. After(a) \in Nat /\ After(a) >= a.offset + 16 /\ a.offset \in Nat
    BY <1>1, <2>1, EntryFields
  <2>3. After(a) <= EndOf(d.entries)
    BY <1>1, <2>1, EndsAll
  <2> QED
    BY <1>2, <2>2, <2>3
<1>4. CASE a \in DotEntries
  BY <1>2, <1>4, Places48, RoomAssumption DEF DotEntries
<1> QED
  BY <1>3, <1>4 DEF Listed

LEMMA ListingAscends ==
  ASSUME PutsOffset, NEW d, Sound(d), NEW i \in 1 .. Len(d.entries) + 2, NEW j \in 1 .. Len(d.entries) + 2, i < j
  PROVE  Listing(d)[i].offset < Listing(d)[j].offset
<1>1. /\ Valid(d.entries) /\ d.entries \in Seq(Entry) /\ Len(d.entries) \in Nat
      /\ \A k \in 1 .. Len(d.entries) : d.entries[k] \in Entry
  BY DirFields DEF Sound
<1>2. /\ Listing(d)[1].offset = 16 /\ Listing(d)[2].offset = 32
      /\ \A k \in 3 .. Len(d.entries) + 2 : Listing(d)[k] = d.entries[k - 2]
  BY ListingIs, Places48
<1>3. ASSUME NEW k \in 3 .. Len(d.entries) + 2 PROVE Listing(d)[k].offset \in Nat /\ Listing(d)[k].offset >= 48
  <2>1. k - 2 \in 1 .. Len(d.entries) /\ k - 2 \in 1 .. Len(d.entries) + 1
    BY <1>1
  <2>2. d.entries[k - 2].offset \in Nat
    BY <1>1, <2>1, EntryFields
  <2>3. d.entries[k - 2].offset >= Before(d.entries, k - 2)
    <3>1. Apart(d.entries)
      BY <1>1 DEF Valid
    <3> QED
      BY <2>1, <3>1 DEF Apart
  <2>4. Before(d.entries, k - 2) \in Nat /\ Before(d.entries, k - 2) >= First
    <3> DEFINE m == k - 2
    <3>1. m \in 1 .. Len(d.entries) + 1
      BY <2>1
    <3> HIDE DEF m
    <3>2. Before(d.entries, m) \in Nat /\ Before(d.entries, m) >= First
      BY <1>1, <3>1, BeforeFirst
    <3> QED
      BY <3>2 DEF m
  <2> QED
    BY <1>2, <2>2, <2>3, <2>4, Places48
<1>4. CASE i <= 2
  <2>1. CASE j <= 2
    BY <1>2, <1>4, <2>1
  <2>2. CASE j > 2
    BY <1>1, <1>2, <1>3, <1>4, <2>2
  <2> QED
    BY <2>1, <2>2
<1>5. CASE i > 2
  <2> DEFINE x == i - 2
             y == j - 2
  <2>1. /\ x \in 1 .. Len(d.entries) /\ y \in 1 .. Len(d.entries) /\ x < y
        /\ Listing(d)[i] = d.entries[x] /\ Listing(d)[j] = d.entries[y]
    BY <1>1, <1>2, <1>5
  <2> HIDE DEF x, y
  <2>2. After(d.entries[x]) <= d.entries[y].offset
    BY <1>1, <2>1, Ascend
  <2>3. /\ d.entries[x].offset \in Nat /\ d.entries[y].offset \in Nat
        /\ After(d.entries[x]) \in Nat /\ After(d.entries[x]) >= d.entries[x].offset + 16
    BY <1>1, <2>1, EntryFields
  <2> DEFINE o == d.entries[x].offset
             p == d.entries[y].offset
             a == After(d.entries[x])
  <2>4. o \in Nat /\ p \in Nat /\ a \in Nat /\ a >= o + 16 /\ a <= p
    BY <2>2, <2>3
  <2>5. Listing(d)[i].offset = o /\ Listing(d)[j].offset = p
    BY <2>1, Zenon
  <2> HIDE DEF o, p, a
  <2>6. o < p
    BY <2>4
  <2> QED
    BY <2>5, <2>6, Zenon
<1> QED
  BY <1>1, <1>4, <1>5

\* What is owed is not behind the cookie yet, what has been told is.
Followed(d, s) ==
  /\ s \in Scan
  /\ s.owed \cup s.done \subseteq {a.name : a \in Listed(d)}
  /\ \A a \in Listed(d) : a.name \in s.owed => s.cookie <= a.offset
  /\ \A a \in Listed(d) : a.name \in s.done => a.offset < s.cookie
  /\ ~ s.twice

\* The cookie stays in the block, and what is told is of the directory.
LEMMA GetDentsTyped ==
  ASSUME Sound(dir), scan \in Scan, NEW m \in 1 .. Len(dir.entries) + 3, GetDents(m)
  PROVE  scan' \in Scan
<1> DEFINE L == Listing(dir)
           N == Len(dir.entries) + 2
           c == scan'.cookie
           owed == scan.owed \ Told(m)
           done == scan.done \cup (scan.owed \cap Told(m))
           twice == scan.twice \/ Told(m) \cap scan.done # {}
<1>1. Len(L) = N /\ N \in Nat /\ Listed(dir) = {L[i] : i \in 1 .. N}
  BY ListingIs
<1>2. \A i \in 1 .. N : L[i].offset \in 0 .. BlockSize
  BY <1>1, ListedIs
<1>3. c = IF m > N THEN BlockSize ELSE L[m].offset
  BY <1>1 DEF GetDents, PastEnd
<1>4. scan' = [cookie |-> c, owed |-> owed, done |-> done, twice |-> twice]
  BY DEF GetDents
<1>5. owed \in SUBSET All /\ done \in SUBSET All /\ twice \in BOOLEAN
  BY DEF Scan
<1> HIDE DEF L, N, c, owed, done, twice
<1>6. c \in 0 .. BlockSize
  <2>1. CASE m > N
    BY <1>3, <2>1, SizesNat
  <2>2. CASE ~ (m > N)
    <3>1. m \in 1 .. N
      BY <1>1, <2>2
    <3> QED
      BY <1>2, <1>3, <2>2, <3>1
  <2> QED
    BY <2>1, <2>2
<1> QED
  BY <1>4, <1>5, <1>6 DEF Scan

\* The names told are those between the two cookies.
LEMMA ToldIs ==
  ASSUME PutsOffset, Sound(dir), scan \in Scan, NEW m \in 1 .. Len(dir.entries) + 3, GetDents(m)
  PROVE  /\ scan'.cookie \in 0 .. BlockSize /\ scan.cookie <= scan'.cookie
         /\ Told(m) = {a.name : a \in {b \in Listed(dir) : scan.cookie <= b.offset /\ b.offset < scan'.cookie}}
<1> DEFINE L == Listing(dir)
           N == Len(dir.entries) + 2
           c == scan'.cookie
<1>1. /\ Len(L) = N /\ N \in Nat /\ Listed(dir) = {L[i] : i \in 1 .. N}
  BY ListingIs
<1>2. \A i \in 1 .. N : L[i].offset \in Nat /\ L[i].offset < BlockSize
  BY <1>1, ListedIs, ListedBefore
<1>3. \A i, j \in 1 .. N : i < j => L[i].offset < L[j].offset
  BY ListingAscends
<1>4. /\ m <= N => scan.cookie <= L[m].offset
      /\ c = IF m > N THEN BlockSize ELSE L[m].offset
  BY <1>1 DEF GetDents, PastEnd
<1>5. scan.cookie \in 0 .. BlockSize /\ BlockSize \in Nat /\ m \in 1 .. N + 1
  BY <1>1, SizesNat DEF Scan
<1>6. Told(m) = {L[i].name : i \in {j \in 1 .. (m - 1) : L[j].offset >= scan.cookie}}
  BY DEF Told
<1> HIDE DEF L, N, c
<1>7. c \in 0 .. BlockSize /\ scan.cookie <= c
  <2>1. CASE m > N
    BY <1>4, <1>5, <2>1
  <2>2. CASE ~ (m > N)
    <3>1. m \in 1 .. N
      BY <1>1, <1>5, <2>2
    <3> QED
      BY <1>2, <1>4, <1>5, <2>2, <3>1
  <2> QED
    BY <2>1, <2>2
<1>8. ASSUME NEW i \in 1 .. N PROVE i \in 1 .. (m - 1) <=> L[i].offset < c
  <2>1. CASE m > N
    BY <1>1, <1>2, <1>4, <1>5, <2>1
  <2>2. CASE ~ (m > N)
    <3>1. m \in 1 .. N /\ c = L[m].offset
      BY <1>1, <1>4, <1>5, <2>2
    <3>2. i < m => L[i].offset < L[m].offset
      BY <1>3, <3>1
    <3>3. m < i => L[m].offset < L[i].offset
      BY <1>3, <3>1
    <3>4. L[i].offset \in Nat /\ L[m].offset \in Nat
      BY <1>2, <3>1
    <3> QED
      BY <1>1, <3>1, <3>2, <3>3, <3>4
  <2> QED
    BY <2>1, <2>2
<1>9. 1 .. (m - 1) \subseteq 1 .. N
  BY <1>1, <1>5
<1>10. \A i \in 1 .. N : L[i].offset >= scan.cookie <=> scan.cookie <= L[i].offset
  BY <1>2, <1>5
<1>11. {j \in 1 .. (m - 1) : L[j].offset >= scan.cookie}
       = {j \in 1 .. N : scan.cookie <= L[j].offset /\ L[j].offset < c}
  BY <1>8, <1>9, <1>10
<1>12. Told(m) = {a.name : a \in {b \in Listed(dir) : scan.cookie <= b.offset /\ b.offset < c}}
  BY <1>1, <1>6, <1>11
<1> QED
  BY <1>7, <1>12 DEF c

LEMMA GetDentsFollowed ==
  ASSUME PutsOffset, Sound(dir), Followed(dir, scan), NEW m \in 1 .. Len(dir.entries) + 3, GetDents(m)
  PROVE  Sound(dir') /\ Followed(dir', scan')
<1> DEFINE c == scan.cookie
           c2 == scan'.cookie
           T == Told(m)
<1>1. scan \in Scan
  BY DEF Followed
<1>2. /\ c2 \in 0 .. BlockSize /\ c <= c2
      /\ T = {a.name : a \in {b \in Listed(dir) : c <= b.offset /\ b.offset < c2}}
  BY <1>1, ToldIs
<1>3. /\ \A a \in Listed(dir) : a.name \in All /\ a.offset \in Nat
      /\ \A a, b \in Listed(dir) : a.name = b.name => a = b
  BY ListedIs
<1>4. c \in Nat /\ c2 \in Nat
  BY <1>1, <1>2, SizesNat DEF Scan
<1>5. /\ scan' = [cookie |-> scan'.cookie, owed |-> scan.owed \ Told(m),
                  done |-> scan.done \cup (scan.owed \cap Told(m)),
                  twice |-> scan.twice \/ Told(m) \cap scan.done # {}]
      /\ dir' = dir
  BY DEF GetDents
<1> DEFINE owed2 == scan.owed \ T
           done2 == scan.done \cup (scan.owed \cap T)
           twice2 == scan.twice \/ T \cap scan.done # {}
<1>15. scan' = [cookie |-> c2, owed |-> owed2, done |-> done2, twice |-> twice2]
  BY <1>5
<1> HIDE DEF c, c2, T
<1>6. /\ scan'.owed = scan.owed \ T /\ scan'.done = scan.done \cup (scan.owed \cap T)
      /\ scan'.twice <=> scan.twice \/ T \cap scan.done # {}
  <2>1. scan'.owed = owed2 /\ scan'.done = done2 /\ scan'.twice = twice2
    <3> HIDE DEF owed2, done2, twice2
    <3> QED
      BY <1>15
  <2> QED
    BY <2>1
<1>7. /\ scan.owed \in SUBSET All /\ scan.done \in SUBSET All
      /\ scan.owed \cup scan.done \subseteq {a.name : a \in Listed(dir)} /\ ~ scan.twice
      /\ \A a \in Listed(dir) : a.name \in scan.owed => c <= a.offset
      /\ \A a \in Listed(dir) : a.name \in scan.done => a.offset < c
  BY DEF Followed, Scan, c
<1>8. scan' \in Scan
  BY <1>1, GetDentsTyped
<1>9. T \cap scan.done = {}
  BY <1>2, <1>3, <1>4, <1>7
<1>10. ~ scan'.twice
  BY <1>6, <1>7, <1>9
<1>11. scan'.owed \cup scan'.done \subseteq {a.name : a \in Listed(dir)}
  BY <1>6, <1>7
<1>12. ASSUME NEW a \in Listed(dir), a.name \in scan'.owed PROVE c2 <= a.offset
  <2>1. a.name \in scan.owed /\ a.name \notin T
    BY <1>6, <1>12
  <2>2. c <= a.offset
    BY <1>7, <2>1
  <2>3. ~ (a.offset < c2)
    BY <1>2, <2>1, <2>2
  <2> QED
    BY <1>3, <1>4, <2>3
<1>13. ASSUME NEW a \in Listed(dir), a.name \in scan'.done PROVE a.offset < c2
  <2>1. CASE a.name \in scan.done
    BY <1>2, <1>3, <1>4, <1>7, <2>1
  <2>2. CASE a.name \in T
    BY <1>2, <1>3, <2>2
  <2> QED
    BY <1>6, <1>13, <2>1, <2>2
<1>14. dir' = dir
  BY <1>5
<1> QED
  BY <1>8, <1>10, <1>11, <1>12, <1>13, <1>14 DEF Followed, c2

LEMMA RewindFollowed ==
  ASSUME Sound(dir), Rewind
  PROVE  Sound(dir') /\ Followed(dir', scan')
<1>1. scan' = [cookie |-> 0, owed |-> {Dot, DotDot} \cup Names(dir), done |-> {}, twice |-> FALSE] /\ dir' = dir
  BY DEF Rewind, From
<1>2. /\ \A a \in Listed(dir) : a.name \in All /\ a.offset \in Nat
      /\ {a.name : a \in Listed(dir)} = {Dot, DotDot} \cup Names(dir)
  BY ListedIs
<1>3. 0 \in 0 .. BlockSize
  BY SizesNat
<1>4. /\ scan'.cookie = 0 /\ scan'.owed = {a.name : a \in Listed(dir)} /\ scan'.done = {} /\ ~ scan'.twice
      /\ scan' \in Scan
  <2>1. {a.name : a \in Listed(dir)} \in SUBSET All
    BY <1>2
  <2> QED
    BY <1>1, <1>2, <1>3, <2>1 DEF Scan
<1>5. \A a \in Listed(dir) : 0 <= a.offset
  BY <1>2
<1> QED
  BY <1>1, <1>4, <1>5 DEF Followed

\* Another directory with the same offsets for the names that are followed.
LEMMA ChangeFollowed ==
  ASSUME NEW d, Followed(d, scan), NEW d2, NEW s, s \in Scan,
         s.cookie = scan.cookie, s.twice = scan.twice, s.owed \subseteq scan.owed, s.done \subseteq scan.done,
         s.owed \cup s.done \subseteq {a.name : a \in Listed(d2)},
         \A a \in Listed(d2) : a.name \in scan.owed \cup scan.done
            => \E b \in Listed(d) : b.name = a.name /\ b.offset = a.offset
  PROVE  Followed(d2, s)
<1>1. ~ s.twice
  BY DEF Followed
<1>2. ASSUME NEW a \in Listed(d2), a.name \in s.owed PROVE s.cookie <= a.offset
  <2>1. PICK b \in Listed(d) : b.name = a.name /\ b.offset = a.offset
    BY <1>2
  <2> QED
    BY <1>2, <2>1 DEF Followed
<1>3. ASSUME NEW a \in Listed(d2), a.name \in s.done PROVE a.offset < s.cookie
  <2>1. PICK b \in Listed(d) : b.name = a.name /\ b.offset = a.offset
    BY <1>3
  <2> QED
    BY <1>3, <2>1 DEF Followed
<1> QED
  BY <1>1, <1>2, <1>3 DEF Followed

LEMMA AddNameFollowed ==
  ASSUME Sound(dir), Followed(dir, scan), NEW n \in Name, NEW ino \in Ino, AddName(n, ino),
         UNCHANGED scan
  PROVE  Sound(dir') /\ Followed(dir', scan')
<1>1. Sound(dir') /\ n \notin Names(dir) /\ Puts(dir, dir', n, ino)
  BY AddNameSound
<1>2. PICK e \in Entry : e.name = n /\ Entries(dir') = Entries(dir) \cup {e}
  BY <1>1, PutsOne
<1>3. Listed(dir') = Listed(dir) \cup {e}
  BY <1>2 DEF Listed
<1>4. n \notin {a.name : a \in Listed(dir)}
  BY <1>1, ListedIs, DotAssumption, DirAssumption
<1>5. scan.owed \cup scan.done \subseteq {a.name : a \in Listed(dir)} /\ scan \in Scan
  BY DEF Followed
<1>6. Followed(dir', scan)
  BY <1>2, <1>3, <1>4, <1>5, ChangeFollowed
<1> QED
  BY <1>1, <1>6

LEMMA RemoveNameFollowed ==
  ASSUME PutsOffset, Sound(dir), Followed(dir, scan), NEW n \in Name, RemoveName(n),
         scan' = [scan EXCEPT !.owed = @ \ {n}, !.done = @ \ {n}]
  PROVE  Sound(dir') /\ Followed(dir', scan')
<1>1. Sound(dir') /\ Takes(dir, dir', n)
  BY RemoveNameSound
<1>2. PICK e \in Entries(dir) : e.name = n /\ Entries(dir') = Entries(dir) \ {e}
  BY <1>1, TakesThat
<1>3. n # Dot /\ n # DotDot
  BY DotAssumption, DirAssumption
<1>4. Listed(dir') = Listed(dir) \ {e} /\ e \in Listed(dir)
  <2>1. e \notin DotEntries
    BY <1>2, <1>3 DEF DotEntries
  <2> QED
    BY <1>2, <2>1 DEF Listed
<1>5. scan.owed \cup scan.done \subseteq {a.name : a \in Listed(dir)} /\ scan \in Scan
  BY DEF Followed
<1> DEFINE s == [scan EXCEPT !.owed = scan.owed \ {n}, !.done = scan.done \ {n}]
<1>6. /\ s.cookie = scan.cookie /\ s.twice = scan.twice /\ s.owed = scan.owed \ {n}
      /\ s.done = scan.done \ {n} /\ s \in Scan
  BY <1>5 DEF Scan
<1>7. scan' = s
  OBVIOUS
<1> HIDE DEF s
<1>8. s.owed \cup s.done \subseteq {a.name : a \in Listed(dir')}
  BY <1>2, <1>4, <1>5, <1>6
<1>9. Followed(dir', s)
  BY <1>4, <1>6, <1>8, ChangeFollowed
<1> QED
  BY <1>1, <1>7, <1>9

LEMMA ReplaceFollowed ==
  ASSUME Sound(dir), Followed(dir, scan), NEW n \in Name \cup {DotDot}, NEW ino \in Ino, Replace(n, ino),
         UNCHANGED scan
  PROVE  Sound(dir') /\ Followed(dir', scan')
<1>1. Sound(dir') /\ Sets(dir, dir', n, ino)
  BY ReplaceSound
<1>2. scan.owed \cup scan.done \subseteq {a.name : a \in Listed(dir)} /\ scan \in Scan
  BY DEF Followed
<1>3. CASE n # DotDot /\ n \in Names(dir)
  <2>1. PICK e \in Entries(dir), x \in Entry :
          /\ e.name = n /\ x.name = n /\ x.offset = e.offset
          /\ Entries(dir') = (Entries(dir) \ {e}) \cup {x}
    BY <1>1, <1>3, SetsOne
  <2>2. e \in Listed(dir) /\ x \in Listed(dir')
    BY <2>1 DEF Listed
  <2>3. \A a \in Listed(dir') : a = x \/ a \in Listed(dir)
    BY <2>1 DEF Listed
  <2>4. \A a \in Listed(dir) : a = e \/ a \in Listed(dir')
    BY <2>1 DEF Listed
  <2>5. scan.owed \cup scan.done \subseteq {a.name : a \in Listed(dir')}
    BY <1>2, <2>1, <2>2, <2>4
  <2>6. Followed(dir', scan)
    BY <1>2, <2>1, <2>2, <2>3, <2>5, ChangeFollowed
  <2> QED
    BY <1>1, <2>6
<1>4. CASE n = DotDot \/ n \notin Names(dir)
  <2>1. Listed(dir') = Listed(dir)
    BY <1>1, <1>4, SetsNone DEF Listed
  <2> QED
    BY <1>1, <2>1 DEF Followed
<1> QED
  BY <1>3, <1>4

LEMMA ScanInitFollowed ==
  ASSUME ScanInit
  PROVE  Sound(dir) /\ Followed(dir, scan)
<1>1. Sound(dir)
  BY InitSound DEF ScanInit
<1>2. scan = [cookie |-> 0, owed |-> {Dot, DotDot}, done |-> {}, twice |-> FALSE]
  BY DEF ScanInit, From
<1>3. /\ \A a \in Listed(dir) : a.name \in All /\ a.offset \in Nat
      /\ {a.name : a \in Listed(dir)} = {Dot, DotDot} \cup Names(dir)
  BY <1>1, ListedIs
<1>4. scan \in Scan
  <2>1. {Dot, DotDot} \in SUBSET All /\ 0 \in 0 .. BlockSize
    BY SizesNat DEF All
  <2> QED
    BY <1>2, <2>1 DEF Scan
<1>5. \A a \in Listed(dir) : 0 <= a.offset
  BY <1>3
<1> QED
  BY <1>1, <1>2, <1>3, <1>4, <1>5 DEF Followed

LEMMA AlwaysFollowed == ASSUME PutsOffset PROVE ScanSpec => [](Sound(dir) /\ Followed(dir, scan))
<1>1. ScanInit => Sound(dir) /\ Followed(dir, scan)
  BY ScanInitFollowed
<1>2. Sound(dir) /\ Followed(dir, scan) /\ [ScanNext]_vars => (Sound(dir) /\ Followed(dir, scan))'
  <2> SUFFICES ASSUME Sound(dir), Followed(dir, scan), [ScanNext]_vars PROVE Sound(dir') /\ Followed(dir', scan')
    OBVIOUS
  <2>1. CASE Read
    BY <2>1, GetDentsFollowed DEF Read
  <2>2. CASE ReadNone
    <3>1. PICK m \in 1 .. Len(dir.entries) + 2 : GetDents(m)
      BY <2>2 DEF ReadNone
    <3>2. m \in 1 .. Len(dir.entries) + 3
      BY DirFields DEF Sound
    <3> QED
      BY <3>1, <3>2, GetDentsFollowed
  <2>3. CASE Rewind
    BY <2>3, RewindFollowed
  <2>4. CASE \E n \in Name, ino \in Ino : AddName(n, ino) /\ UNCHANGED scan
    BY <2>4, AddNameFollowed
  <2>5. CASE \E n \in Name : /\ RemoveName(n)
                             /\ scan' = [scan EXCEPT !.owed = @ \ {n}, !.done = @ \ {n}]
    BY <2>5, RemoveNameFollowed
  <2>6. CASE \E n \in Name \cup {DotDot}, ino \in Ino : Replace(n, ino) /\ UNCHANGED scan
    BY <2>6, ReplaceFollowed
  <2>7. CASE UNCHANGED vars
    BY <2>7 DEF vars
  <2> QED
    BY <2>1, <2>2, <2>3, <2>4, <2>5, <2>6, <2>7 DEF ScanNext, Change
<1> QED
  BY <1>1, <1>2, PTL DEF ScanSpec

\* A name that is there while getdents goes from the start of the directory to
\* its end is told exactly once, whatever else is added, removed, replaced, widened
\* and converted between two calls.
THEOREM AlwaysToldOnce == ASSUME PutsOffset PROVE ScanSpec => []TellsOnce
<1>1. ASSUME Sound(dir), Followed(dir, scan) PROVE TellsOnce
  <2>1. ASSUME scan.cookie = PastEnd PROVE scan.owed = {}
    <3>1. \A a \in Listed(dir) : a.offset \in Nat /\ a.offset < BlockSize
      BY <1>1, ListedIs, ListedBefore
    <3>2. BlockSize \in Nat
      BY SizesNat
    <3>3. \A a \in Listed(dir) : a.name \notin scan.owed
      BY <1>1, <2>1, <3>1, <3>2 DEF Followed, PastEnd
    <3> QED
      BY <1>1, <3>3 DEF Followed
  <2> QED
    BY <1>1, <2>1 DEF TellsOnce, Followed
<1>2. Sound(dir) /\ Followed(dir, scan) => TellsOnce
  BY <1>1
<1> QED
  BY <1>2, AlwaysFollowed, PTL
=============================================================================
