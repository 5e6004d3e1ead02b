--------------------------- MODULE FlashImageProofs --------------------------
(***************************************************************************)
(* Theorems about FlashImage, for every size of sectors, blocks and words. *)
(* calc_erase_size makes up for the ROM.  MD5Update and MD5Final make of a *)
(* message the blocks RFC 1321 defines, whatever its pieces, and different *)
(* messages have different blocks; so flash_verify tells whether the flash *)
(* holds what was hashed, which is the image or a longer message.          *)
(***************************************************************************)
EXTENDS FlashImage, Integers, SequenceTheorems, TLAPS

(* calc_erase_size *)

LEMMA HeadPositive == \A o \in Nat : HeadSectors(o) \in Nat \ {0}
  BY SectorAssumption DEF HeadSectors

LEMMA SectorsType == \A bytes \in Nat : Sectors(bytes) \in Nat
  BY SectorAssumption DEF Sectors

\* The sectors asked for, together with those the ROM adds, are those needed,
\* or one more.
LEMMA AskedPlusExtra ==
  ASSUME NEW num \in Nat, NEW head \in Nat \ {0}, ShortOrLong(num, head)
  PROVE  RomErases(SectorsAsked(num, head), head) \in num .. num + 1
  BY DEF ShortOrLong, SectorsAsked, RomErases

LEMMA AskedType == \A num \in Nat, head \in Nat \ {0} : SectorsAsked(num, head) \in Nat
  BY DEF SectorsAsked

LEMMA DivBounds ==
  ASSUME NEW x \in Nat, NEW s \in Nat \ {0}
  PROVE  x \div s \in Int /\ s * (x \div s) <= x /\ x < s * (x \div s) + s
  <1>1. x \div s \in Int
    OBVIOUS
  <1>2. s * (x \div s) <= x
    OBVIOUS
  <1>3. x < s * (x \div s) + s
    OBVIOUS
  <1> QED
    BY <1>1, <1>2, <1>3

\* Rounding up to sectors gives back a whole number of sectors.
LEMMA SectorsOfWhole ==
  ASSUME NEW k \in Nat
  PROVE  k * SectorSize \in Nat /\ Sectors(k * SectorSize) = k
  <1> DEFINE s == SectorSize
             q == (k * s + s - 1) \div s
  <1>1. s \in Nat \ {0}
    BY SectorAssumption
  <1>2. k * s \in Nat
    BY <1>1
  <1>3. q \in Int /\ s * q <= k * s + s - 1 /\ k * s + s - 1 < s * q + s
    <2> DEFINE x == k * s + s - 1
    <2>1. x \in Nat
      BY <1>1, <1>2
    <2> HIDE DEF x
    <2>2. x \div s \in Int /\ s * (x \div s) <= x /\ x < s * (x \div s) + s
      BY <1>1, <2>1, DivBounds
    <2> QED
      BY <2>2 DEF x
  <1>4. ASSUME NEW a \in Int, NEW b \in Int, a < b
        PROVE  s * a + s <= s * b
    <2>1. b - a - 1 \in Nat
      BY <1>4
    <2>2. s * (b - a - 1) >= 0
      BY <1>1, <2>1
    <2> QED
      BY <1>1, <2>2
  <1>5. ~(q < k)
    BY <1>1, <1>2, <1>3, <1>4
  <1>6. ~(k < q)
    BY <1>1, <1>2, <1>3, <1>4
  <1> QED
    BY <1>2, <1>3, <1>5, <1>6 DEF Sectors

\* What is erased follows from what was asked for; with it EraseTight is inductive.
ErasedAsAsked ==
  /\ Len(image) \in Nat /\ offset \in Nat /\ buggyRom \in BOOLEAN
  /\ phase # "start" =>
       erased = ErasedSectors(buggyRom, offset, CalcEraseSize(buggyRom, offset, Len(image)))

LEMMA ErasedIsTight == ErasedAsAsked => EraseTight
  <1> SUFFICES ASSUME ErasedAsAsked, phase # "start", Erasable
               PROVE  erased \in Sectors(Len(image)) .. Sectors(Len(image)) + 1
    BY DEF EraseTight
  <1> DEFINE num   == Sectors(Len(image))
             head  == HeadSectors(offset)
             asked == CalcEraseSize(buggyRom, offset, Len(image))
  <1>1. num \in Nat /\ head \in Nat \ {0} /\ erased = ErasedSectors(buggyRom, offset, asked)
    BY SectorsType, HeadPositive DEF ErasedAsAsked
  <1>2. CASE buggyRom
    <2>1. ShortOrLong(num, head)
      BY <1>2 DEF Erasable
    <2>2. asked = SectorsAsked(num, head) * SectorSize
      BY <1>2 DEF CalcEraseSize
    <2>3. Sectors(asked) = SectorsAsked(num, head)
      BY <1>1, <2>2, AskedType, SectorsOfWhole
    <2>4. erased = RomErases(SectorsAsked(num, head), head)
      BY <1>1, <1>2, <2>3 DEF ErasedSectors
    <2> QED
      BY <1>1, <2>1, <2>4, AskedPlusExtra
  <1>3. CASE ~buggyRom
    <2>1. erased = num
      BY <1>1, <1>3 DEF ErasedSectors, CalcEraseSize
    <2> QED
      BY <1>1, <2>1
  <1> QED
    BY <1>2, <1>3

LEMMA ImageLength == ASSUME NEW n \in Nat, NEW f \in [1 .. n -> Byte] PROVE Len(f) \in Nat
  <1>1. f \in Seq(Byte)
    BY DEF Byte
  <1> QED
    BY <1>1

\* Whatever the sector and block sizes, an image that ends before its first
\* block does or is at least twice as long as the rest of that block is erased
\* completely, with at most one sector to spare.
THEOREM EraseIsTight == Spec => []EraseTight
  <1>1. Init => ErasedAsAsked
    <2> SUFFICES ASSUME Init PROVE ErasedAsAsked
      OBVIOUS
    <2>1. PICK n \in 0 .. MaxImage : image \in [1 .. n -> Byte]
      BY DEF Init
    <2>2. Len(image) \in Nat
      BY <2>1, ImageBounds, ImageLength
    <2> QED
      BY <2>2, ImageBounds DEF Init, ErasedAsAsked
  <1>2. ErasedAsAsked /\ [Next]_vars => ErasedAsAsked'
    <2> SUFFICES ASSUME ErasedAsAsked, [Next]_vars PROVE ErasedAsAsked'
      OBVIOUS
    <2>1. CASE FlashStart
      BY <2>1 DEF FlashStart, client, ErasedAsAsked
    <2>2. ASSUME NEW size \in 1 .. MaxImage, NEW behind \in Byte, FlashWrite(size, behind)
          PROVE  ErasedAsAsked'
      BY <2>2 DEF FlashWrite, client, ErasedAsAsked
    <2>3. CASE FlashVerify
      BY <2>3 DEF FlashVerify, client, ErasedAsAsked
    <2>4. CASE UNCHANGED vars
      BY <2>4 DEF vars, client, ErasedAsAsked
    <2> QED
      BY <2>1, <2>2, <2>3, <2>4 DEF Next
  <1> QED
    BY <1>1, <1>2, ErasedIsTight, PTL DEF Spec

-----------------------------------------------------------------------------
(* Quotients and remainders *)

LEMMA DivMod ==
  ASSUME NEW n \in Nat, NEW d \in Nat \ {0}
  PROVE  n \div d \in Nat /\ n % d \in 0 .. d - 1 /\ n = d * (n \div d) + (n % d)
OBVIOUS

\* There is one way to write a number as a multiple and a remainder.
LEMMA OneWay ==
  ASSUME NEW d \in Nat \ {0}, NEW q \in Nat, NEW r \in 0 .. d - 1
  PROVE  (d * q + r) \div d = q /\ (d * q + r) % d = r
<1> DEFINE n == d * q + r
           k == n \div d
           s == n % d
<1>1. n \in Nat
  BY SMT
<1>2. k \in Nat /\ s \in 0 .. d - 1 /\ n = d * k + s
  <2> HIDE DEF n
  <2> QED
    BY <1>1, DivMod
<1>3. n = d * q + r
  OBVIOUS
<1> HIDE DEF n, k, s
<1>4. d * (k - q) < d /\ d * (k - q) > -d
  BY <1>2, <1>3, SMT
<1>5. k - q \in Int
  BY <1>2, SMT
<1>6. k - q < 1 /\ k - q > -1
  BY <1>4, <1>5, SMT
<1>7. k = q
  BY <1>2, <1>6, SMT
<1>8. s = r
  BY <1>2, <1>3, <1>7, SMT
<1> QED
  BY <1>7, <1>8 DEF n, k, s

\* A multiple added changes the quotient and not the remainder.
LEMMA Shifted ==
  ASSUME NEW d \in Nat \ {0}, NEW k \in Nat, NEW n \in Nat
  PROVE  (d * k + n) \div d = k + (n \div d) /\ (d * k + n) % d = n % d
<1> DEFINE q == n \div d
           r == n % d
<1>1. q \in Nat /\ r \in 0 .. d - 1 /\ n = d * q + r
  BY DivMod
<1> HIDE DEF q, r
<1>2. d * k + n = d * (k + q) + r /\ k + q \in Nat
  BY <1>1, SMT
<1>3. (d * (k + q) + r) \div d = k + q /\ (d * (k + q) + r) % d = r
  BY <1>1, <1>2, OneWay
<1> QED
  BY <1>2, <1>3 DEF q, r

LEMMA RemainderOfSum ==
  ASSUME NEW d \in Nat \ {0}, NEW a \in Nat, NEW b \in Nat
  PROVE  ((a % d) + b) % d = (a + b) % d
<1> DEFINE q == a \div d
           r == a % d
<1>1. q \in Nat /\ r \in 0 .. d - 1 /\ a = d * q + r
  BY DivMod
<1> HIDE DEF q, r
<1>2. a + b = d * q + (r + b) /\ r + b \in Nat
  BY <1>1, SMT
<1>3. (d * q + (r + b)) % d = (r + b) % d
  BY <1>1, <1>2, Shifted
<1> QED
  BY <1>2, <1>3 DEF r

\* The two words of the bit counter are those of the sum.
LEMMA WordsOfSum ==
  ASSUME NEW w \in Nat \ {0}, NEW x \in Nat, NEW y \in Nat
  PROVE  LET low == ((x % w) + y) % w
             carry == IF low < x % w THEN 1 ELSE 0
         IN  /\ low = (x + y) % w
             /\ (((x \div w) % w) + carry + (y \div w)) % w = ((x + y) \div w) % w
<1> DEFINE low == ((x % w) + y) % w
           carry == IF low < x % w THEN 1 ELSE 0
           p == x \div w
           r == x % w
           q == y \div w
           s == y % w
<1>1. low = (x + y) % w
  BY RemainderOfSum
<1>2. p \in Nat /\ r \in 0 .. w - 1 /\ x = w * p + r
  BY DivMod
<1>3. q \in Nat /\ s \in 0 .. w - 1 /\ y = w * q + s
  BY DivMod
<1> DEFINE c == IF r + s < w THEN 0 ELSE 1
           m == r + s - w * c
<1>4. c \in Nat /\ m \in 0 .. w - 1 /\ (m < r <=> c = 1)
  BY <1>2, <1>3, SMT
<1> HIDE DEF m
<1>5. x + y = w * (p + q + c) + m /\ p + q + c \in Nat
  <2>1. m = r + s - w * c
    BY DEF m
  <2> HIDE DEF c, p, q, r, s
  <2> QED
    BY <1>2, <1>3, <1>4, <2>1, SMT
<1>6. (w * (p + q + c) + m) \div w = p + q + c /\ (w * (p + q + c) + m) % w = m
  BY <1>4, <1>5, OneWay
<1>7. low = m /\ carry = c
  BY <1>1, <1>4, <1>5, <1>6
<1>8. ((p % w) + (c + q)) % w = (p + (c + q)) % w
  <2>1. p \in Nat /\ c + q \in Nat
    BY <1>2, <1>3, <1>4
  <2> HIDE DEF c, p, q
  <2> QED
    BY <2>1, RemainderOfSum
<1>9. (p % w) \in Nat /\ (p % w) + c + q = (p % w) + (c + q) /\ p + (c + q) = p + q + c
  <2>1. p % w \in 0 .. w - 1
    BY <1>2, DivMod
  <2> QED
    BY <1>2, <1>3, <1>4, <2>1
<1>10. (((x \div w) % w) + carry + (y \div w)) % w = ((x + y) \div w) % w
  BY <1>5, <1>6, <1>7, <1>8, <1>9
<1> QED
  BY <1>1, <1>10

-----------------------------------------------------------------------------
(* The blocks of a message *)

Message == Seq(Nat)

Cut(message, k) == [i \in 1 .. BlockLen |-> message[BlockLen * k + i]]
Cuts(message, n) == [j \in 1 .. n |-> Raw(Cut(message, j - 1))]

RawBlock == [bytes : [1 .. BlockLen -> Nat], length : {<<>>}]

LEMMA BlockLenType == BlockLen \in Nat \ {0} /\ LengthLen \in 1 .. BlockLen - 1
  BY BlockAssumption

\* A part of a message, by the place before it and its length.
LEMMA Part ==
  ASSUME NEW s \in Message, NEW a \in Nat, NEW n \in Nat, a + n <= Len(s)
  PROVE  /\ SubSeq(s, a + 1, a + n) \in Message /\ Len(SubSeq(s, a + 1, a + n)) = n
         /\ SubSeq(s, a + 1, a + n) = [i \in 1 .. n |-> s[a + i]]
<1> DEFINE r == SubSeq(s, a + 1, a + n)
<1>1. \A i \in a + 1 .. a + n : s[i] \in Nat
  BY DEF Message
<1>2. r \in Seq(Nat) /\ Len(r) = n /\ \A i \in 1 .. n : r[i] = s[a + i]
  <2>1. r \in Seq(Nat) /\ Len(r) = n
    BY <1>1, SubSeqProperties
  <2>2. \A i \in 1 .. (a + n) - (a + 1) + 1 : r[i] = s[(a + 1) + i - 1]
    BY <1>1, SubSeqProperties
  <2> QED
    BY <2>1, <2>2
<1> HIDE DEF r
<1>3. r = [i \in 1 .. n |-> s[a + i]]
  BY <1>2
<1> QED
  BY <1>2, <1>3 DEF r, Message

LEMMA CutType ==
  ASSUME NEW s \in Message, NEW k \in Nat, BlockLen * k + BlockLen <= Len(s)
  PROVE  Cut(s, k) \in [1 .. BlockLen -> Nat]
<1>1. BlockLen * k \in Nat /\ BlockLen \in Nat
  BY BlockLenType, SMT
<1> DEFINE b == BlockLen * k
<1>2. b \in Nat /\ b + BlockLen <= Len(s)
  BY <1>1
<1> HIDE DEF b
<1>3. [i \in 1 .. BlockLen |-> s[b + i]] \in [1 .. BlockLen -> Nat]
  BY <1>1, <1>2 DEF Message
<1> QED
  BY <1>3 DEF Cut, b

LEMMA BlockOf ==
  ASSUME NEW s \in Message, NEW j \in Nat \ {0}, BlockLen * j <= Len(s)
  PROVE  SubSeq(s, (j - 1) * BlockLen + 1, j * BlockLen) = Cut(s, j - 1)
<1> DEFINE a == BlockLen * (j - 1)
<1>1. BlockLen \in Nat /\ a \in Nat /\ (j - 1) * BlockLen = a /\ j * BlockLen = a + BlockLen
      /\ a + BlockLen <= Len(s)
  BY BlockLenType, SMT
<1> HIDE DEF a
<1>2. SubSeq(s, a + 1, a + BlockLen) = [i \in 1 .. BlockLen |-> s[a + i]]
  BY <1>1, Part
<1>3. Cut(s, j - 1) = [i \in 1 .. BlockLen |-> s[a + i]]
  BY DEF Cut, a
<1> QED
  BY <1>1, <1>2, <1>3

\* A block of the front of a message, and one behind a front of whole blocks.
LEMMA CutBefore ==
  ASSUME NEW s \in Message, NEW r \in Message, NEW k \in Nat, BlockLen * k + BlockLen <= Len(s)
  PROVE  Cut(s \o r, k) = Cut(s, k)
<1> DEFINE b == BlockLen * k
<1>1. b \in Nat /\ BlockLen \in Nat /\ b + BlockLen <= Len(s)
  BY BlockLenType, SMT
<1> HIDE DEF b
<1>2. \A i \in 1 .. BlockLen : (s \o r)[b + i] = s[b + i]
  BY <1>1 DEF Message
<1> QED
  BY <1>2 DEF Cut, b

LEMMA CutBehind ==
  ASSUME NEW s \in Message, NEW r \in Message, NEW k \in Nat, NEW p \in Nat,
         Len(s) = BlockLen * p, BlockLen * k + BlockLen <= Len(r)
  PROVE  Cut(s \o r, p + k) = Cut(r, k)
<1> DEFINE b == BlockLen * k
           e == BlockLen * p
<1>1. b \in Nat /\ e \in Nat /\ BlockLen \in Nat /\ b + BlockLen <= Len(r) /\ Len(s) = e
  BY BlockLenType, SMT
<1>2. BlockLen * (p + k) = e + b
  BY BlockLenType, SMT
<1> HIDE DEF b, e
<1>3. \A i \in 1 .. BlockLen : (s \o r)[e + b + i] = r[b + i]
  BY <1>1 DEF Message
<1> QED
  BY <1>2, <1>3 DEF Cut, b

LEMMA CutsType ==
  ASSUME NEW s \in Message, NEW n \in Nat, BlockLen * n <= Len(s)
  PROVE  /\ Cuts(s, n) \in Seq(RawBlock) /\ Len(Cuts(s, n)) = n
         /\ \A j \in 1 .. n : Cuts(s, n)[j] = Raw(Cut(s, j - 1))
<1>1. ASSUME NEW j \in 1 .. n PROVE Raw(Cut(s, j - 1)) \in RawBlock
  <2>1. j - 1 \in Nat /\ BlockLen * (j - 1) + BlockLen <= Len(s)
    <3>1. BlockLen * (j - 1) + BlockLen = BlockLen * j /\ BlockLen * j <= BlockLen * n
      BY BlockLenType, SMT
    <3>2. BlockLen * n \in Nat /\ BlockLen * j \in Nat /\ Len(s) \in Nat
      BY BlockLenType, SMT DEF Message
    <3> QED
      BY <3>1, <3>2
  <2>2. Cut(s, j - 1) \in [1 .. BlockLen -> Nat]
    BY <2>1, CutType
  <2> QED
    BY <2>2 DEF Raw, RawBlock
<1> QED
  BY <1>1 DEF Cuts

\* The blocks of a message that is continued, when it ended at the end of a block.
LEMMA CutsOfCat ==
  ASSUME NEW s \in Message, NEW r \in Message, NEW p \in Nat, NEW w \in Nat,
         Len(s) = BlockLen * p, BlockLen * w <= Len(r)
  PROVE  Cuts(s \o r, p + w) = Cuts(s, p) \o Cuts(r, w)
<1>0. s \o r \in Message /\ Len(s \o r) = Len(s) + Len(r)
  BY ConcatProperties DEF Message
<1>1. BlockLen * (p + w) <= Len(s \o r)
  <2>1. BlockLen * (p + w) = BlockLen * p + BlockLen * w
    BY BlockLenType, SMT
  <2>2. BlockLen * w \in Nat /\ Len(r) \in Nat /\ BlockLen * p \in Nat
    BY BlockLenType, SMT DEF Message
  <2> QED
    BY <1>0, <2>1, <2>2
<1>2. BlockLen * p <= Len(s) /\ p + w \in Nat
  BY BlockLenType, SMT
<1> DEFINE a == Cuts(s, p)
           b == Cuts(r, w)
           c == Cuts(s \o r, p + w)
<1>3. a \in Seq(RawBlock) /\ Len(a) = p /\ \A j \in 1 .. p : a[j] = Raw(Cut(s, j - 1))
  BY <1>2, CutsType
<1>4. b \in Seq(RawBlock) /\ Len(b) = w /\ \A j \in 1 .. w : b[j] = Raw(Cut(r, j - 1))
  BY CutsType
<1>5. c \in Seq(RawBlock) /\ Len(c) = p + w /\ \A j \in 1 .. p + w : c[j] = Raw(Cut(s \o r, j - 1))
  BY <1>0, <1>1, <1>2, CutsType
<1> HIDE DEF a, b, c
<1>6. ASSUME NEW j \in 1 .. p PROVE c[j] = a[j]
  <2>1. j - 1 \in Nat /\ BlockLen * (j - 1) + BlockLen <= Len(s)
    BY BlockLenType, SMT
  <2>2. Cut(s \o r, j - 1) = Cut(s, j - 1)
    BY <2>1, CutBefore
  <2> QED
    BY <1>3, <1>5, <2>2
<1>7. ASSUME NEW j \in 1 .. w PROVE c[p + j] = b[j]
  <2>1. j - 1 \in Nat /\ BlockLen * (j - 1) + BlockLen <= Len(r)
    <3>1. BlockLen * (j - 1) + BlockLen = BlockLen * j /\ BlockLen * j <= BlockLen * w
      BY BlockLenType, SMT
    <3>2. BlockLen * w \in Nat /\ BlockLen * j \in Nat /\ Len(r) \in Nat
      BY BlockLenType, SMT DEF Message
    <3> QED
      BY <3>1, <3>2
  <2>2. Cut(s \o r, p + (j - 1)) = Cut(r, j - 1)
    BY <2>1, CutBehind
  <2>3. p + j \in 1 .. p + w /\ (p + j) - 1 = p + (j - 1)
    OBVIOUS
  <2>4. c[p + j] = Raw(Cut(s \o r, p + (j - 1)))
    BY <1>5, <2>3
  <2> QED
    BY <1>4, <2>2, <2>4
<1>8. a \o b \in Seq(RawBlock) /\ Len(a \o b) = p + w
  BY <1>3, <1>4, ConcatProperties
<1>9. ASSUME NEW j \in 1 .. p + w PROVE c[j] = (a \o b)[j]
  <2>0. (a \o b)[j] = IF j <= p THEN a[j] ELSE b[j - p]
    BY <1>3, <1>4, ConcatProperties
  <2>1. CASE j <= p
    BY <1>6, <2>0, <2>1
  <2>2. CASE ~(j <= p)
    <3>1. j - p \in 1 .. w /\ p + (j - p) = j
      BY <2>2
    <3>2. c[j] = b[j - p]
      BY <1>7, <3>1
    <3> QED
      BY <2>0, <2>2, <3>2
  <2> QED
    BY <2>1, <2>2
<1>10. c = a \o b
  BY <1>5, <1>8, <1>9, SeqEqual
<1> QED
  BY <1>10 DEF a, b, c

-----------------------------------------------------------------------------
(* MD5Update *)

\* A context that was fed the message, in pieces of any length.
Holds(ctx, message) ==
  LET whole == Len(message) \div BlockLen
  IN
  /\ ctx = [in |-> ctx.in, bits |-> ctx.bits, blocks |-> ctx.blocks]
  /\ ctx.bits = BitLength(message)
  /\ ctx.blocks = Cuts(message, whole)
  /\ ctx.in \in [1 .. BlockLen -> Nat]
  /\ \A i \in 1 .. Len(message) % BlockLen : ctx.in[i] = message[BlockLen * whole + i]

LEMMA LenType == \A s \in Message : Len(s) \in Nat
  BY DEF Message

\* A word of the bit counter holds a whole number of blocks.
LEMMA WordIsWhole == \E k \in Nat \ {0} : WordValues = 8 * (BlockLen * k)
<1> DEFINE d == 8 * BlockLen
           k == WordValues \div d
<1>1. d \in Nat \ {0} /\ WordValues \in Nat \ {0} /\ WordValues % d = 0
  BY BlockLenType, WordAssumption
<1>2. k \in Nat /\ WordValues = d * k
  <2> HIDE DEF d
  <2>1. WordValues = d * (WordValues \div d) + (WordValues % d) /\ WordValues \div d \in Nat
    BY <1>1, DivMod
  <2> QED
    BY <1>1, <2>1
<1> HIDE DEF k
<1>3. WordValues = 8 * (BlockLen * k)
  BY <1>2, BlockLenType, SMT
<1>4. k # 0
  BY <1>1, <1>3, BlockLenType
<1> QED
  BY <1>2, <1>3, <1>4

\* The bit counter tells how far the block is filled.
LEMMA WaitingIs ==
  ASSUME NEW s \in Message
  PROVE  Waiting(BitLength(s)) = Len(s) % BlockLen
<1>1. PICK k \in Nat \ {0} : WordValues = 8 * (BlockLen * k)
  BY WordIsWhole
<1> DEFINE n == Len(s)
           m == BlockLen * k
           c == n \div m
           r == n % m
<1>2. n \in Nat /\ m \in Nat \ {0}
  BY LenType, BlockLenType, SMT
<1>3. c \in Nat /\ r \in 0 .. m - 1 /\ n = m * c + r
  <2> HIDE DEF n, m
  <2> QED
    BY <1>2, DivMod
<1>4. WordValues = 8 * m
  BY <1>1
<1>5. m * c = BlockLen * (k * c) /\ k * c \in Nat
  <2> HIDE DEF c
  <2> QED
    BY <1>3, BlockLenType, SMT
<1> HIDE DEF n, m, c, r
<1>6. 8 * n = WordValues * c + 8 * r /\ 8 * r \in 0 .. WordValues - 1
  BY <1>2, <1>3, <1>4, SMT
<1>7. (8 * n) % WordValues = 8 * r
  <2>1. WordValues \in Nat \ {0}
    BY WordAssumption
  <2>2. (WordValues * c + 8 * r) % WordValues = 8 * r
    BY <1>3, <1>6, <2>1, OneWay
  <2> QED
    BY <1>6, <2>2
<1>8. (8 * r) \div 8 = r
  BY <1>2, <1>3
<1>9. r % BlockLen = n % BlockLen
  <2> DEFINE l == k * c
  <2>1. l \in Nat /\ r \in Nat
    BY <1>2, <1>3, <1>5
  <2>2. (BlockLen * l + r) % BlockLen = r % BlockLen
    <3> HIDE DEF l
    <3> QED
      BY <2>1, BlockLenType, Shifted
  <2> QED
    BY <1>3, <1>5, <2>2
<1>10. BitLength(s)[1] = (8 * n) % WordValues
  BY DEF BitLength, n
<1> QED
  BY <1>7, <1>8, <1>9, <1>10 DEF Waiting, n

\* The bit counter counts the bits of both pieces, with the carry.
LEMMA CountIs ==
  ASSUME NEW s \in Message, NEW r \in Message
  PROVE  Count(BitLength(s), Len(r)) = BitLength(s \o r)
<1> DEFINE x == 8 * Len(s)
           y == 8 * Len(r)
           w == WordValues
           low == ((x % w) + y) % w
           carry == IF low < x % w THEN 1 ELSE 0
<1>1. x \in Nat /\ y \in Nat /\ 8 * Len(s \o r) = x + y /\ w \in Nat \ {0}
  BY LenType, WordAssumption, ConcatProperties DEF Message
<1>2. BitLength(s) = <<x % w, (x \div w) % w>>
  BY DEF BitLength
<1>3. BitLength(s \o r) = <<(x + y) % w, ((x + y) \div w) % w>>
  BY <1>1 DEF BitLength
<1>4. Count(BitLength(s), Len(r)) = <<low, (((x \div w) % w) + carry + (y \div w)) % w>>
  BY <1>2 DEF Count
<1>5. low = (x + y) % w /\ (((x \div w) % w) + carry + (y \div w)) % w = ((x + y) \div w) % w
  <2> HIDE DEF x, y, w
  <2> QED
    BY <1>1, WordsOfSum
<1> QED
  BY <1>3, <1>4, <1>5

\* What is copied into a block leaves it a block.
LEMMA OverlayType ==
  ASSUME NEW buffer \in [1 .. BlockLen -> Nat], NEW at \in Nat, NEW data \in Message
  PROVE  Overlay(buffer, at, data) \in [1 .. BlockLen -> Nat]
<1>1. ASSUME NEW i \in 1 .. BlockLen
      PROVE  (IF at < i /\ i <= at + Len(data) THEN data[i - at] ELSE buffer[i]) \in Nat
  <2>1. CASE at < i /\ i <= at + Len(data)
    <3>1. i - at \in 1 .. Len(data)
      BY <2>1, LenType, BlockLenType
    <3>2. data[i - at] \in Nat
      BY <3>1 DEF Message
    <3> QED
      BY <2>1, <3>2
  <2>2. CASE ~(at < i /\ i <= at + Len(data))
    BY <2>2
  <2> QED
    BY <2>1, <2>2
<1> QED
  BY <1>1 DEF Overlay

LEMMA Behind ==
  ASSUME NEW s \in Message, NEW r \in Message, NEW k \in 1 .. Len(r)
  PROVE  (s \o r)[Len(s) + k] = r[k]
<1>1. /\ Len(s) + k \in 1 .. Len(s) + Len(r) /\ ~(Len(s) + k <= Len(s))
      /\ (Len(s) + k) - Len(s) = k
  BY LenType
<1>2. \A i \in 1 .. Len(s) + Len(r) : (s \o r)[i] = IF i <= Len(s) THEN s[i] ELSE r[i - Len(s)]
  BY ConcatProperties DEF Message
<1> QED
  BY <1>1, <1>2

\* What follows whole blocks: as many blocks more as there are in it, and its rest.
LEMMA Continued ==
  ASSUME NEW s \in Message, NEW r \in Message, NEW p \in Nat, Len(s) = BlockLen * p
  PROVE  LET w == Len(r) \div BlockLen
             u == Len(r) % BlockLen
             tail == SubSeq(r, w * BlockLen + 1, Len(r))
         IN  /\ w \in Nat /\ u \in 0 .. BlockLen - 1 /\ BlockLen * w <= Len(r)
             /\ Len(s \o r) \div BlockLen = p + w /\ Len(s \o r) % BlockLen = u
             /\ Cuts(s \o r, p + w) = Cuts(s, p) \o Cuts(r, w)
             /\ tail \in Message /\ Len(tail) = u
             /\ \A i \in 1 .. u : tail[i] = (s \o r)[BlockLen * (p + w) + i]
<1> DEFINE n == Len(r)
           w == n \div BlockLen
           u == n % BlockLen
           a == BlockLen * w
           e == BlockLen * p
           tail == SubSeq(r, w * BlockLen + 1, n)
<1>1. w \in Nat /\ u \in 0 .. BlockLen - 1 /\ n = a + u /\ n \in Nat
  <2>1. n \in Nat
    BY LenType
  <2> HIDE DEF n
  <2> QED
    BY <2>1, BlockLenType, DivMod
<1>2. a \in Nat /\ e \in Nat /\ BlockLen * (p + w) = e + a /\ w * BlockLen = a
  <2> HIDE DEF w
  <2> QED
    BY <1>1, BlockLenType, SMT
<1>3. Len(s \o r) = e + n
  BY ConcatProperties DEF Message
<1>4. Len(s \o r) \div BlockLen = p + w /\ Len(s \o r) % BlockLen = u
  <2>1. (e + n) \div BlockLen = p + (n \div BlockLen) /\ (e + n) % BlockLen = n % BlockLen
    <3> HIDE DEF n
    <3> QED
      BY <1>1, BlockLenType, Shifted
  <2> QED
    BY <1>3, <2>1
<1>5. a <= n
  BY <1>1, <1>2
<1>6. Cuts(s \o r, p + w) = Cuts(s, p) \o Cuts(r, w)
  <2> HIDE DEF w
  <2> QED
    BY <1>1, <1>5, CutsOfCat
<1>7. tail \in Message /\ Len(tail) = u /\ tail = [i \in 1 .. u |-> r[a + i]]
  <2>1. u \in Nat /\ a + u <= Len(r)
    BY <1>1
  <2>2. tail = SubSeq(r, a + 1, a + u)
    BY <1>1, <1>2
  <2> HIDE DEF a, u, tail
  <2>3. a \in Nat
    BY <1>2
  <2>4. /\ SubSeq(r, a + 1, a + u) \in Message /\ Len(SubSeq(r, a + 1, a + u)) = u
        /\ SubSeq(r, a + 1, a + u) = [i \in 1 .. u |-> r[a + i]]
    BY <2>1, <2>3, Part
  <2> QED
    BY <2>2, <2>4
<1>8. \A i \in 1 .. u : r[a + i] = (s \o r)[(e + a) + i]
  <2> SUFFICES ASSUME NEW i \in 1 .. u PROVE r[a + i] = (s \o r)[(e + a) + i]
    OBVIOUS
  <2> HIDE DEF a, e, u, n, w
  <2>1. a + i \in 1 .. Len(r) /\ (e + a) + i = Len(s) + (a + i)
    BY <1>1, <1>2 DEF e, n
  <2>2. (s \o r)[Len(s) + (a + i)] = r[a + i]
    BY <2>1, Behind
  <2> QED
    BY <2>1, <2>2
<1> HIDE DEF a, e, u, n, w, tail
<1>9. \A i \in 1 .. u : tail[i] = (s \o r)[BlockLen * (p + w) + i]
  BY <1>1, <1>2, <1>7, <1>8
<1> QED
  BY <1>1, <1>4, <1>5, <1>6, <1>7, <1>9 DEF a, u, n, w, tail

\* A message is its front and its rest.
LEMMA Split ==
  ASSUME NEW data \in Message, NEW n \in 0 .. Len(data)
  PROVE  /\ SubSeq(data, 1, n) \in Message /\ Len(SubSeq(data, 1, n)) = n
         /\ \A i \in 1 .. n : SubSeq(data, 1, n)[i] = data[i]
         /\ SubSeq(data, n + 1, Len(data)) \in Message
         /\ SubSeq(data, 1, n) \o SubSeq(data, n + 1, Len(data)) = data
<1> DEFINE h == SubSeq(data, 1, n)
           r == SubSeq(data, n + 1, Len(data))
           m == Len(data) - n
<1>0. Len(data) \in Nat /\ n \in Nat /\ m \in Nat /\ 0 + n <= Len(data) /\ n + m = Len(data)
  BY LenType
<1>1. h \in Message /\ Len(h) = n /\ \A i \in 1 .. n : h[i] = data[i]
  <2>1. /\ SubSeq(data, 0 + 1, 0 + n) \in Message /\ Len(SubSeq(data, 0 + 1, 0 + n)) = n
        /\ SubSeq(data, 0 + 1, 0 + n) = [i \in 1 .. n |-> data[0 + i]]
    BY <1>0, Part
  <2> QED
    BY <1>0, <2>1
<1>2. r \in Message /\ Len(r) = m /\ \A i \in 1 .. m : r[i] = data[n + i]
  <2>1. /\ SubSeq(data, n + 1, n + m) \in Message /\ Len(SubSeq(data, n + 1, n + m)) = m
        /\ SubSeq(data, n + 1, n + m) = [i \in 1 .. m |-> data[n + i]]
    <3> HIDE DEF m
    <3> QED
      BY <1>0, Part
  <2> QED
    BY <1>0, <2>1
<1> HIDE DEF h, r
<1>3. h \o r \in Message /\ Len(h \o r) = Len(data)
      /\ \A i \in 1 .. Len(data) : (h \o r)[i] = IF i <= n THEN h[i] ELSE r[i - n]
  <2>1. h \o r \in Message /\ Len(h \o r) = Len(h) + Len(r)
        /\ \A i \in 1 .. Len(h) + Len(r) : (h \o r)[i] = IF i <= Len(h) THEN h[i] ELSE r[i - Len(h)]
    BY <1>1, <1>2, ConcatProperties DEF Message
  <2>2. Len(h) = n /\ Len(h) + Len(r) = Len(data)
    BY <1>0, <1>1, <1>2
  <2> QED
    BY <2>1, <2>2
<1>4. ASSUME NEW i \in 1 .. Len(data) PROVE (h \o r)[i] = data[i]
  <2>1. CASE i <= n
    BY <1>0, <1>1, <1>3, <2>1
  <2>2. CASE ~(i <= n)
    <3>1. i - n \in 1 .. m /\ n + (i - n) = i
      BY <1>0, <2>2
    <3>2. r[i - n] = data[i]
      BY <1>2, <3>1
    <3> QED
      BY <1>3, <2>2, <3>2
  <2> QED
    BY <2>1, <2>2
<1>5. h \o r = data
  BY <1>3, <1>4, SeqEqual DEF Message
<1> QED
  BY <1>1, <1>2, <1>5 DEF h, r

\* A block that the head of the new piece completes.
LEMMA Completed ==
  ASSUME NEW ctx, NEW s \in Message, NEW h \in Message, Holds(ctx, s),
         Len(s) % BlockLen # 0, Len(h) = BlockLen - (Len(s) % BlockLen)
  PROVE  LET q == Len(s) \div BlockLen
             first == Overlay(ctx.in, Len(s) % BlockLen, h)
         IN  /\ first \in [1 .. BlockLen -> Nat]
             /\ q + 1 \in Nat /\ Len(s \o h) = BlockLen * (q + 1)
             /\ ctx.blocks \o <<Raw(first)>> = Cuts(s \o h, q + 1)
<1> DEFINE n == Len(s)
           q == n \div BlockLen
           t == n % BlockLen
           e == BlockLen * q
           first == Overlay(ctx.in, t, h)
<1>1. n \in Nat /\ q \in Nat /\ t \in 0 .. BlockLen - 1 /\ n = e + t
  <2>1. n \in Nat
    BY LenType
  <2> HIDE DEF n
  <2> QED
    BY <2>1, BlockLenType, DivMod
<1>2. /\ ctx.blocks = Cuts(s, q) /\ ctx.in \in [1 .. BlockLen -> Nat]
      /\ \A i \in 1 .. t : ctx.in[i] = s[e + i]
  BY DEF Holds
<1>3. first \in [1 .. BlockLen -> Nat]
  <2>1. t \in Nat
    BY <1>1
  <2> HIDE DEF t
  <2> QED
    BY <1>2, <2>1, OverlayType
<1>4. e \in Nat /\ BlockLen * (q + 1) = e + BlockLen /\ BlockLen * q <= n
  <2> HIDE DEF q, n
  <2> QED
    BY <1>1, BlockLenType, SMT
<1>5. s \o h \in Message /\ Len(s \o h) = e + BlockLen
      /\ \A i \in 1 .. Len(s) + Len(h) : (s \o h)[i] = IF i <= Len(s) THEN s[i] ELSE h[i - Len(s)]
  <2>1. s \o h \in Message /\ Len(s \o h) = Len(s) + Len(h)
        /\ \A i \in 1 .. Len(s) + Len(h) : (s \o h)[i] = IF i <= Len(s) THEN s[i] ELSE h[i - Len(s)]
    BY ConcatProperties DEF Message
  <2>2. Len(s) + Len(h) = e + BlockLen
    <3> HIDE DEF e, t
    <3> QED
      BY <1>1, <1>4, BlockLenType DEF t
  <2> HIDE DEF e
  <2> QED
    BY <2>1, <2>2
<1>6. Cut(s \o h, q) = first
  <2>1. ASSUME NEW i \in 1 .. BlockLen PROVE (s \o h)[e + i] = first[i]
    <3>1. first[i] = IF t < i /\ i <= t + Len(h) THEN h[i - t] ELSE ctx.in[i]
      BY DEF Overlay
    <3> HIDE DEF e, t, first, n
    <3>2. CASE i <= t
      <4>1. e + i \in 1 .. Len(s) + Len(h) /\ e + i <= Len(s) /\ i \in 1 .. t
        BY <1>1, <1>4, <3>2, LenType DEF n
      <4>2. (s \o h)[e + i] = s[e + i]
        BY <1>5, <4>1
      <4>3. first[i] = ctx.in[i]
        BY <1>1, <3>1, <3>2
      <4> QED
        BY <1>2, <4>1, <4>2, <4>3
    <3>3. CASE ~(i <= t)
      <4>1. t < i /\ i <= t + Len(h) /\ i - t \in 1 .. Len(h) /\ Len(s) + (i - t) = e + i
        BY <1>1, <1>4, <3>3, LenType, BlockLenType DEF n, t
      <4>2. (s \o h)[Len(s) + (i - t)] = h[i - t]
        BY <4>1, Behind
      <4> QED
        BY <3>1, <4>1, <4>2
    <3> QED
      BY <3>2, <3>3
  <2>2. first = [i \in 1 .. BlockLen |-> first[i]]
    <3> HIDE DEF first
    <3> QED
      BY <1>3
  <2> QED
    BY <2>1, <2>2 DEF Cut
<1> DEFINE a == Cuts(s, q)
           c == Cuts(s \o h, q + 1)
           one == <<Raw(first)>>
<1>7. a \in Seq(RawBlock) /\ Len(a) = q /\ \A j \in 1 .. q : a[j] = Raw(Cut(s, j - 1))
  <2> HIDE DEF q
  <2> QED
    BY <1>1, <1>4, CutsType
<1>8. c \in Seq(RawBlock) /\ Len(c) = q + 1 /\ \A j \in 1 .. q + 1 : c[j] = Raw(Cut(s \o h, j - 1))
  <2>1. q + 1 \in Nat /\ BlockLen * (q + 1) <= Len(s \o h)
    BY <1>1, <1>4, <1>5, BlockLenType
  <2> HIDE DEF q
  <2> QED
    BY <1>5, <2>1, CutsType
<1>9. one \in Seq(RawBlock) /\ Len(one) = 1 /\ one[1] = Raw(first)
  <2>1. Raw(first) \in RawBlock
    BY <1>3 DEF Raw, RawBlock
  <2> HIDE DEF first
  <2> QED
    BY <2>1
<1> HIDE DEF a, c, one, first, q, t, e
<1>10. ASSUME NEW j \in 1 .. q PROVE c[j] = a[j]
  <2>1. j - 1 \in Nat /\ BlockLen * (j - 1) + BlockLen <= Len(s)
    <3>1. BlockLen * (j - 1) + BlockLen = BlockLen * j /\ BlockLen * j <= BlockLen * q
      BY <1>1, BlockLenType, SMT
    <3>2. BlockLen * q \in Nat /\ BlockLen * j \in Nat
      BY <1>1, BlockLenType, SMT
    <3> QED
      BY <1>1, <1>4, <3>1, <3>2
  <2>2. Cut(s \o h, j - 1) = Cut(s, j - 1)
    BY <2>1, CutBefore
  <2>3. j \in 1 .. q + 1
    BY <1>1
  <2> QED
    BY <1>7, <1>8, <2>2, <2>3
<1>11. c[q + 1] = one[1]
  <2>1. q + 1 \in 1 .. q + 1 /\ (q + 1) - 1 = q
    BY <1>1
  <2> QED
    BY <1>6, <1>8, <1>9, <2>1
<1>12. /\ a \o one \in Seq(RawBlock) /\ Len(a \o one) = q + 1
       /\ \A j \in 1 .. q + 1 : (a \o one)[j] = IF j <= q THEN a[j] ELSE one[j - q]
  <2>1. /\ a \o one \in Seq(RawBlock) /\ Len(a \o one) = Len(a) + Len(one)
        /\ \A j \in 1 .. Len(a) + Len(one) :
             (a \o one)[j] = IF j <= Len(a) THEN a[j] ELSE one[j - Len(a)]
    BY <1>7, <1>9, ConcatProperties
  <2>2. Len(a) + Len(one) = q + 1 /\ Len(a) = q
    BY <1>7, <1>9
  <2> QED
    BY <2>1, <2>2
<1>13. ASSUME NEW j \in 1 .. q + 1 PROVE c[j] = (a \o one)[j]
  <2>1. CASE j <= q
    BY <1>1, <1>10, <1>12, <2>1
  <2>2. CASE ~(j <= q)
    <3>1. j = q + 1 /\ j - q = 1
      BY <1>1, <2>2
    <3> QED
      BY <1>11, <1>12, <2>2, <3>1
  <2> QED
    BY <2>1, <2>2
<1>14. c = a \o one
  BY <1>8, <1>12, <1>13, SeqEqual
<1>15. q + 1 \in Nat /\ Len(s \o h) = BlockLen * (q + 1)
  BY <1>1, <1>4, <1>5
<1> QED
  BY <1>2, <1>3, <1>14, <1>15 DEF a, c, one, first, q, t, n

\* A piece that does not fill the block.
LEMMA ShortUpdate ==
  ASSUME NEW ctx, NEW s \in Message, NEW data \in Message, Holds(ctx, s),
         (Len(s) % BlockLen) + Len(data) < BlockLen
  PROVE  Holds([in |-> Overlay(ctx.in, Len(s) % BlockLen, data), bits |-> Count(ctx.bits, Len(data)), blocks |-> ctx.blocks],
               s \o data)
<1> DEFINE n == Len(s)
           d == Len(data)
           q == n \div BlockLen
           t == n % BlockLen
           e == BlockLen * q
           in == Overlay(ctx.in, t, data)
<1>1. n \in Nat /\ d \in Nat /\ q \in Nat /\ t \in 0 .. BlockLen - 1 /\ n = e + t
  <2>1. n \in Nat /\ d \in Nat
    BY LenType
  <2> HIDE DEF n
  <2> QED
    BY <2>1, BlockLenType, DivMod
<1>2. /\ ctx = [in |-> ctx.in, bits |-> ctx.bits, blocks |-> ctx.blocks]
      /\ ctx.bits = BitLength(s) /\ ctx.blocks = Cuts(s, q) /\ ctx.in \in [1 .. BlockLen -> Nat]
      /\ \A i \in 1 .. t : ctx.in[i] = s[e + i]
  BY DEF Holds
<1>3. e \in Nat /\ BlockLen * q <= n
  <2> HIDE DEF q, n
  <2> QED
    BY <1>1, BlockLenType, SMT
<1>5. Count(ctx.bits, d) = BitLength(s \o data)
  BY <1>2, CountIs
<1>6. s \o data \in Message /\ Len(s \o data) = n + d
  BY ConcatProperties DEF Message
<1>7. Len(s \o data) \div BlockLen = q /\ Len(s \o data) % BlockLen = t + d
  <2>1. t + d \in 0 .. BlockLen - 1 /\ n + d = e + (t + d)
    <3> HIDE DEF t, d, e, n
    <3>1. t + d < BlockLen
      BY DEF t, d, n
    <3> QED
      BY <1>1, <1>3, <3>1, BlockLenType
  <2> DEFINE r == t + d
  <2>2. r \in 0 .. BlockLen - 1 /\ Len(s \o data) = BlockLen * q + r
    BY <1>6, <2>1
  <2> HIDE DEF r, q
  <2>3. (BlockLen * q + r) \div BlockLen = q /\ (BlockLen * q + r) % BlockLen = r
    BY <1>1, <2>2, BlockLenType, OneWay
  <2>4. Len(s \o data) \div BlockLen = q /\ Len(s \o data) % BlockLen = r
    BY <2>2, <2>3
  <2> QED
    BY <2>4 DEF r
<1>8. Cuts(s \o data, q) = Cuts(s, q)
  <2>1. ASSUME NEW j \in 1 .. q PROVE Cut(s \o data, j - 1) = Cut(s, j - 1)
    <3> HIDE DEF q, n
    <3>1. BlockLen * (j - 1) + BlockLen = BlockLen * j /\ BlockLen * j <= BlockLen * q
      BY <1>1, BlockLenType, SMT
    <3>2. BlockLen * q \in Nat /\ BlockLen * j \in Nat /\ j - 1 \in Nat
      BY <1>1, BlockLenType, SMT
    <3>3. BlockLen * (j - 1) + BlockLen <= Len(s)
      BY <1>1, <1>3, <3>1, <3>2 DEF n
    <3> QED
      BY <3>2, <3>3, CutBefore
  <2> QED
    BY <2>1 DEF Cuts
<1>9. in \in [1 .. BlockLen -> Nat]
  <2>1. t \in Nat
    BY <1>1
  <2> HIDE DEF t
  <2> QED
    BY <1>2, <2>1, OverlayType
<1>10. ASSUME NEW i \in 1 .. t + d PROVE in[i] = (s \o data)[e + i]
  <2>1. i \in 1 .. BlockLen
    <3>1. t + d < BlockLen
      OBVIOUS
    <3> HIDE DEF t, d
    <3> QED
      BY <1>1, <3>1, BlockLenType
  <2>2. in[i] = IF t < i /\ i <= t + d THEN data[i - t] ELSE ctx.in[i]
    BY <2>1 DEF Overlay
  <2>3. \A j \in 1 .. Len(s) + Len(data) :
          (s \o data)[j] = IF j <= Len(s) THEN s[j] ELSE data[j - Len(s)]
    BY ConcatProperties DEF Message
  <2> HIDE DEF in, t, d, e, n
  <2>4. CASE i <= t
    <3>1. e + i \in 1 .. Len(s) + Len(data) /\ e + i <= Len(s) /\ i \in 1 .. t
      BY <1>1, <1>3, <2>4 DEF n, d
    <3>2. (s \o data)[e + i] = s[e + i]
      BY <2>3, <3>1
    <3>3. in[i] = ctx.in[i]
      BY <1>1, <2>2, <2>4
    <3> QED
      BY <1>2, <3>1, <3>2, <3>3
  <2>5. CASE ~(i <= t)
    <3>1. t < i /\ i <= t + d /\ i - t \in 1 .. Len(data) /\ Len(s) + (i - t) = e + i
      BY <1>1, <1>3, <2>5 DEF n, d
    <3>2. (s \o data)[Len(s) + (i - t)] = data[i - t]
      BY <3>1, Behind
    <3> QED
      BY <2>2, <3>1, <3>2
  <2> QED
    BY <2>4, <2>5
<1> HIDE DEF in, t, d, e, n, q
<1>11. Holds([in |-> in, bits |-> Count(ctx.bits, d), blocks |-> ctx.blocks], s \o data)
  BY <1>2, <1>5, <1>7, <1>8, <1>9, <1>10 DEF Holds, e
<1> QED
  BY <1>11 DEF in, t, d, n

\* Whatever a context was fed, md5_update feeds it the next piece.
LEMMA UpdateHolds ==
  ASSUME NEW ctx, NEW s \in Message, NEW data \in Message, Holds(ctx, s)
  PROVE  Holds(MD5Update(ctx, data), s \o data)
<1> DEFINE t == Len(s) % BlockLen
           head == IF t = 0 THEN 0 ELSE BlockLen - t
           first == Overlay(ctx.in, t, SubSeq(data, 1, head))
           rest == SubSeq(data, head + 1, Len(data))
           w == Len(rest) \div BlockLen
           tail == SubSeq(rest, w * BlockLen + 1, Len(rest))
           last == CASE w > 0 -> SubSeq(rest, (w - 1) * BlockLen + 1, w * BlockLen)
                     [] w = 0 /\ t # 0 -> first
                     [] OTHER -> ctx.in
           start == ctx.blocks \o (IF t = 0 THEN <<>> ELSE <<Raw(first)>>)
           blocks == [j \in 1 .. w |-> Raw(SubSeq(rest, (j - 1) * BlockLen + 1, j * BlockLen))]
           long == [in |-> Overlay(last, 0, tail), bits |-> Count(ctx.bits, Len(data)),
                    blocks |-> start \o blocks]
<1>1. t = Waiting(ctx.bits)
  BY WaitingIs DEF Holds
<1>2. MD5Update(ctx, data) =
        IF t # 0 /\ Len(data) < head
        THEN [in |-> Overlay(ctx.in, t, data), bits |-> Count(ctx.bits, Len(data)), blocks |-> ctx.blocks]
        ELSE long
  BY <1>1 DEF MD5Update
<1>3. t \in 0 .. BlockLen - 1 /\ Len(s) \in Nat /\ Len(data) \in Nat
  BY LenType, BlockLenType, DivMod
<1>4. CASE t # 0 /\ Len(data) < head
  <2>1. t + Len(data) < BlockLen
    <3> HIDE DEF t
    <3> QED
      BY <1>3, <1>4, BlockLenType
  <2>2. Holds([in |-> Overlay(ctx.in, t, data), bits |-> Count(ctx.bits, Len(data)), blocks |-> ctx.blocks], s \o data)
    BY <2>1, ShortUpdate
  <2> QED
    BY <1>2, <1>4, <2>2
<1>5. CASE ~(t # 0 /\ Len(data) < head)
  <2> DEFINE h == SubSeq(data, 1, head)
  <2>1. head \in 0 .. Len(data)
    <3> HIDE DEF t
    <3> QED
      BY <1>3, <1>5, BlockLenType
  <2>2. /\ h \in Message /\ Len(h) = head /\ rest \in Message /\ h \o rest = data
    <3> HIDE DEF head
    <3> QED
      BY <2>1, Split
  <2>3. (s \o h) \o rest = s \o data
    <3> HIDE DEF h, rest
    <3>1. s \in Seq(Nat) /\ h \in Seq(Nat) /\ rest \in Seq(Nat)
      BY <2>2 DEF Message
    <3>2. (s \o h) \o rest = s \o (h \o rest)
      BY <3>1, ConcatAssociative
    <3> QED
      BY <2>2, <3>2
  <2>4. s \o h \in Message
    <3> HIDE DEF h
    <3> QED
      BY <2>2, ConcatProperties DEF Message
  <2>5. /\ ctx.blocks = Cuts(s, Len(s) \div BlockLen) /\ ctx.in \in [1 .. BlockLen -> Nat]
        /\ ctx.bits = BitLength(s)
    BY DEF Holds
  <2>6. \E p \in Nat : Len(s \o h) = BlockLen * p /\ start = Cuts(s \o h, p)
    <3>1. CASE t = 0
      <4>1. h = <<>>
        BY <3>1, SubSeqEmpty
      <4>2. s \o h = s
        BY <4>1, ConcatEmptySeq DEF Message
      <4> DEFINE p == Len(s) \div BlockLen
      <4>3. p \in Nat /\ Len(s) = BlockLen * p
        <5>1. p \in Nat /\ Len(s) = BlockLen * p + t
          BY <1>3, BlockLenType, DivMod
        <5>2. BlockLen * p \in Nat
          <6> HIDE DEF p
          <6> QED
            BY <5>1, BlockLenType, SMT
        <5> HIDE DEF t, p
        <5> QED
          BY <3>1, <5>1, <5>2
      <4>4. Cuts(s, p) \in Seq(RawBlock)
        <5>1. BlockLen * p <= Len(s)
          BY <1>3, <4>3
        <5> HIDE DEF p
        <5> QED
          BY <4>3, <5>1, CutsType
      <4>5. start = Cuts(s, p)
        <5>1. start = ctx.blocks \o <<>>
          BY <3>1
        <5> QED
          BY <2>5, <4>4, <5>1, ConcatEmptySeq
      <4> QED
        BY <4>2, <4>3, <4>5
    <3>2. CASE t # 0
      <4>1. Len(h) = BlockLen - t
        BY <2>2, <3>2
      <4> HIDE DEF h
      <4> DEFINE p == (Len(s) \div BlockLen) + 1
      <4>2. /\ p \in Nat /\ Len(s \o h) = BlockLen * p
            /\ ctx.blocks \o <<Raw(Overlay(ctx.in, t, h))>> = Cuts(s \o h, p)
        BY <2>2, <3>2, <4>1, Completed
      <4>3. start = Cuts(s \o h, p)
        BY <3>2, <4>2 DEF h
      <4> QED
        BY <4>2, <4>3
    <3> QED
      BY <3>1, <3>2
  <2>7. PICK p \in Nat : Len(s \o h) = BlockLen * p /\ start = Cuts(s \o h, p)
    BY <2>6
  <2>8. t # 0 => first \in [1 .. BlockLen -> Nat]
    <3>1. t \in Nat
      BY <1>3
    <3> HIDE DEF h, t
    <3> QED
      BY <2>2, <2>5, <3>1, OverlayType DEF h
  <2> DEFINE base == s \o h
             u == Len(rest) % BlockLen
  <2> HIDE DEF h, rest
  <2>9. /\ w \in Nat /\ u \in 0 .. BlockLen - 1 /\ BlockLen * w <= Len(rest)
        /\ Len(base \o rest) \div BlockLen = p + w /\ Len(base \o rest) % BlockLen = u
        /\ Cuts(base \o rest, p + w) = Cuts(base, p) \o Cuts(rest, w)
        /\ tail \in Message /\ Len(tail) = u
        /\ \A i \in 1 .. u : tail[i] = (base \o rest)[BlockLen * (p + w) + i]
    <3>1. base \in Message /\ Len(base) = BlockLen * p
      BY <2>4, <2>7
    <3>2. rest \in Message
      BY <2>2
    <3> HIDE DEF base
    <3> QED
      BY <3>1, <3>2, Continued
  <2>10. blocks = Cuts(rest, w)
    <3>1. ASSUME NEW j \in 1 .. w
          PROVE  SubSeq(rest, (j - 1) * BlockLen + 1, j * BlockLen) = Cut(rest, j - 1)
      <4>0. w \in Nat
        BY <2>9
      <4> HIDE DEF w
      <4>1. BlockLen * j <= BlockLen * w /\ BlockLen * j \in Nat /\ BlockLen * w \in Nat
        BY <4>0, BlockLenType, SMT
      <4>3. Len(rest) \in Nat /\ BlockLen * w <= Len(rest)
        BY <2>2, <2>9, LenType
      <4>2. BlockLen * j <= Len(rest) /\ j \in Nat \ {0}
        BY <4>0, <4>1, <4>3
      <4> QED
        BY <2>2, <4>2, BlockOf
    <3> HIDE DEF w
    <3> QED
      BY <3>1 DEF Cuts
  <2>11. last \in [1 .. BlockLen -> Nat]
    <3>1. CASE w > 0
      <4> HIDE DEF w, t, first
      <4>0. w \in Nat /\ ~(w = 0)
        BY <2>9, <3>1
      <4>1. last = SubSeq(rest, (w - 1) * BlockLen + 1, w * BlockLen)
        BY <3>1, <4>0
      <4> HIDE DEF last
      <4>2. last = Cut(rest, w - 1)
        BY <2>2, <2>9, <3>1, <4>1, BlockOf
      <4>3. w - 1 \in Nat /\ BlockLen * (w - 1) + BlockLen = BlockLen * w
        BY <2>9, <3>1, BlockLenType, SMT
      <4> QED
        BY <2>2, <2>9, <4>2, <4>3, CutType
    <3>2. CASE w = 0 /\ t # 0
      BY <2>8, <3>2
    <3>3. CASE w = 0 /\ t = 0
      BY <2>5, <3>3
    <3> HIDE DEF w, last
    <3> QED
      BY <2>9, <3>1, <3>2, <3>3
  <2> HIDE DEF w, tail, last, start, blocks, t, u, base
  <2>12. long.blocks = Cuts(s \o data, p + w)
    BY <2>3, <2>7, <2>9, <2>10 DEF base
  <2>13. long.bits = BitLength(s \o data)
    BY <2>5, CountIs
  <2>14. Overlay(last, 0, tail) \in [1 .. BlockLen -> Nat]
    BY <2>9, <2>11, OverlayType
  <2>15. ASSUME NEW i \in 1 .. u
         PROVE  Overlay(last, 0, tail)[i] = (s \o data)[BlockLen * (p + w) + i]
    <3>1. i \in 1 .. BlockLen /\ 0 < i /\ i <= 0 + Len(tail) /\ i - 0 = i
      BY <2>9, BlockLenType
    <3>2. Overlay(last, 0, tail)[i] = tail[i]
      BY <3>1 DEF Overlay
    <3> QED
      BY <2>3, <2>9, <3>2 DEF base
  <2>16. long = [in |-> long.in, bits |-> long.bits, blocks |-> long.blocks]
         /\ long.in = Overlay(last, 0, tail)
    OBVIOUS
  <2> HIDE DEF long
  <2>17. Len(s \o data) \div BlockLen = p + w /\ Len(s \o data) % BlockLen = u
    BY <2>3, <2>9 DEF base
  <2>18. Holds(long, s \o data)
    BY <2>12, <2>13, <2>14, <2>15, <2>16, <2>17 DEF Holds
  <2> QED
    BY <1>2, <1>5, <2>18
<1> QED
  BY <1>4, <1>5

-----------------------------------------------------------------------------
(* MD5Final and RFC 1321 *)

LEMMA FillType ==
  ASSUME NEW n \in Nat, NEW b \in Nat
  PROVE  Fill(n, b) \in Message /\ Len(Fill(n, b)) = n /\ \A i \in 1 .. n : Fill(n, b)[i] = b
  BY DEF Fill, Message

\* The blocks the padded message has besides the last one.
Before(s) ==
  (Len(s) \div BlockLen) + (IF NeedsTwo(BlockLen - 1 - (Len(s) % BlockLen)) THEN 1 ELSE 0)

\* The zeros RFC 1321 asks for: up to the length field of this block or the next.
LEMMA ZerosAre ==
  ASSUME NEW s \in Message
  PROVE  LET z == CHOOSE z \in 0 .. BlockLen - 1 : (Len(s) + 1 + z + LengthLen) % BlockLen = 0
         IN  z \in 0 .. BlockLen - 1
             /\ Len(s) + 1 + z + LengthLen = BlockLen * (Before(s) + 1)
<1> DEFINE n == Len(s)
           q == n \div BlockLen
           t == n % BlockLen
           two == NeedsTwo(BlockLen - 1 - t)
           k == q + (IF two THEN 1 ELSE 0)
           y == IF two THEN 2 * BlockLen - 1 - t - LengthLen ELSE BlockLen - 1 - t - LengthLen
           Fits(z) == (n + 1 + z + LengthLen) % BlockLen = 0
           x == CHOOSE z \in 0 .. BlockLen - 1 : Fits(z)
<1>1. n \in Nat /\ q \in Nat /\ t \in 0 .. BlockLen - 1 /\ n = BlockLen * q + t
  <2>1. n \in Nat
    BY LenType
  <2> HIDE DEF n
  <2> QED
    BY <2>1, BlockLenType, DivMod
<1> HIDE DEF n, q, t
<1>2. two <=> BlockLen - 1 - t < LengthLen
  BY DEF NeedsTwo
<1>3. y \in 0 .. BlockLen - 1
  BY <1>1, <1>2, BlockLenType
<1>4. k \in Nat /\ n + 1 + y + LengthLen = BlockLen * (k + 1)
  <2>1. CASE two
    <3>1. k = q + 1 /\ y = 2 * BlockLen - 1 - t - LengthLen
      BY <2>1
    <3>2. BlockLen * ((q + 1) + 1) = BlockLen * q + 2 * BlockLen
      BY <1>1, BlockLenType, SMT
    <3> DEFINE e == BlockLen * q
    <3>3. e \in Nat /\ n = e + t
      BY <1>1, BlockLenType, SMT
    <3> HIDE DEF e, k, y
    <3>4. n + 1 + y + LengthLen = e + 2 * BlockLen
      BY <1>1, <3>1, <3>3, BlockLenType
    <3> QED
      BY <1>1, <3>1, <3>2, <3>4 DEF e
  <2>2. CASE ~two
    <3>1. k = q /\ y = BlockLen - 1 - t - LengthLen
      BY <1>1, <2>2
    <3>2. BlockLen * (q + 1) = BlockLen * q + BlockLen
      BY <1>1, BlockLenType, SMT
    <3> DEFINE e == BlockLen * q
    <3>3. e \in Nat /\ n = e + t
      BY <1>1, BlockLenType, SMT
    <3> HIDE DEF e, k, y
    <3>4. n + 1 + y + LengthLen = e + BlockLen
      BY <1>1, <3>1, <3>3, BlockLenType
    <3> QED
      BY <1>1, <3>1, <3>2, <3>4 DEF e
  <2> QED
    BY <2>1, <2>2
<1> HIDE DEF two, k, y
<1>5. Fits(y)
  <2>1. BlockLen * (k + 1) + 0 = BlockLen * (k + 1) /\ k + 1 \in Nat /\ 0 \in 0 .. BlockLen - 1
    BY <1>4, BlockLenType, SMT
  <2>2. (BlockLen * (k + 1) + 0) % BlockLen = 0
    BY <2>1, BlockLenType, OneWay
  <2> QED
    BY <1>4, <2>1, <2>2
<1>6. x \in 0 .. BlockLen - 1 /\ Fits(x)
  <2> HIDE DEF Fits
  <2> QED
    BY <1>3, <1>5
<1> HIDE DEF x
<1>7. x = y
  <2> DEFINE a == n + 1 + x + LengthLen
             l == a \div BlockLen
  <2>1. a \in Nat
    BY <1>1, <1>6, BlockLenType
  <2>2. l \in Nat /\ a = BlockLen * l + (a % BlockLen)
    <3> HIDE DEF a
    <3> QED
      BY <2>1, BlockLenType, DivMod
  <2>3. a % BlockLen = 0
    BY <1>6
  <2> HIDE DEF l
  <2>4. x - y = BlockLen * (l - (k + 1))
    <3>1. a = BlockLen * l
      <4> DEFINE e == BlockLen * l
      <4>1. e \in Nat
        BY <2>2, BlockLenType, SMT
      <4> HIDE DEF e, a
      <4> QED
        BY <2>2, <2>3, <4>1 DEF e
    <3>2. BlockLen * (l - (k + 1)) = BlockLen * l - BlockLen * (k + 1)
      BY <1>4, <2>2, BlockLenType, SMT
    <3>3. x - y = a - (n + 1 + y + LengthLen)
      BY <1>1, <1>3, <1>6, BlockLenType
    <3> HIDE DEF a
    <3> QED
      BY <1>4, <3>1, <3>2, <3>3
  <2>5. x - y < BlockLen /\ x - y > -BlockLen
    BY <1>3, <1>6, BlockLenType
  <2>6. l - (k + 1) \in Int
    BY <1>4, <2>2
  <2> DEFINE g == l - (k + 1)
  <2>7. BlockLen * g < BlockLen /\ BlockLen * g > -BlockLen
    BY <2>4, <2>5
  <2>8. g \in Int
    BY <2>6
  <2> HIDE DEF g
  <2>9. g = 0
    BY <2>7, <2>8, BlockLenType, SMT
  <2>10. x - y = BlockLen * g
    BY <2>4 DEF g
  <2>11. x - y = 0
    BY <2>9, <2>10, BlockLenType, SMT
  <2> QED
    BY <1>3, <1>6, <2>11
<1>8. Before(s) = k
  BY DEF Before, k, q, t, n, two
<1> QED
  BY <1>4, <1>6, <1>7, <1>8 DEF x, n

LEMMA BeforeType == \A s \in Message : Before(s) \in Nat
<1> SUFFICES ASSUME NEW s \in Message PROVE Before(s) \in Nat
  OBVIOUS
<1>1. Len(s) \div BlockLen \in Nat
  BY LenType, BlockLenType, DivMod
<1> QED
  BY <1>1 DEF Before

\* What RFC 1321 makes of a message: the message, the mark, and zeros.
LEMMA PaddedIs ==
  ASSUME NEW s \in Message
  PROVE  /\ Padded(s) \in Message
         /\ Len(Padded(s)) = BlockLen * Before(s) + (BlockLen - LengthLen)
         /\ Len(s) + 1 <= Len(Padded(s))
         /\ \A i \in 1 .. Len(Padded(s)) :
              Padded(s)[i] = IF i <= Len(s) THEN s[i] ELSE IF i = Len(s) + 1 THEN Mark ELSE Zero
<1> DEFINE n == Len(s)
           z == CHOOSE z \in 0 .. BlockLen - 1 : (n + 1 + z + LengthLen) % BlockLen = 0
           o == <<Mark>>
           f == Fill(z, Zero)
           m == Padded(s)
           e == BlockLen * Before(s)
<1>1. z \in 0 .. BlockLen - 1 /\ n + 1 + z + LengthLen = BlockLen * (Before(s) + 1)
  BY ZerosAre
<1>2. n \in Nat
  BY LenType
<1>3. m = s \o o \o f
  BY DEF Padded
<1> HIDE DEF z, n, m
<1>4. f \in Message /\ Len(f) = z /\ \A i \in 1 .. z : f[i] = Zero
  <2>1. z \in Nat /\ Zero \in Nat
    BY <1>1 DEF Zero
  <2> QED
    BY <2>1, FillType
<1>5. o \in Message /\ Len(o) = 1 /\ o[1] = Mark
  BY DEF Message, Mark
<1> HIDE DEF o, f
<1>6. s \o o \in Message /\ Len(s \o o) = n + 1
  <2>1. s \o o \in Message /\ Len(s \o o) = Len(s) + Len(o)
    BY <1>5, ConcatProperties DEF Message
  <2> QED
    BY <1>5, <2>1 DEF n
<1>7. \A i \in 1 .. n + 1 : (s \o o)[i] = IF i <= n THEN s[i] ELSE Mark
  <2>1. \A i \in 1 .. Len(s) + Len(o) : (s \o o)[i] = IF i <= Len(s) THEN s[i] ELSE o[i - Len(s)]
    BY <1>5, ConcatProperties DEF Message
  <2> SUFFICES ASSUME NEW i \in 1 .. n + 1 PROVE (s \o o)[i] = IF i <= n THEN s[i] ELSE Mark
    OBVIOUS
  <2>2. (s \o o)[i] = IF i <= n THEN s[i] ELSE o[i - n]
    BY <1>5, <2>1 DEF n
  <2>3. ~(i <= n) => i - n = 1
    BY <1>2
  <2> QED
    BY <1>5, <2>2, <2>3
<1>8. m \in Message /\ Len(m) = n + 1 + z
  <2> DEFINE a == s \o o
  <2>0. a \in Message /\ Len(a) = n + 1
    BY <1>6
  <2> HIDE DEF a
  <2>1. a \o f \in Message /\ Len(a \o f) = Len(a) + Len(f)
    BY <1>4, <2>0, ConcatProperties DEF Message
  <2> QED
    BY <1>3, <1>4, <2>0, <2>1 DEF a
<1>9. ASSUME NEW i \in 1 .. n + 1 + z
      PROVE  m[i] = IF i <= n THEN s[i] ELSE IF i = n + 1 THEN Mark ELSE Zero
  <2> DEFINE a == s \o o
  <2>0. a \in Message /\ Len(a) = n + 1
    BY <1>6
  <2>1. m = a \o f
    BY <1>3
  <2> HIDE DEF a
  <2>2. \A j \in 1 .. Len(a) + Len(f) : (a \o f)[j] = IF j <= Len(a) THEN a[j] ELSE f[j - Len(a)]
    BY <1>4, <2>0, ConcatProperties DEF Message
  <2>3. Len(a) + Len(f) = n + 1 + z
    BY <1>4, <2>0
  <2>4. m[i] = IF i <= n + 1 THEN a[i] ELSE f[i - (n + 1)]
    BY <2>0, <2>1, <2>2, <2>3
  <2>5. CASE i <= n + 1
    <3>1. i \in 1 .. n + 1 /\ (~(i <= n) => i = n + 1)
      BY <1>2, <2>5
    <3>2. a[i] = IF i <= n THEN s[i] ELSE Mark
      BY <1>7, <3>1 DEF a
    <3> QED
      BY <2>4, <2>5, <3>1, <3>2
  <2>6. CASE ~(i <= n + 1)
    <3>1. i - (n + 1) \in 1 .. z /\ ~(i <= n) /\ i # n + 1
      BY <1>1, <1>2, <2>6
    <3>2. f[i - (n + 1)] = Zero
      BY <1>4, <3>1
    <3> QED
      BY <2>4, <2>6, <3>1, <3>2
  <2> QED
    BY <2>5, <2>6
<1>10. Len(m) = e + (BlockLen - LengthLen)
  <2>1. BlockLen * (Before(s) + 1) = e + BlockLen /\ e \in Nat
    BY BeforeType, BlockLenType, SMT
  <2> HIDE DEF e
  <2> QED
    BY <1>1, <1>2, <1>8, <2>1, BlockLenType
<1>11. n + 1 <= Len(m)
  BY <1>1, <1>2, <1>8
<1> QED
  BY <1>8, <1>9, <1>10, <1>11 DEF m, n

\* The last block: its bytes before the length field, and the length.
LastBlock(s) ==
  [bytes  |-> [i \in 1 .. BlockLen - LengthLen |-> Padded(s)[BlockLen * Before(s) + i]],
   length |-> BitLength(s)]

Blocks(s) ==
  [j \in 1 .. Before(s) + 1 |->
     IF j <= Before(s) THEN Raw(Cut(Padded(s), j - 1)) ELSE LastBlock(s)]

\* The digest is a sequence of whole blocks and the last block.
LEMMA DigestIs == ASSUME NEW s \in Message PROVE Digest(s) = Blocks(s)
<1> DEFINE m == Padded(s)
           k == Before(s)
           n == (Len(m) + LengthLen) \div BlockLen
           End(j) == IF j = n THEN Len(m) ELSE j * BlockLen
           e == BlockLen * k
<1>1. m \in Message /\ Len(m) = e + (BlockLen - LengthLen) /\ k \in Nat
  BY PaddedIs, BeforeType
<1>2. e \in Nat /\ BlockLen * (k + 1) = e + BlockLen
  <2> HIDE DEF k
  <2> QED
    BY <1>1, BlockLenType, SMT
<1>3. n = k + 1
  <2>1. Len(m) + LengthLen = BlockLen * (k + 1) + 0
    <3> HIDE DEF m, e, k
    <3> QED
      BY <1>1, <1>2, BlockLenType
  <2>2. k + 1 \in Nat /\ 0 \in 0 .. BlockLen - 1
    BY <1>1, BlockLenType
  <2> HIDE DEF k, m
  <2>3. (BlockLen * (k + 1) + 0) \div BlockLen = k + 1
    BY <2>2, BlockLenType, OneWay
  <2> QED
    BY <2>1, <2>3
<1> HIDE DEF m, k, n, e
<1>4. ASSUME NEW j \in 1 .. k + 1, j <= k
      PROVE  SubSeq(m, (j - 1) * BlockLen + 1, End(j)) = Cut(m, j - 1) /\ j # n
  <2>1. j \in Nat \ {0} /\ j # n
    BY <1>1, <1>3, <1>4
  <2>2. BlockLen * j <= BlockLen * k /\ BlockLen * j \in Nat
    BY <1>1, <1>4, BlockLenType, SMT
  <2>3. BlockLen * j <= Len(m)
    BY <1>1, <1>2, <2>2, BlockLenType DEF e
  <2> QED
    BY <1>1, <2>1, <2>3, BlockOf
<1>5. SubSeq(m, ((k + 1) - 1) * BlockLen + 1, End(k + 1)) = [i \in 1 .. BlockLen - LengthLen |-> m[e + i]]
  <2> DEFINE l == BlockLen - LengthLen
  <2>1. l \in Nat /\ e + l = Len(m) /\ e + l <= Len(m)
    BY <1>1, <1>2, BlockLenType
  <2>2. ((k + 1) - 1) * BlockLen = e /\ End(k + 1) = e + l
    <3>1. ((k + 1) - 1) * BlockLen = BlockLen * k
      BY <1>1, BlockLenType, SMT
    <3> HIDE DEF l
    <3> QED
      BY <1>3, <2>1, <3>1 DEF e
  <2> HIDE DEF l, End
  <2>3. SubSeq(m, e + 1, e + l) = [i \in 1 .. l |-> m[e + i]]
    BY <1>1, <1>2, <2>1, Part
  <2> QED
    BY <2>2, <2>3 DEF l
<1> DEFINE d == [j \in 1 .. n |-> [bytes |-> SubSeq(m, (j - 1) * BlockLen + 1, End(j)),
                                   length |-> IF j = n THEN BitLength(s) ELSE <<>>]]
<1>6. Digest(s) = d
  BY DEF Digest, m, n
<1>7. ASSUME NEW j \in 1 .. k + 1
      PROVE  [bytes |-> SubSeq(m, (j - 1) * BlockLen + 1, End(j)),
              length |-> IF j = n THEN BitLength(s) ELSE <<>>]
               = IF j <= k THEN Raw(Cut(m, j - 1)) ELSE LastBlock(s)
  <2> HIDE DEF End
  <2>1. CASE j <= k
    BY <1>4, <2>1 DEF Raw
  <2>2. CASE ~(j <= k)
    <3>1. j = k + 1
      BY <1>1, <2>2
    <3> QED
      BY <1>3, <1>5, <2>2, <3>1 DEF LastBlock, m, e, k
  <2> QED
    BY <2>1, <2>2
<1> HIDE DEF End
<1>8. d = Blocks(s)
  BY <1>3, <1>7 DEF Blocks, m, k
<1> QED
  BY <1>6, <1>8

\* The padded message begins with the whole blocks of the message.
LEMMA CutOfPadded ==
  ASSUME NEW s \in Message, NEW j \in 1 .. Len(s) \div BlockLen
  PROVE  Cut(Padded(s), j - 1) = Cut(s, j - 1)
<1> DEFINE n == Len(s)
           q == n \div BlockLen
           m == Padded(s)
           a == BlockLen * (j - 1)
<1>1. n \in Nat /\ q \in Nat /\ n % BlockLen \in 0 .. BlockLen - 1 /\ n = BlockLen * q + (n % BlockLen)
  <2>1. n \in Nat
    BY LenType
  <2> HIDE DEF n
  <2> QED
    BY <2>1, BlockLenType, DivMod
<1>2. j \in 1 .. q
  OBVIOUS
<1> HIDE DEF n, q
<1>3. a \in Nat /\ a + BlockLen <= n
  <2>1. a + BlockLen = BlockLen * j /\ BlockLen * j <= BlockLen * q /\ a \in Nat
        /\ BlockLen * j \in Nat /\ BlockLen * q \in Nat
    BY <1>1, <1>2, BlockLenType, SMT
  <2> DEFINE b == BlockLen * j
             c == BlockLen * q
             r == n % BlockLen
  <2>2. a + BlockLen = b /\ b <= c /\ n = c + r /\ r \in Nat /\ b \in Nat /\ c \in Nat
    BY <1>1, <2>1
  <2> HIDE DEF a, b, c, r
  <2> QED
    BY <2>1, <2>2, BlockLenType
<1>4. n + 1 <= Len(m) /\ Len(m) \in Nat
      /\ \A i \in 1 .. Len(m) : m[i] = IF i <= n THEN s[i] ELSE IF i = n + 1 THEN Mark ELSE Zero
  BY PaddedIs, LenType DEF n
<1> HIDE DEF a, m
<1>5. ASSUME NEW i \in 1 .. BlockLen PROVE m[a + i] = s[a + i]
  <2>1. a + i \in 1 .. Len(m) /\ a + i <= n
    BY <1>1, <1>3, <1>4, BlockLenType
  <2> QED
    BY <1>4, <2>1
<1> QED
  BY <1>5 DEF Cut, a, m

\* The block into which MD5Final puts the mark and zeros.
LEMMA MarkedIs ==
  ASSUME NEW in \in [1 .. BlockLen -> Nat], NEW t \in 0 .. BlockLen - 1, NEW f \in Nat,
         t + 1 + f <= BlockLen
  PROVE  LET b == Overlay(Overlay(in, t, <<Mark>>), t + 1, Fill(f, Zero))
         IN  /\ b \in [1 .. BlockLen -> Nat]
             /\ \A i \in 1 .. t + 1 + f :
                  b[i] = IF i <= t THEN in[i] ELSE IF i = t + 1 THEN Mark ELSE Zero
<1> DEFINE a == Overlay(in, t, <<Mark>>)
           z == Fill(f, Zero)
           b == Overlay(a, t + 1, z)
<1>1. z \in Message /\ Len(z) = f /\ \A i \in 1 .. f : z[i] = Zero
  <2>1. Zero \in Nat
    BY DEF Zero
  <2> QED
    BY <2>1, FillType
<1> HIDE DEF z
<1>2. <<Mark>> \in Message /\ Len(<<Mark>>) = 1
  BY DEF Message, Mark
<1>3. t \in Nat /\ t + 1 \in Nat
  OBVIOUS
<1>4. a \in [1 .. BlockLen -> Nat]
  BY <1>2, <1>3, OverlayType
<1>5. \A i \in 1 .. BlockLen : a[i] = IF i = t + 1 THEN Mark ELSE in[i]
  <2> SUFFICES ASSUME NEW i \in 1 .. BlockLen PROVE a[i] = IF i = t + 1 THEN Mark ELSE in[i]
    OBVIOUS
  <2>1. a[i] = IF t < i /\ i <= t + 1 THEN <<Mark>>[i - t] ELSE in[i]
    BY <1>2 DEF Overlay
  <2>2. (t < i /\ i <= t + 1) <=> i = t + 1
    BY BlockLenType
  <2>3. i = t + 1 => i - t = 1
    BY <1>3
  <2> HIDE DEF a
  <2> QED
    BY <2>1, <2>2, <2>3
<1> HIDE DEF a
<1>6. b \in [1 .. BlockLen -> Nat]
  BY <1>1, <1>3, <1>4, OverlayType
<1>7. ASSUME NEW i \in 1 .. t + 1 + f
      PROVE  b[i] = IF i <= t THEN in[i] ELSE IF i = t + 1 THEN Mark ELSE Zero
  <2>1. i \in 1 .. BlockLen
    BY BlockLenType
  <2>2. b[i] = IF t + 1 < i /\ i <= t + 1 + f THEN z[i - (t + 1)] ELSE a[i]
    BY <1>1, <2>1 DEF Overlay
  <2> HIDE DEF b
  <2>3. CASE i <= t
    <3>1. ~(t + 1 < i) /\ i # t + 1
      BY <2>3
    <3> QED
      BY <1>5, <2>1, <2>2, <2>3, <3>1
  <2>4. CASE i = t + 1
    <3>1. ~(t + 1 < i) /\ ~(i <= t)
      BY <2>4
    <3> QED
      BY <1>5, <2>1, <2>2, <2>4, <3>1
  <2>5. CASE i > t + 1
    <3>1. t + 1 < i /\ i <= t + 1 + f /\ i - (t + 1) \in 1 .. f /\ ~(i <= t) /\ i # t + 1
      BY <2>5
    <3> QED
      BY <1>1, <2>2, <3>1
  <2> QED
    BY <2>3, <2>4, <2>5
<1> HIDE DEF b
<1>8. b = Overlay(Overlay(in, t, <<Mark>>), t + 1, Fill(f, Zero))
  BY DEF b, a, z
<1> QED
  BY <1>6, <1>7, <1>8

AnyBlock ==
  [bytes  : [1 .. BlockLen -> Nat] \cup [1 .. BlockLen - LengthLen -> Nat],
   length : {<<>>} \cup (Nat \X Nat)]

\* The front of a block.
LEMMA FrontOf ==
  ASSUME NEW b \in [1 .. BlockLen -> Nat], NEW n \in 0 .. BlockLen
  PROVE  SubSeq(b, 1, n) = [i \in 1 .. n |-> b[i]]
<1>1. b \in Message /\ Len(b) = BlockLen
  BY BlockLenType DEF Message
<1>2. n \in Nat /\ 0 + n <= Len(b)
  BY <1>1
<1>3. SubSeq(b, 0 + 1, 0 + n) = [i \in 1 .. n |-> b[0 + i]]
  BY <1>1, <1>2, Part
<1>4. 0 + 1 = 1 /\ 0 + n = n /\ \A i \in 1 .. n : 0 + i = i
  BY <1>2
<1> QED
  BY <1>3, <1>4

\* The blocks MD5Final adds are what is missing.
LEMMA FinalBlocks ==
  ASSUME NEW ctx, NEW s \in Message, Holds(ctx, s)
  PROVE  LET t      == Len(s) % BlockLen
             q      == Len(s) \div BlockLen
             free  == BlockLen - 1 - t
             marked == Overlay(ctx.in, t, <<Mark>>)
             Ends(buffer, at, zeros) ==
               [bytes  |-> SubSeq(Overlay(buffer, at, Fill(zeros, Zero)), 1, BlockLen - LengthLen),
                length |-> ctx.bits]
         IN  /\ NeedsTwo(free) =>
                  /\ Raw(Overlay(marked, t + 1, Fill(free, Zero))) = Raw(Cut(Padded(s), q))
                  /\ Ends(marked, 0, BlockLen - LengthLen) = LastBlock(s)
             /\ ~NeedsTwo(free) => Ends(marked, t + 1, free - LengthLen) = LastBlock(s)
<1> DEFINE n == Len(s)
           t == n % BlockLen
           q == n \div BlockLen
           r == BlockLen - 1 - t
           l == BlockLen - LengthLen
           marked == Overlay(ctx.in, t, <<Mark>>)
           e == BlockLen * q
           m == Padded(s)
           k == Before(s)
<1>1. n \in Nat /\ q \in Nat /\ t \in 0 .. BlockLen - 1 /\ n = e + t
  <2>1. n \in Nat
    BY LenType
  <2> HIDE DEF n
  <2> QED
    BY <2>1, BlockLenType, DivMod
<1>2. /\ ctx.in \in [1 .. BlockLen -> Nat] /\ ctx.bits = BitLength(s)
      /\ \A i \in 1 .. t : ctx.in[i] = s[e + i]
  BY DEF Holds
<1>3. /\ m \in Message /\ Len(m) = BlockLen * k + l /\ n + 1 <= Len(m)
      /\ \A i \in 1 .. Len(m) : m[i] = IF i <= n THEN s[i] ELSE IF i = n + 1 THEN Mark ELSE Zero
  BY PaddedIs
<1>4. e \in Nat /\ l \in 1 .. BlockLen - 1 /\ r \in 0 .. BlockLen - 1
      /\ BlockLen * (q + 1) = e + BlockLen
  <2>1. e \in Nat /\ BlockLen * (q + 1) = e + BlockLen
    <3> HIDE DEF q
    <3> QED
      BY <1>1, BlockLenType, SMT
  <2> HIDE DEF t, e
  <2> QED
    BY <1>1, <2>1, BlockLenType
<1>5. k = IF NeedsTwo(r) THEN q + 1 ELSE q
  <2>1. k = q + (IF NeedsTwo(r) THEN 1 ELSE 0)
    BY DEF Before
  <2> HIDE DEF q, r, k
  <2> QED
    BY <1>1, <2>1
<1>6. LastBlock(s) = [bytes |-> [i \in 1 .. l |-> m[BlockLen * k + i]], length |-> BitLength(s)]
  BY DEF LastBlock
<1> HIDE DEF n, q, t, m, k, e
<1>7. CASE NeedsTwo(r)
  <2>1. k = q + 1 /\ BlockLen * k = e + BlockLen
    BY <1>4, <1>5, <1>7
  <2> DEFINE b == Overlay(marked, t + 1, Fill(r, Zero))
  <2>2. /\ b \in [1 .. BlockLen -> Nat]
        /\ \A i \in 1 .. t + 1 + r : b[i] = IF i <= t THEN ctx.in[i] ELSE IF i = t + 1 THEN Mark ELSE Zero
    <3>1. r \in Nat /\ t + 1 + r <= BlockLen
      BY <1>1, <1>4, BlockLenType
    <3> HIDE DEF r
    <3> QED
      BY <1>1, <1>2, <3>1, MarkedIs
  <2>3. t + 1 + r = BlockLen
    BY <1>1, BlockLenType
  <2> HIDE DEF b
  <2>4. ASSUME NEW i \in 1 .. BlockLen PROVE b[i] = m[e + i]
    <3>1. e + i \in 1 .. Len(m) /\ i \in 1 .. t + 1 + r
      BY <1>1, <1>3, <1>4, <2>1, <2>3, BlockLenType
    <3>2. (e + i <= n <=> i <= t) /\ (e + i = n + 1 <=> i = t + 1)
      BY <1>1, <1>4
    <3>3. i <= t => ctx.in[i] = s[e + i]
      BY <1>1, <1>2
    <3> QED
      BY <1>3, <2>2, <3>1, <3>2, <3>3
  <2>5. b = Cut(m, q)
    <3>1. b = [i \in 1 .. BlockLen |-> b[i]]
      BY <2>2
    <3> QED
      BY <2>4, <3>1 DEF Cut, e
  <2> DEFINE z == Fill(l, Zero)
             c == Overlay(marked, 0, z)
  <2>6. z \in Message /\ Len(z) = l /\ \A i \in 1 .. l : z[i] = Zero
    <3>1. l \in Nat /\ Zero \in Nat
      BY <1>4 DEF Zero
    <3> HIDE DEF l
    <3> QED
      BY <3>1, FillType
  <2>7. marked \in [1 .. BlockLen -> Nat]
    <3>1. <<Mark>> \in Message /\ t \in Nat
      BY <1>1 DEF Message, Mark
    <3> QED
      BY <1>2, <3>1, OverlayType
  <2> HIDE DEF marked, z
  <2>8. c \in [1 .. BlockLen -> Nat]
    BY <2>6, <2>7, OverlayType
  <2>9. ASSUME NEW i \in 1 .. l PROVE c[i] = m[BlockLen * k + i]
    <3>1. c[i] = Zero
      <4>1. i \in 1 .. BlockLen /\ 0 < i /\ i <= 0 + Len(z) /\ i - 0 = i
        BY <1>4, <2>6, BlockLenType
      <4> QED
        BY <2>6, <4>1 DEF Overlay
    <3>2. e + BlockLen + i \in 1 .. Len(m) /\ ~(e + BlockLen + i <= n) /\ e + BlockLen + i # n + 1
      <4> HIDE DEF l
      <4> QED
        BY <1>1, <1>3, <1>4, <2>1, BlockLenType
    <3>3. m[e + BlockLen + i] = Zero
      BY <1>3, <3>2
    <3> QED
      BY <2>1, <3>1, <3>3
  <2> HIDE DEF c
  <2>10. SubSeq(c, 1, l) = [i \in 1 .. l |-> c[i]]
    <3>1. l \in 0 .. BlockLen
      BY <1>4, BlockLenType
    <3> HIDE DEF l
    <3> QED
      BY <2>8, <3>1, FrontOf
  <2>11. SubSeq(c, 1, l) = [i \in 1 .. l |-> m[BlockLen * k + i]]
    BY <2>9, <2>10
  <2>12. [bytes |-> SubSeq(c, 1, l), length |-> ctx.bits] = LastBlock(s)
    BY <1>2, <1>6, <2>11
  <2> QED
    BY <1>7, <2>5, <2>12 DEF b, c, z, marked, t, q, n, m
<1>8. CASE ~NeedsTwo(r)
  <2>1. k = q /\ BlockLen * k = e
    BY <1>5, <1>8 DEF e
  <2> DEFINE f == r - LengthLen
             b == Overlay(marked, t + 1, Fill(f, Zero))
  <2>2. f \in Nat /\ t + 1 + f = l /\ l <= BlockLen
    <3>1. ~(r < LengthLen)
      BY <1>8 DEF NeedsTwo
    <3> QED
      BY <1>1, <1>4, <3>1, BlockLenType
  <2>3. /\ b \in [1 .. BlockLen -> Nat]
        /\ \A i \in 1 .. t + 1 + f : b[i] = IF i <= t THEN ctx.in[i] ELSE IF i = t + 1 THEN Mark ELSE Zero
    <3>1. t + 1 + f <= BlockLen
      BY <2>2
    <3> HIDE DEF f
    <3> QED
      BY <1>1, <1>2, <2>2, <3>1, MarkedIs
  <2> HIDE DEF b, f
  <2>4. ASSUME NEW i \in 1 .. l PROVE b[i] = m[e + i]
    <3>1. e + i \in 1 .. Len(m) /\ i \in 1 .. t + 1 + f
      BY <1>1, <1>3, <1>4, <2>1, <2>2, BlockLenType
    <3>2. (e + i <= n <=> i <= t) /\ (e + i = n + 1 <=> i = t + 1)
      BY <1>1, <1>4
    <3>3. i <= t => ctx.in[i] = s[e + i]
      BY <1>1, <1>2
    <3> QED
      BY <1>3, <2>3, <3>1, <3>2, <3>3
  <2>5. SubSeq(b, 1, l) = [i \in 1 .. l |-> b[i]]
    <3>1. l \in 0 .. BlockLen
      BY <1>4, BlockLenType
    <3> HIDE DEF l
    <3> QED
      BY <2>3, <3>1, FrontOf
  <2>6. SubSeq(b, 1, l) = [i \in 1 .. l |-> m[BlockLen * k + i]]
    BY <2>1, <2>4, <2>5
  <2>7. [bytes |-> SubSeq(b, 1, l), length |-> ctx.bits] = LastBlock(s)
    BY <1>2, <1>6, <2>6
  <2> QED
    BY <1>8, <2>7 DEF b, f, t, q, n
<1> QED
  BY <1>7, <1>8

\* What MD5Final returns for a context that was fed a message is the digest of it.
LEMMA FinalIs ==
  ASSUME NEW ctx, NEW s \in Message, Holds(ctx, s)
  PROVE  MD5Final(ctx) = Digest(s)
<1> DEFINE t == Len(s) % BlockLen
           q == Len(s) \div BlockLen
           free == BlockLen - 1 - t
           marked == Overlay(ctx.in, t, <<Mark>>)
           Ends(buffer, at, zeros) ==
             [bytes  |-> SubSeq(Overlay(buffer, at, Fill(zeros, Zero)), 1, BlockLen - LengthLen),
              length |-> ctx.bits]
           full_  == Raw(Overlay(marked, t + 1, Fill(free, Zero)))
           long  == Ends(marked, 0, BlockLen - LengthLen)
           short == Ends(marked, t + 1, free - LengthLen)
           m == Padded(s)
           a == Cuts(s, q)
<1>1. ctx.blocks = a /\ t = Waiting(ctx.bits)
  BY WaitingIs DEF Holds
<1>2. MD5Final(ctx) = a \o (IF NeedsTwo(free) THEN <<full_, long>> ELSE <<short>>)
  BY <1>1 DEF MD5Final
<1>3. /\ NeedsTwo(free) => full_ = Raw(Cut(m, q)) /\ long = LastBlock(s)
      /\ ~NeedsTwo(free) => short = LastBlock(s)
  BY FinalBlocks
<1>4. q \in Nat /\ BlockLen * q <= Len(s)
  <2> DEFINE n == Len(s)
  <2>1. n \in Nat
    BY LenType
  <2> HIDE DEF n
  <2>2. n \div BlockLen \in Nat /\ n % BlockLen \in 0 .. BlockLen - 1
        /\ n = BlockLen * (n \div BlockLen) + (n % BlockLen)
    BY <2>1, BlockLenType, DivMod
  <2> DEFINE p == n \div BlockLen
             e == BlockLen * p
  <2>3. e \in Nat /\ e <= n
    <3>1. p \in Nat
      BY <2>2
    <3> HIDE DEF p
    <3>2. e \in Nat
      BY <3>1, BlockLenType, SMT
    <3> HIDE DEF e
    <3> QED
      BY <2>1, <2>2, <3>2, BlockLenType DEF e, p
  <2> QED
    BY <2>2, <2>3 DEF n
<1>5. Before(s) = q + (IF NeedsTwo(free) THEN 1 ELSE 0)
  BY DEF Before
<1> HIDE DEF full_, long, short, q, a, m, free
<1>6. a \in Seq(RawBlock) /\ Len(a) = q /\ \A j \in 1 .. q : a[j] = Raw(Cut(m, j - 1))
  <2>1. a \in Seq(RawBlock) /\ Len(a) = q /\ \A j \in 1 .. q : a[j] = Raw(Cut(s, j - 1))
    BY <1>4, CutsType DEF a
  <2>2. \A j \in 1 .. q : Cut(m, j - 1) = Cut(s, j - 1)
    BY CutOfPadded DEF q, m
  <2> QED
    BY <2>1, <2>2
<1>7. Digest(s) = Blocks(s)
  BY DigestIs
<1> DEFINE S == RawBlock \cup {Raw(Cut(m, q)), LastBlock(s)}
<1>8. a \in Seq(S)
  BY <1>6
<1> HIDE DEF S
<1>9. CASE NeedsTwo(free)
  <2> DEFINE b == <<Raw(Cut(m, q)), LastBlock(s)>>
  <2>1. b \in Seq(S) /\ Len(b) = 2 /\ b[1] = Raw(Cut(m, q)) /\ b[2] = LastBlock(s)
    BY DEF S
  <2>2. MD5Final(ctx) = a \o b
    BY <1>2, <1>3, <1>9
  <2> HIDE DEF b
  <2>3. /\ a \o b \in Seq(S) /\ Len(a \o b) = Len(a) + Len(b)
        /\ \A j \in 1 .. Len(a) + Len(b) : (a \o b)[j] = IF j <= Len(a) THEN a[j] ELSE b[j - Len(a)]
    BY <1>8, <2>1, ConcatProperties
  <2>4. Len(a) + Len(b) = Before(s) + 1 /\ Before(s) = q + 1
    BY <1>4, <1>5, <1>6, <1>9, <2>1
  <2>5. ASSUME NEW j \in 1 .. Before(s) + 1
        PROVE  (a \o b)[j] = IF j <= Before(s) THEN Raw(Cut(m, j - 1)) ELSE LastBlock(s)
    <3>1. (a \o b)[j] = IF j <= q THEN a[j] ELSE b[j - q]
      BY <1>6, <2>3, <2>4
    <3>2. CASE j <= q
      <4>1. j \in 1 .. q /\ j <= Before(s)
        BY <1>4, <2>4, <3>2
      <4> QED
        BY <1>6, <3>1, <3>2, <4>1
    <3>3. CASE j = q + 1
      <4>1. ~(j <= q) /\ j - q = 1 /\ j <= Before(s) /\ j - 1 = q
        BY <1>4, <2>4, <3>3
      <4> QED
        BY <2>1, <3>1, <4>1
    <3>4. CASE j > q + 1
      <4>1. ~(j <= q) /\ j - q = 2 /\ ~(j <= Before(s))
        BY <1>4, <2>4, <3>4
      <4> QED
        BY <2>1, <3>1, <4>1
    <3> QED
      BY <1>4, <2>4, <3>2, <3>3, <3>4
  <2>6. a \o b = [j \in 1 .. Before(s) + 1 |-> (a \o b)[j]]
    <3> DEFINE c == a \o b
    <3>1. c \in Seq(S) /\ Len(c) = Before(s) + 1
      BY <2>3, <2>4
    <3> HIDE DEF c
    <3>2. c = [j \in 1 .. Before(s) + 1 |-> c[j]]
      BY <3>1
    <3> QED
      BY <3>2 DEF c
  <2>7. a \o b = Blocks(s)
    BY <2>5, <2>6 DEF Blocks, m
  <2> QED
    BY <1>7, <2>2, <2>7
<1>10. CASE ~NeedsTwo(free)
  <2> DEFINE b == <<LastBlock(s)>>
  <2>1. b \in Seq(S) /\ Len(b) = 1 /\ b[1] = LastBlock(s)
    BY DEF S
  <2>2. MD5Final(ctx) = a \o b
    BY <1>2, <1>3, <1>10
  <2> HIDE DEF b
  <2>3. /\ a \o b \in Seq(S) /\ Len(a \o b) = Len(a) + Len(b)
        /\ \A j \in 1 .. Len(a) + Len(b) : (a \o b)[j] = IF j <= Len(a) THEN a[j] ELSE b[j - Len(a)]
    BY <1>8, <2>1, ConcatProperties
  <2>4. Len(a) + Len(b) = Before(s) + 1 /\ Before(s) = q
    BY <1>4, <1>5, <1>6, <1>10, <2>1
  <2>5. ASSUME NEW j \in 1 .. Before(s) + 1
        PROVE  (a \o b)[j] = IF j <= Before(s) THEN Raw(Cut(m, j - 1)) ELSE LastBlock(s)
    <3>1. (a \o b)[j] = IF j <= q THEN a[j] ELSE b[j - q]
      BY <1>6, <2>3, <2>4
    <3>2. CASE j <= q
      <4>1. j \in 1 .. q /\ j <= Before(s)
        BY <1>4, <2>4, <3>2
      <4> QED
        BY <1>6, <3>1, <3>2, <4>1
    <3>3. CASE ~(j <= q)
      <4>1. j - q = 1 /\ ~(j <= Before(s))
        BY <1>4, <2>4, <3>3
      <4> QED
        BY <2>1, <3>1, <3>3, <4>1
    <3> QED
      BY <3>2, <3>3
  <2>6. a \o b = [j \in 1 .. Before(s) + 1 |-> (a \o b)[j]]
    <3> DEFINE c == a \o b
    <3>1. c \in Seq(S) /\ Len(c) = Before(s) + 1
      BY <2>3, <2>4
    <3> HIDE DEF c
    <3>2. c = [j \in 1 .. Before(s) + 1 |-> c[j]]
      BY <3>1
    <3> QED
      BY <3>2 DEF c
  <2>7. a \o b = Blocks(s)
    BY <2>5, <2>6 DEF Blocks, m
  <2> QED
    BY <1>7, <2>2, <2>7
<1> QED
  BY <1>9, <1>10

\* MD5Transform being abstracted to its blocks, equal digests are those of equal messages.
LEMMA DigestTells ==
  ASSUME NEW a \in Message, NEW b \in Message, Digest(a) = Digest(b)
  PROVE  a = b
<1> DEFINE k == Before(a)
           n == Len(a)
<1>1. Blocks(a) = Blocks(b) /\ Before(a) \in Nat /\ Before(b) \in Nat
  BY DigestIs, BeforeType
<1>2. Before(b) = k
  <2>1. DOMAIN Blocks(a) = 1 .. Before(a) + 1 /\ DOMAIN Blocks(b) = 1 .. Before(b) + 1
    BY DEF Blocks
  <2>2. 1 .. Before(a) + 1 = 1 .. Before(b) + 1
    BY <1>1, <2>1
  <2>3. Before(a) + 1 \in 1 .. Before(b) + 1 /\ Before(b) + 1 \in 1 .. Before(a) + 1
    BY <1>1, <2>2
  <2> QED
    BY <1>1, <2>3
<1> HIDE DEF k
<1>3. k \in Nat
  BY <1>1 DEF k
<1>4. \A j \in 1 .. k : Raw(Cut(Padded(a), j - 1)) = Raw(Cut(Padded(b), j - 1))
  <2> SUFFICES ASSUME NEW j \in 1 .. k
               PROVE  Raw(Cut(Padded(a), j - 1)) = Raw(Cut(Padded(b), j - 1))
    OBVIOUS
  <2>1. j \in 1 .. k + 1 /\ j <= k
    BY <1>3
  <2>2. Blocks(a)[j] = Raw(Cut(Padded(a), j - 1)) /\ Blocks(b)[j] = Raw(Cut(Padded(b), j - 1))
    BY <1>2, <2>1 DEF Blocks, k
  <2> QED
    BY <1>1, <2>2
<1>5. LastBlock(a) = LastBlock(b)
  <2>1. k + 1 \in 1 .. k + 1 /\ ~(k + 1 <= k)
    BY <1>3
  <2>2. Blocks(a)[k + 1] = LastBlock(a) /\ Blocks(b)[k + 1] = LastBlock(b)
    BY <1>2, <2>1 DEF Blocks, k
  <2> QED
    BY <1>1, <2>2
<1>6. BitLength(a) = BitLength(b)
  BY <1>5 DEF LastBlock
<1>7. Len(b) = n
  <2> DEFINE t == Len(a) % BlockLen
             u == Len(b) % BlockLen
             p == Len(a) \div BlockLen
             q == Len(b) \div BlockLen
  <2>1. t = u
    BY <1>6, WaitingIs
  <2>2. k = p + (IF NeedsTwo(BlockLen - 1 - t) THEN 1 ELSE 0)
        /\ k = q + (IF NeedsTwo(BlockLen - 1 - u) THEN 1 ELSE 0)
    BY <1>2 DEF Before, k
  <2>3. p \in Nat /\ q \in Nat /\ Len(a) = BlockLen * p + t /\ Len(b) = BlockLen * q + u
    BY LenType, BlockLenType, DivMod
  <2> HIDE DEF t, u, p, q
  <2>4. p = q
    BY <2>1, <2>2, <2>3
  <2> QED
    BY <2>1, <2>3, <2>4 DEF n
<1>8. n \in Nat /\ n + 1 <= Len(Padded(a))
      /\ Len(Padded(a)) = BlockLen * k + (BlockLen - LengthLen)
      /\ \A i \in 1 .. Len(Padded(a)) :
           Padded(a)[i] = IF i <= n THEN a[i] ELSE IF i = n + 1 THEN Mark ELSE Zero
  BY LenType, PaddedIs DEF n, k
<1>9. n + 1 <= Len(Padded(b))
      /\ Len(Padded(b)) = BlockLen * k + (BlockLen - LengthLen)
      /\ \A i \in 1 .. Len(Padded(b)) :
           Padded(b)[i] = IF i <= n THEN b[i] ELSE IF i = n + 1 THEN Mark ELSE Zero
  BY <1>2, <1>7, PaddedIs
<1> HIDE DEF n
<1> DEFINE e == BlockLen * k
<1>10. e \in Nat
  BY <1>3, BlockLenType, SMT
<1>11. ASSUME NEW i \in 1 .. n PROVE Padded(a)[i] = Padded(b)[i]
  <2> DEFINE j == (i - 1) \div BlockLen
             r == (i - 1) % BlockLen
             f == BlockLen * j
  <2>1. j \in Nat /\ r \in 0 .. BlockLen - 1 /\ i - 1 = BlockLen * j + r
    <3> DEFINE x == i - 1
    <3>1. x \in Nat
      BY <1>8
    <3> HIDE DEF x
    <3>2. x \div BlockLen \in Nat /\ x % BlockLen \in 0 .. BlockLen - 1
          /\ x = BlockLen * (x \div BlockLen) + (x % BlockLen)
      BY <3>1, BlockLenType, DivMod
    <3> QED
      BY <3>2 DEF x
  <2> HIDE DEF j, r
  <2>2. f \in Nat /\ i = f + (r + 1) /\ r + 1 \in 1 .. BlockLen
    <3>1. f \in Nat
      BY <2>1, BlockLenType, SMT
    <3>2. i - 1 = f + r
      BY <2>1
    <3> HIDE DEF f
    <3> QED
      BY <1>8, <2>1, <3>1, <3>2, BlockLenType
  <2> HIDE DEF f
  <2>3. CASE j < k
    <3>1. j + 1 \in 1 .. k /\ (j + 1) - 1 = j
      BY <1>3, <2>1, <2>3
    <3>2. Cut(Padded(a), j) = Cut(Padded(b), j)
      BY <1>4, <3>1 DEF Raw
    <3>3. Cut(Padded(a), j)[r + 1] = Padded(a)[f + (r + 1)]
          /\ Cut(Padded(b), j)[r + 1] = Padded(b)[f + (r + 1)]
      BY <2>2 DEF Cut, f
    <3> QED
      BY <2>2, <3>2, <3>3
  <2>4. CASE j = k
    <3>1. f = e
      BY <2>4 DEF f
    <3>2. r + 1 \in 1 .. BlockLen - LengthLen
      <4> HIDE DEF e
      <4>1. i < e + (BlockLen - LengthLen)
        BY <1>8, <1>10, BlockLenType DEF e
      <4> QED
        BY <1>8, <1>10, <2>1, <2>2, <3>1, <4>1, BlockLenType
    <3>3. [x \in 1 .. BlockLen - LengthLen |-> Padded(a)[e + x]]
            = [x \in 1 .. BlockLen - LengthLen |-> Padded(b)[e + x]]
      BY <1>2, <1>5 DEF LastBlock, k
    <3> HIDE DEF e
    <3>4. Padded(a)[e + (r + 1)] = Padded(b)[e + (r + 1)]
      BY <3>2, <3>3
    <3> QED
      BY <2>2, <3>1, <3>4
  <2>5. CASE j > k
    <3>1. f >= e + BlockLen
      <4>1. BlockLen * (k + 1) = e + BlockLen /\ BlockLen * (k + 1) <= BlockLen * j
        BY <1>3, <2>1, <2>5, BlockLenType, SMT
      <4> HIDE DEF e
      <4> QED
        BY <1>10, <2>2, <4>1, BlockLenType DEF f
    <3>2. i < e + BlockLen
      <4> HIDE DEF e
      <4>1. i < e + (BlockLen - LengthLen)
        BY <1>8, <1>10, BlockLenType DEF e
      <4> QED
        BY <1>8, <1>10, <4>1, BlockLenType
    <3> HIDE DEF e
    <3> QED
      BY <1>8, <1>10, <2>1, <2>2, <3>1, <3>2, BlockLenType
  <2> QED
    BY <1>3, <2>1, <2>3, <2>4, <2>5
<1> HIDE DEF e
<1>12. ASSUME NEW i \in 1 .. n PROVE a[i] = b[i]
  <2>1. i \in 1 .. Len(Padded(a)) /\ i <= n
    BY <1>8
  <2>2. i \in 1 .. Len(Padded(b))
    BY <1>8, <1>9, <2>1
  <2> QED
    BY <1>8, <1>9, <1>11, <2>1, <2>2
<1> QED
  BY <1>7, <1>12, SeqEqual DEF n, Message

LEMMA InitHolds == Holds(MD5Init, <<>>)
<1>1. Len(<<>>) = 0 /\ 0 \div BlockLen = 0 /\ 0 % BlockLen = 0
  <2>1. BlockLen * 0 + 0 = 0 /\ 0 \in 0 .. BlockLen - 1
    BY BlockLenType
  <2>2. (BlockLen * 0 + 0) \div BlockLen = 0 /\ (BlockLen * 0 + 0) % BlockLen = 0
    BY <2>1, BlockLenType, OneWay
  <2> QED
    BY <2>1, <2>2
<1>2. BitLength(<<>>) = <<0, 0>>
  <2> DEFINE w == WordValues
  <2>0. w \in Nat \ {0}
    BY WordAssumption
  <2> HIDE DEF w
  <2>1. w * 0 + 0 = 0 /\ 0 \in 0 .. w - 1
    BY <2>0
  <2>2. (w * 0 + 0) \div w = 0 /\ (w * 0 + 0) % w = 0
    BY <2>0, <2>1, OneWay
  <2>3. 0 \div w = 0 /\ 0 % w = 0
    BY <2>1, <2>2
  <2>4. BitLength(<<>>) = <<(8 * 0) % w, ((8 * 0) \div w) % w>>
    BY DEF BitLength, w
  <2> QED
    BY <2>3, <2>4
<1>3. Cuts(<<>>, 0) = <<>>
  BY DEF Cuts
<1>4. Fill(BlockLen, Old) \in [1 .. BlockLen -> Nat]
  BY DEF Fill, Old
<1> QED
  BY <1>1, <1>2, <1>3, <1>4 DEF Holds, MD5Init

-----------------------------------------------------------------------------
(* The session *)

ImageType ==
  /\ image \in Seq(Byte) /\ Len(image) <= MaxImage
  /\ blockSize \in Nat \ {0} /\ buggyRom \in BOOLEAN /\ full \in BOOLEAN
  /\ payload \in Seq(Byte) /\ Len(payload) = blockSize
  /\ written \in 0 .. Len(image)
  /\ flash \in [1 .. MaxImage + blockSize -> Byte]
  /\ room \in Nat
  /\ fed \in Message

\* Nothing has happened before FlashStart, and nothing is verified before the end.
Started ==
  /\ phase = "start" => written = 0 /\ fed = <<>>
  /\ phase # "done" => verdict = "none"

\* At least the bytes written are hashed, and when no more are, they are the image's.
Hashing ==
  /\ Len(fed) >= written
  /\ Len(fed) = written => \A i \in 1 .. written : fed[i] = image[i]

\* As long as every call fills its block, the target has the bytes written, and
\* erased ones behind them; the next block comes behind the last.
Placed ==
  phase = "write" /\ ~buggyRom /\ full =>
    /\ \A i \in 1 .. written : flash[i] = image[i]
    /\ \A i \in written + 1 .. Len(image) : flash[i] = Pad
    /\ written < Len(image) =>
         /\ room <= BlocksToWrite(Len(image), blockSize)
         /\ written = (BlocksToWrite(Len(image), blockSize) - room) * blockSize
    /\ Aligned => Len(fed) = written

ImageInv ==
  /\ ImageType /\ Started /\ Hashing /\ Placed
  /\ Holds(context, fed)
  /\ VerdictSound /\ AlignedVerifies

LEMMA BytesAreNumbers == Byte \subseteq Nat /\ 0 \in Byte /\ Pad \in Byte /\ \A s \in Seq(Byte) : s \in Message
  BY DEF Byte, Pad, Message

\* Rounding up to a multiple.
LEMMA RoundedUp ==
  ASSUME NEW n \in Nat, NEW d \in Nat \ {0}
  PROVE  /\ d * CeilDiv(n, d) \in Nat /\ d * CeilDiv(n, d) >= n
         /\ n % d = 0 => d * CeilDiv(n, d) = n
<1> DEFINE x == n + d - 1
           q == x \div d
           r == x % d
           c == n \div d
<1>1. q \in Nat /\ r \in 0 .. d - 1 /\ x = d * q + r
  <2>1. x \in Nat
    OBVIOUS
  <2> HIDE DEF x
  <2> QED
    BY <2>1, DivMod
<1>2. CeilDiv(n, d) = q
  BY DEF CeilDiv
<1>3. c \in Nat /\ n = d * c + (n % d)
  BY DivMod
<1>4. x = n + d - 1
  OBVIOUS
<1> HIDE DEF q, r, x, c
<1>5. d * q \in Nat
  BY <1>1, SMT
<1> DEFINE e == d * q
<1>6. e \in Nat /\ x = e + r
  BY <1>1, <1>5
<1> HIDE DEF e
<1>7. e >= n
  BY <1>1, <1>4, <1>6
<1>8. ASSUME n % d = 0 PROVE e = n
  <2>1. d - 1 \in 0 .. d - 1
    OBVIOUS
  <2>2. x = d * c + (d - 1)
    <3> DEFINE f == d * c
    <3>1. f \in Nat /\ n = f + 0
      BY <1>3, <1>8, SMT
    <3> HIDE DEF f
    <3>2. x = f + (d - 1)
      BY <1>4, <3>1
    <3> QED
      BY <3>2 DEF f
  <2>3. (d * c + (d - 1)) \div d = c
    BY <1>3, <2>1, OneWay
  <2>4. q = c
    BY <2>2, <2>3 DEF q
  <2>5. d * c = n
    BY <1>3, <1>8, SMT
  <2> QED
    BY <2>4, <2>5 DEF e
<1> QED
  BY <1>2, <1>6, <1>7, <1>8 DEF e

\* The buffer a chunk is sent in.
LEMMA PayloadIs ==
  ASSUME ImageType, NEW size \in Nat, size <= blockSize, written + size <= Len(image)
  PROVE  LET b == PadTo(payload, SubSeq(image, written + 1, written + size))
         IN  /\ b \in Seq(Byte) /\ Len(b) = blockSize
             /\ \A i \in 1 .. blockSize : b[i] = IF i <= size THEN image[written + i] ELSE Pad
<1> DEFINE c == SubSeq(image, written + 1, written + size)
           b == PadTo(payload, c)
<1>1. /\ image \in Seq(Byte) /\ Len(image) \in Nat /\ written \in Nat
      /\ payload \in Seq(Byte) /\ Len(payload) = blockSize /\ blockSize \in Nat
  BY LenType, BytesAreNumbers DEF ImageType
<1>2. Len(c) = size /\ \A i \in 1 .. size : c[i] = image[written + i]
  <2>1. image \in Message
    BY <1>1, BytesAreNumbers
  <2>2. Len(c) = size /\ c = [i \in 1 .. size |-> image[written + i]]
    BY <1>1, <2>1, Part
  <2> HIDE DEF c
  <2> QED
    BY <2>2
<1> HIDE DEF c
<1>3. b = [i \in 1 .. blockSize |-> IF i <= size THEN c[i] ELSE Pad]
  BY <1>1, <1>2 DEF PadTo
<1>4. ASSUME NEW i \in 1 .. blockSize
      PROVE  (IF i <= size THEN c[i] ELSE Pad) = (IF i <= size THEN image[written + i] ELSE Pad)
             /\ (IF i <= size THEN c[i] ELSE Pad) \in Byte
  <2>1. CASE i <= size
    <3>1. i \in 1 .. size /\ written + i \in 1 .. Len(image)
      BY <1>1, <2>1
    <3>2. image[written + i] \in Byte
      BY <1>1, <3>1
    <3> QED
      BY <1>2, <2>1, <3>1, <3>2
  <2>2. CASE ~(i <= size)
    BY <2>2, BytesAreNumbers
  <2> QED
    BY <2>1, <2>2
<1> HIDE DEF b
<1>5. b \in Seq(Byte) /\ Len(b) = blockSize
  BY <1>1, <1>3, <1>4
<1>6. \A i \in 1 .. blockSize : b[i] = IF i <= size THEN image[written + i] ELSE Pad
  BY <1>3, <1>4
<1> QED
  BY <1>5, <1>6 DEF b, c

\* What is hashed of it: the chunk, and more only if its size is not aligned.
LEMMA DataIs ==
  ASSUME ImageType, NEW size \in Nat, NEW behind \in Byte, size <= blockSize, written + size <= Len(image)
  PROVE  LET b == PadTo(payload, SubSeq(image, written + 1, written + size))
             data == Hashed(b, size, behind)
         IN  /\ data \in Message /\ Len(data) \in Nat /\ Len(data) >= size
             /\ size % Align = 0 => Len(data) = size
             /\ \A i \in 1 .. size : data[i] = image[written + i]
<1> DEFINE b == PadTo(payload, SubSeq(image, written + 1, written + size))
           l == Align * CeilDiv(size, Align)
           data == Hashed(b, size, behind)
<1>1. /\ b \in Seq(Byte) /\ Len(b) = blockSize /\ blockSize \in Nat
      /\ \A i \in 1 .. blockSize : b[i] = IF i <= size THEN image[written + i] ELSE Pad
  <2>1. blockSize \in Nat
    BY DEF ImageType
  <2> QED
    BY <2>1, PayloadIs
<1>2. l \in Nat /\ l >= size /\ (size % Align = 0 => l = size)
  BY RoundedUp, AlignAssumption
<1> HIDE DEF b, l
<1>3. data = [i \in 1 .. l |-> IF i <= Len(b) THEN b[i] ELSE behind]
  BY DEF Hashed, l
<1>4. ASSUME NEW i \in 1 .. l PROVE (IF i <= Len(b) THEN b[i] ELSE behind) \in Nat
  <2>1. CASE i <= Len(b)
    <3>1. b[i] \in Byte
      BY <1>1, <2>1
    <3> QED
      BY <2>1, <3>1, BytesAreNumbers
  <2>2. CASE ~(i <= Len(b))
    BY <2>2, BytesAreNumbers
  <2> QED
    BY <2>1, <2>2
<1> HIDE DEF data
<1>5. data \in Message /\ Len(data) = l
  BY <1>2, <1>3, <1>4 DEF Message
<1>6. ASSUME NEW i \in 1 .. size PROVE data[i] = image[written + i]
  <2>1. i \in 1 .. l /\ i \in 1 .. blockSize /\ i <= Len(b) /\ i <= size
    BY <1>1, <1>2
  <2> QED
    BY <1>1, <1>3, <2>1
<1> QED
  BY <1>2, <1>5, <1>6 DEF data, b

\* The sectors of a size hold it.
LEMMA SectorsCover == \A n \in Nat : Sectors(n) \in Nat /\ n <= Sectors(n) * SectorSize
<1> SUFFICES ASSUME NEW n \in Nat PROVE Sectors(n) \in Nat /\ n <= Sectors(n) * SectorSize
  OBVIOUS
<1> DEFINE d == SectorSize
           x == n + d - 1
           q == x \div d
           r == x % d
<1>1. d \in Nat \ {0} /\ x \in Nat
  BY SectorAssumption
<1>2. q \in Nat /\ r \in 0 .. d - 1 /\ x = d * q + r
  <2> HIDE DEF x, d
  <2> QED
    BY <1>1, DivMod
<1>3. x = n + d - 1
  OBVIOUS
<1>4. Sectors(n) = q
  BY DEF Sectors
<1> HIDE DEF d, x, q, r
<1>5. d * q \in Nat /\ q * d = d * q
  BY <1>1, <1>2, SMT
<1> DEFINE e == d * q
<1>6. e \in Nat /\ x = e + r
  BY <1>2, <1>5
<1> HIDE DEF e
<1>7. n <= e
  BY <1>1, <1>2, <1>3, <1>6
<1> QED
  BY <1>2, <1>4, <1>5, <1>7 DEF e, d

LEMMA BlocksType ==
  ImageType => BlocksToWrite(Len(image), blockSize) \in Nat /\ Len(image) \in Nat
<1> SUFFICES ASSUME ImageType PROVE BlocksToWrite(Len(image), blockSize) \in Nat /\ Len(image) \in Nat
  OBVIOUS
<1> DEFINE n == Len(image)
           x == n + blockSize - 1
<1>1. n \in Nat /\ blockSize \in Nat \ {0}
  BY BytesAreNumbers, LenType DEF ImageType
<1>2. x \in Nat
  BY <1>1
<1> HIDE DEF x
<1>3. x \div blockSize \in Nat
  BY <1>1, <1>2, DivMod
<1> QED
  BY <1>1, <1>3 DEF BlocksToWrite, CeilDiv, x

\* The invariant holds before anything has happened.
LEMMA ImageStart == Init => ImageInv
<1> SUFFICES ASSUME Init PROVE ImageInv
  OBVIOUS
<1>1. image \in Seq(Byte) /\ Len(image) <= MaxImage /\ Len(image) \in Nat
  <2>1. PICK n \in 0 .. MaxImage : image \in [1 .. n -> Byte]
    BY DEF Init
  <2>2. n \in Nat /\ n <= MaxImage
    BY <2>1, ImageBounds
  <2> QED
    BY <2>1, <2>2
<1>2. blockSize \in Nat \ {0} /\ buggyRom \in BOOLEAN /\ full \in BOOLEAN /\ room \in Nat
  BY BlocksAssumption DEF Init
<1>3. payload \in Seq(Byte) /\ Len(payload) = blockSize
  <2>1. PICK b \in Byte : payload = [i \in 1 .. blockSize |-> b]
    BY DEF Init
  <2> QED
    BY <1>2, <2>1
<1>4. written = 0 /\ written \in 0 .. Len(image)
  BY <1>1 DEF Init
<1>5. flash \in [1 .. MaxImage + blockSize -> Byte]
  BY BytesAreNumbers DEF Init
<1>6. fed = <<>> /\ fed \in Message /\ Len(fed) = 0
  BY DEF Init, Message
<1>7. Holds(context, fed)
  BY <1>6, InitHolds DEF Init
<1>8. ImageType
  BY <1>1, <1>2, <1>3, <1>4, <1>5, <1>6 DEF ImageType
<1>9. phase = "start" /\ verdict = "none"
  BY DEF Init
<1>10. Hashing
  BY <1>4, <1>6 DEF Hashing
<1> QED
  BY <1>4, <1>6, <1>7, <1>8, <1>9, <1>10 DEF ImageInv, Started, Placed, VerdictSound, AlignedVerifies

\* The region the image lands in is erased.
LEMMA StartKeeps == ImageInv /\ FlashStart => ImageInv'
<1> SUFFICES ASSUME ImageInv, FlashStart PROVE ImageInv'
  OBVIOUS
<1> DEFINE n == Len(image)
           sectors == ErasedSectors(buggyRom, offset, CalcEraseSize(buggyRom, offset, n))
           f == [i \in DOMAIN flash |-> IF i <= sectors * SectorSize THEN Pad ELSE flash[i]]
           k == BlocksToWrite(n, blockSize)
<1>1. ImageType /\ n \in Nat /\ k \in Nat
  BY BlocksType DEF ImageInv
<1>2. /\ phase = "start" /\ phase' = "write" /\ flash' = f /\ room' = k
      /\ image' = image /\ buggyRom' = buggyRom /\ blockSize' = blockSize /\ offset' = offset
      /\ payload' = payload /\ written' = written /\ full' = full /\ context' = context
      /\ fed' = fed /\ verdict' = verdict
  BY DEF FlashStart, client
<1>3. written = 0 /\ fed = <<>> /\ verdict = "none"
  BY <1>2 DEF ImageInv, Started
<1>4. DOMAIN flash = 1 .. MaxImage + blockSize /\ flash \in [1 .. MaxImage + blockSize -> Byte]
      /\ blockSize \in Nat \ {0} /\ n <= MaxImage /\ n \in Nat
  BY <1>1 DEF ImageType
<1>5. f \in [1 .. MaxImage + blockSize -> Byte]
  BY <1>4, BytesAreNumbers
<1>6. ASSUME ~buggyRom, NEW i \in 1 .. n PROVE f[i] = Pad
  <2>1. sectors = Sectors(n)
    BY <1>6 DEF ErasedSectors, CalcEraseSize
  <2>2. n <= sectors * SectorSize /\ sectors \in Nat
    BY <1>1, <2>1, SectorsCover
  <2> DEFINE e == sectors * SectorSize
  <2>3. e \in Nat
    BY <2>2, SectorAssumption, SMT
  <2>4. i \in DOMAIN flash
    BY <1>4, ImageBounds
  <2>5. f[i] = IF i <= e THEN Pad ELSE flash[i]
    BY <2>4
  <2>6. n <= e
    BY <2>2
  <2> HIDE DEF e
  <2>7. i <= e
    BY <1>4, <2>3, <2>6
  <2> QED
    BY <2>5, <2>7
<1> HIDE DEF f, k
<1>7. ImageType'
  BY <1>1, <1>2, <1>5 DEF ImageType
<1>8. Placed'
  <2>1. \A i \in written + 1 .. n : ~buggyRom => f[i] = Pad
    BY <1>3, <1>6
  <2>2. k - k = 0 /\ k <= k /\ 0 * blockSize = 0
    BY <1>1, <1>4
  <2>3. Len(fed) = written
    BY <1>3
  <2>4. \A i \in 1 .. written : f[i] = image[i]
    BY <1>3
  <2> QED
    BY <1>2, <1>3, <2>1, <2>2, <2>3, <2>4 DEF Placed, Aligned, k
<1>9. Started' /\ Hashing' /\ Holds(context, fed)'
  BY <1>2, <1>3 DEF Started, Hashing, ImageInv
<1>10. VerdictSound' /\ AlignedVerifies'
  BY <1>2, <1>3 DEF VerdictSound, AlignedVerifies
<1> QED
  BY <1>7, <1>8, <1>9, <1>10 DEF ImageInv

\* What a chunk is hashed to; only aligned chunks keep the digest at the bytes written.
LEMMA WriteHashes ==
  ASSUME ImageInv, NEW size \in Nat, NEW behind \in Byte, FlashWrite(size, behind)
  PROVE  /\ fed' \in Message /\ Holds(context', fed') /\ Hashing'
         /\ Len(fed) = written /\ size % Align = 0 => Len(fed') = written'
<1> DEFINE b == PadTo(payload, SubSeq(image, written + 1, written + size))
           data == Hashed(b, size, behind)
           new == fed \o data
<1>1. /\ ImageType /\ size <= blockSize /\ written + size <= Len(image)
      /\ context' = MD5Update(context, data) /\ fed' = new
      /\ written' = written + size /\ image' = image
  BY DEF ImageInv, FlashWrite, client
<1>2. /\ data \in Message /\ Len(data) \in Nat /\ Len(data) >= size
      /\ size % Align = 0 => Len(data) = size
      /\ \A i \in 1 .. size : data[i] = image[written + i]
  BY <1>1, DataIs
<1>3. fed \in Message /\ Len(fed) \in Nat /\ written \in Nat
  BY <1>1, LenType DEF ImageType
<1> HIDE DEF data
<1>4. /\ new \in Message /\ Len(new) = Len(fed) + Len(data)
      /\ \A i \in 1 .. Len(fed) + Len(data) : new[i] = IF i <= Len(fed) THEN fed[i] ELSE data[i - Len(fed)]
  BY <1>2, <1>3, ConcatProperties DEF Message
<1>5. Holds(MD5Update(context, data), new)
  BY <1>2, <1>3, UpdateHolds DEF ImageInv
<1> HIDE DEF new
<1>6. Len(fed) >= written /\ (Len(fed) = written => \A i \in 1 .. written : fed[i] = image[i])
  BY DEF ImageInv, Hashing
<1>7. Len(new) >= written + size
  BY <1>2, <1>3, <1>4, <1>6
<1>8. ASSUME Len(new) = written + size, NEW i \in 1 .. written + size
      PROVE  new[i] = image[i]
  <2>1. Len(fed) = written /\ Len(data) = size
    BY <1>2, <1>3, <1>4, <1>6, <1>8
  <2>2. new[i] = IF i <= written THEN fed[i] ELSE data[i - written]
    BY <1>4, <1>8, <2>1
  <2>3. CASE i <= written
    BY <1>6, <2>1, <2>2, <2>3
  <2>4. CASE ~(i <= written)
    <3>1. i - written \in 1 .. size /\ written + (i - written) = i
      BY <1>3, <2>4
    <3>2. data[i - written] = image[i]
      BY <1>2, <3>1
    <3> QED
      BY <2>2, <2>4, <3>2
  <2> QED
    BY <2>3, <2>4
<1>9. Len(fed) = written /\ size % Align = 0 => Len(new) = written + size
  BY <1>2, <1>3, <1>4
<1>10. Hashing'
  BY <1>1, <1>7, <1>8 DEF Hashing
<1> QED
  BY <1>1, <1>4, <1>5, <1>9, <1>10

\* Whole aligned blocks leave an aligned rest.
LEMMA MultipleOfAlign ==
  ASSUME NEW k \in Nat, NEW b \in Nat, NEW n \in Nat, k * b <= n, b % Align = 0, n % Align = 0
  PROVE  (n - k * b) % Align = 0
<1> DEFINE d == Align
           p == b \div d
           q == n \div d
           e == d * q
           f == d * p
<1>0. d \in Nat \ {0}
  BY AlignAssumption
<1>1. p \in Nat /\ q \in Nat /\ b = f + 0 /\ n = e + 0
  <2>1. b % d = 0 /\ n % d = 0
    OBVIOUS
  <2> HIDE DEF d
  <2>2. p \in Nat /\ b = d * p + (b % d)
    BY <1>0, DivMod
  <2>3. q \in Nat /\ n = d * q + (n % d)
    BY <1>0, DivMod
  <2> QED
    BY <2>1, <2>2, <2>3
<1> HIDE DEF d, p, q
<1>2. e \in Nat /\ f \in Nat
  BY <1>0, <1>1, SMT
<1>3. b = f /\ n = e
  BY <1>1, <1>2
<1>4. k * b = d * (k * p) /\ n - k * b = d * (q - k * p)
  BY <1>0, <1>1, <1>3, SMT
<1> DEFINE g == q - k * p
<1>5. g \in Int /\ d * g >= 0
  <2>1. g \in Int
    BY <1>1, SMT
  <2>2. n - k * b >= 0
    <3> DEFINE h == k * b
    <3>1. h \in Nat /\ h <= n
      BY SMT
    <3> HIDE DEF h
    <3>2. n - h >= 0
      BY <3>1
    <3> QED
      BY <3>2 DEF h
  <2> QED
    BY <1>4, <2>1, <2>2
<1>6. n - k * b = d * g
  BY <1>4
<1> HIDE DEF g
<1>7. g \in Nat
  BY <1>0, <1>5, SMT
<1>8. (d * g + 0) % d = 0
  <2>1. 0 \in 0 .. d - 1
    BY <1>0
  <2> QED
    BY <1>0, <1>7, <2>1, OneWay
<1>9. d * g + 0 = d * g
  BY <1>0, <1>7, SMT
<1> QED
  BY <1>6, <1>8, <1>9 DEF d

\* The block the target programs is behind the bytes it has, and its padding
\* leaves the erased bytes as they are.
LEMMA WritePlaces ==
  ASSUME ImageInv, NEW size \in 1 .. MaxImage, NEW behind \in Byte, FlashWrite(size, behind)
  PROVE  flash' \in [1 .. MaxImage + blockSize -> Byte] /\ room' \in Nat /\ Placed'
<1> DEFINE b == PadTo(payload, SubSeq(image, written + 1, written + size))
           n == Len(image)
           k == BlocksToWrite(n, blockSize)
           at == (k - room) * blockSize
           f == [i \in DOMAIN flash |-> IF i \in at + 1 .. at + Len(b) /\ b[i - at] = 0 THEN 0 ELSE flash[i]]
<1>0. size \in Nat /\ size >= 1
  BY ImageBounds
<1>1. /\ ImageType /\ phase = "write" /\ size <= blockSize /\ written + size <= n
      /\ written' = written + size /\ image' = image /\ blockSize' = blockSize
      /\ buggyRom' = buggyRom
      /\ full' = (full /\ (size = blockSize \/ written + size = n))
      /\ Program(b)
  BY DEF ImageInv, FlashWrite, client
<1>2. \/ room > 0 /\ room' = room - 1 /\ flash' = f /\ phase' = phase
      \/ phase' = "failed" /\ room' = room /\ flash' = flash
  BY <1>1 DEF Program
<1>3. /\ b \in Seq(Byte) /\ Len(b) = blockSize
      /\ \A i \in 1 .. blockSize : b[i] = IF i <= size THEN image[written + i] ELSE Pad
  BY <1>0, <1>1, PayloadIs
<1>4. /\ k \in Nat /\ n \in Nat /\ n <= MaxImage /\ blockSize \in Nat \ {0} /\ room \in Nat
      /\ written \in 0 .. n /\ flash \in [1 .. MaxImage + blockSize -> Byte] /\ full \in BOOLEAN
      /\ image \in Seq(Byte)
  BY <1>1, BlocksType DEF ImageType
<1> HIDE DEF b, k, n
<1>5. f \in [1 .. MaxImage + blockSize -> Byte]
  BY <1>4, BytesAreNumbers
<1>6. CASE phase' = "failed" /\ room' = room /\ flash' = flash
  BY <1>4, <1>6 DEF Placed
<1>7. CASE room > 0 /\ room' = room - 1 /\ flash' = f /\ phase' = phase
  <2>1. room' \in Nat
    BY <1>4, <1>7
  <2>2. ASSUME ~buggyRom, full, size = blockSize \/ written + size = n
        PROVE  /\ \A i \in 1 .. written + size : f[i] = image[i]
               /\ \A i \in written + size + 1 .. n : f[i] = Pad
               /\ written + size < n =>
                    room - 1 <= k /\ written + size = (k - (room - 1)) * blockSize
               /\ Aligned => Len(fed') = written'
    <3>1. /\ \A i \in 1 .. written : flash[i] = image[i]
          /\ \A i \in written + 1 .. n : flash[i] = Pad
          /\ written < n => room <= k /\ written = (k - room) * blockSize
          /\ Aligned => Len(fed) = written
      BY <1>1, <2>2 DEF ImageInv, Placed, k, n
    <3>2. written < n
      BY <1>0, <1>1, <1>4
    <3>3. at = written /\ room <= k
      BY <3>1, <3>2
    <3>4. ASSUME NEW i \in 1 .. n
          PROVE  f[i] = IF i \in written + 1 .. written + blockSize /\ b[i - written] = 0 THEN 0 ELSE flash[i]
      <4>1. i \in DOMAIN flash
        BY <1>4, ImageBounds
      <4> QED
        BY <1>3, <3>3, <4>1
    <3> HIDE DEF f, at
    <3>5. ASSUME NEW i \in 1 .. written + size PROVE f[i] = image[i]
      <4>1. i \in 1 .. n
        BY <1>1, <1>4
      <4>2. CASE i <= written
        <5>1. i \in 1 .. written /\ ~(i \in written + 1 .. written + blockSize)
          BY <1>4, <4>2
        <5> QED
          BY <3>1, <3>4, <4>1, <5>1
      <4>3. CASE i > written
        <5>1. /\ i \in written + 1 .. n /\ i \in written + 1 .. written + blockSize
              /\ i - written \in 1 .. blockSize /\ i - written <= size /\ written + (i - written) = i
          BY <1>0, <1>1, <1>4, <4>3
        <5>2. b[i - written] = image[i]
          BY <1>3, <5>1
        <5>3. flash[i] = Pad
          BY <3>1, <5>1
        <5>4. image[i] \in Byte
          BY <1>4, <4>1 DEF n
        <5> QED
          BY <3>4, <4>1, <5>1, <5>2, <5>3, <5>4 DEF Byte
      <4> QED
        BY <1>4, <4>2, <4>3
    <3>6. ASSUME NEW i \in written + size + 1 .. n PROVE f[i] = Pad
      <4>1. i \in 1 .. n /\ i \in written + 1 .. n
        BY <1>0, <1>4
      <4>2. flash[i] = Pad
        BY <3>1, <4>1
      <4>3. CASE i \in written + 1 .. written + blockSize
        <5>1. i - written \in 1 .. blockSize /\ ~(i - written <= size)
          BY <1>0, <1>1, <1>4, <4>3
        <5>2. b[i - written] = Pad /\ Pad # 0
          BY <1>3, <5>1 DEF Pad
        <5> QED
          BY <3>4, <4>1, <4>2, <5>2
      <4>4. CASE ~(i \in written + 1 .. written + blockSize)
        BY <3>4, <4>1, <4>2, <4>4
      <4> QED
        BY <4>3, <4>4
    <3>7. ASSUME written + size < n
          PROVE  room - 1 <= k /\ written + size = (k - (room - 1)) * blockSize
      <4>1. size = blockSize
        BY <1>0, <1>4, <2>2, <3>7
      <4>2. (k - (room - 1)) * blockSize = at + blockSize
        BY <1>4, SMT DEF at
      <4> QED
        BY <1>4, <3>3, <4>1, <4>2
    <3>8. ASSUME Aligned PROVE Len(fed') = written'
      <4>1. n % Align = 0 /\ blockSize % Align = 0
        BY <3>8 DEF Aligned, n
      <4>2. size % Align = 0
        <5>1. CASE size = blockSize
          BY <4>1, <5>1
        <5>2. CASE written + size = n
          <6> DEFINE j == k - room
          <6>1. j \in Nat /\ j * blockSize = written
            BY <1>4, <3>3 DEF at
          <6> HIDE DEF j
          <6>2. (n - j * blockSize) % Align = 0
            <7>1. j * blockSize <= n
              BY <1>4, <6>1
            <7> QED
              BY <1>4, <4>1, <6>1, <7>1, MultipleOfAlign
          <6>3. n - j * blockSize = size
            BY <1>0, <1>4, <5>2, <6>1
          <6> QED
            BY <6>2, <6>3
        <5> QED
          BY <2>2, <5>1, <5>2
      <4> QED
        BY <1>0, <3>1, <3>8, <4>2, WriteHashes
    <3> QED
      BY <3>5, <3>6, <3>7, <3>8
  <2> HIDE DEF f
  <2>3. k' = k /\ n' = n
    BY <1>1 DEF k, n, BlocksToWrite, CeilDiv
  <2>4. Aligned' <=> Aligned
    BY <1>1 DEF Aligned
  <2>5. Placed'
    BY <1>1, <1>7, <2>2, <2>3, <2>4 DEF Placed, k, n
  <2> QED
    BY <1>5, <1>7, <2>1, <2>5
<1> QED
  BY <1>2, <1>6, <1>7

LEMMA WriteKeeps ==
  ASSUME ImageInv, NEW size \in 1 .. MaxImage, NEW behind \in Byte, FlashWrite(size, behind)
  PROVE  ImageInv'
<1> DEFINE b == PadTo(payload, SubSeq(image, written + 1, written + size))
<1>0. size \in Nat /\ size >= 1
  BY ImageBounds
<1>1. /\ ImageType /\ phase = "write" /\ size <= blockSize /\ written + size <= Len(image)
      /\ payload' = b /\ written' = written + size /\ image' = image /\ blockSize' = blockSize
      /\ buggyRom' = buggyRom /\ verdict' = verdict
      /\ full' = (full /\ (size = blockSize \/ written + size = Len(image)))
      /\ (phase' = phase \/ phase' = "failed")
  BY DEF ImageInv, FlashWrite, client, Program
<1>2. b \in Seq(Byte) /\ Len(b) = blockSize
  BY <1>0, <1>1, PayloadIs
<1>3. fed' \in Message /\ Holds(context', fed') /\ Hashing'
  BY <1>0, WriteHashes
<1>4. flash' \in [1 .. MaxImage + blockSize -> Byte] /\ room' \in Nat /\ Placed'
  BY WritePlaces
<1>5. written + size \in 0 .. Len(image) /\ full' \in BOOLEAN
  BY <1>0, <1>1, BlocksType DEF ImageType
<1> HIDE DEF b
<1>6. ImageType'
  BY <1>1, <1>2, <1>3, <1>4, <1>5 DEF ImageType
<1>7. verdict = "none"
  BY <1>1 DEF ImageInv, Started
<1>8. Started' /\ VerdictSound' /\ AlignedVerifies'
  BY <1>1, <1>7 DEF Started, VerdictSound, AlignedVerifies
<1> QED
  BY <1>3, <1>4, <1>6, <1>8 DEF ImageInv

\* Equal digests are equal messages, and the message hashed is the image unless it is longer.
LEMMA VerifyKeeps == ImageInv /\ FlashVerify => ImageInv'
<1> SUFFICES ASSUME ImageInv, FlashVerify PROVE ImageInv'
  OBVIOUS
<1> DEFINE n == Len(image)
           region == SubSeq(flash, 1, n)
<1>1. /\ phase = "write" /\ written = n /\ phase' = "done"
      /\ image' = image /\ blockSize' = blockSize /\ buggyRom' = buggyRom /\ payload' = payload
      /\ written' = written /\ full' = full /\ context' = context /\ fed' = fed /\ room' = room
      /\ flash' = flash
      /\ verdict' = CASE buggyRom -> "UNSUPPORTED_FUNC"
                      [] ~buggyRom /\ Match(MD5Final(context), Digest(region)) -> "SUCCESS"
                      [] OTHER -> "INVALID_MD5"
  BY DEF FlashVerify, client
<1>2. ImageType /\ n \in Nat /\ image \in Message /\ fed \in Message
  BY BlocksType, BytesAreNumbers DEF ImageInv, ImageType
<1>3. region \in Message /\ Len(region) = n /\ \A i \in 1 .. n : region[i] = flash[i]
  <2>1. flash \in Message /\ Len(flash) = MaxImage + blockSize /\ n <= MaxImage /\ blockSize \in Nat
    BY <1>2, ImageBounds, BytesAreNumbers DEF ImageType
  <2>2. n \in 0 .. Len(flash)
    BY <1>2, <2>1, ImageBounds
  <2> HIDE DEF n
  <2> QED
    BY <2>1, <2>2, Split
<1> HIDE DEF region
<1>4. MD5Final(context) = Digest(fed)
  BY <1>2, FinalIs DEF ImageInv
<1>5. Len(fed) = n => fed = image
  <2> SUFFICES ASSUME Len(fed) = n PROVE fed = image
    OBVIOUS
  <2>1. \A i \in 1 .. Len(fed) : fed[i] = image[i]
    BY <1>1 DEF ImageInv, Hashing
  <2> QED
    BY <1>2, <2>1, SeqEqual DEF Message
<1>6. ASSUME verdict' = "SUCCESS" PROVE region = image
  <2>1. Digest(fed) = Digest(region)
    <3>1. Match(MD5Final(context), Digest(region))
      BY <1>1, <1>6
    <3> QED
      BY <1>4, <3>1 DEF Match
  <2>2. fed = region
    BY <1>2, <1>3, <2>1, DigestTells
  <2> QED
    BY <1>3, <1>5, <2>2
<1>7. ASSUME verdict' = "INVALID_MD5", full, Aligned PROVE FALSE
  <2>1. ~buggyRom /\ ~Match(MD5Final(context), Digest(region))
    BY <1>1, <1>7
  <2>2. Len(fed) = n /\ \A i \in 1 .. n : flash[i] = image[i]
    BY <1>1, <1>7, <2>1 DEF ImageInv, Placed
  <2>3. fed = image
    BY <1>5, <2>2
  <2>4. \A i \in 1 .. Len(region) : region[i] = image[i]
    BY <1>3, <2>2
  <2>5. region = image
    BY <1>2, <1>3, <2>4, SeqEqual DEF Message
  <2> QED
    BY <1>4, <2>1, <2>3, <2>5 DEF Match
<1>8. VerdictSound'
  <2>1. Correct' <=> region = image
    BY <1>1 DEF Correct, region
  <2> QED
    BY <1>6, <2>1 DEF VerdictSound
<1>9. AlignedVerifies'
  <2>1. Aligned' <=> Aligned
    BY <1>1 DEF Aligned
  <2> QED
    BY <1>1, <1>7, <2>1 DEF AlignedVerifies
<1>10. ImageType' /\ Hashing' /\ Holds(context, fed)'
  BY <1>1, <1>2 DEF ImageInv, ImageType, Hashing
<1>11. Started' /\ Placed'
  BY <1>1 DEF Started, Placed
<1> QED
  BY <1>8, <1>9, <1>10, <1>11 DEF ImageInv

LEMMA ImageAlways == Spec => []ImageInv
<1>1. ImageInv /\ [Next]_vars => ImageInv'
  <2> SUFFICES ASSUME ImageInv, [Next]_vars PROVE ImageInv'
    OBVIOUS
  <2>1. CASE FlashStart
    BY <2>1, StartKeeps
  <2>2. CASE \E size \in 1 .. MaxImage, behind \in Byte : FlashWrite(size, behind)
    BY <2>2, WriteKeeps
  <2>3. CASE FlashVerify
    BY <2>3, VerifyKeeps
  <2>4. CASE UNCHANGED vars
    BY <2>4 DEF vars, client, ImageInv, ImageType, Started, Hashing, Placed, Aligned,
                VerdictSound, AlignedVerifies, Correct
  <2> QED
    BY <2>1, <2>2, <2>3, <2>4 DEF Next
<1> QED
  BY ImageStart, <1>1, PTL DEF Spec

\* Whatever the pieces md5_update is given, and wherever the blocks end, the
\* digest of md5_final is the one RFC 1321 defines for the bytes it was fed.
THEOREM PiecesDoNotMatter == Spec => []ChunkingIrrelevant
<1>1. ImageInv => ChunkingIrrelevant
  BY FinalIs DEF ImageInv, ImageType, ChunkingIrrelevant
<1> QED
  BY ImageAlways, <1>1, PTL

\* When flash_verify succeeds the flash holds the image, however the client
\* cuts it, whatever the alignment and whatever lies behind the buffer.
THEOREM VerdictIsSound == Spec => []VerdictSound
<1>1. ImageInv => VerdictSound
  BY DEF ImageInv
<1> QED
  BY ImageAlways, <1>1, PTL

\* And it succeeds for a client that fills its blocks, if the sizes are aligned.
THEOREM AlignedImageVerifies == Spec => []AlignedVerifies
<1>1. ImageInv => AlignedVerifies
  BY DEF ImageInv
<1> QED
  BY ImageAlways, <1>1, PTL
=============================================================================
