------------------------------ MODULE Md5Buffer ------------------------------
(***************************************************************************)
(* The buffering of the MD5 implementation (md5_hash.c): MD5Update cuts a  *)
(* message that arrives in pieces of any length into blocks of 64 bytes,   *)
(* and MD5Final pads the last one and appends the length.  MD5Transform is *)
(* abstracted to the list of the blocks it is applied to.                  *)
(***************************************************************************)
EXTENDS Naturals, Sequences

CONSTANTS
  BlockLen,    \* 64 in the code
  LengthLen,   \* 8 in the code: the bytes of the length field
  WordValues   \* 2^32 in the code: one word of the bit counter

ASSUME BlockAssumption ==
  BlockLen \in Nat /\ LengthLen \in Nat \ {0} /\ LengthLen < BlockLen
ASSUME WordAssumption == WordValues \in Nat \ {0} /\ WordValues % (8 * BlockLen) = 0

Zero == 0
Mark == 128
Old  == 85  \* what ctx->in holds before the first update

Overlay(buffer, at, data) ==
  [i \in 1 .. BlockLen |->
     IF at < i /\ i <= at + Len(data) THEN data[i - at] ELSE buffer[i]]

Fill(n, byte) == [i \in 1 .. n |-> byte]

Raw(block) == [bytes |-> block, length |-> <<>>]

\* A context: the block being filled, the two words of the bit counter, and
\* the blocks MD5Transform was applied to.
MD5Init == [in |-> Fill(BlockLen, Old), bits |-> <<0, 0>>, blocks |-> <<>>]

\* The bytes waiting in the block, from the bit counter.
Waiting(bits) == (bits[1] \div 8) % BlockLen

Count(bits, len) ==
  LET low   == (bits[1] + 8 * len) % WordValues
      carry == IF low < bits[1] THEN 1 ELSE 0
  IN  <<low, (bits[2] + carry + (8 * len) \div WordValues) % WordValues>>

MD5Update(ctx, data) ==
  LET t     == Waiting(ctx.bits)
      head  == IF t = 0 THEN 0 ELSE BlockLen - t
      first == Overlay(ctx.in, t, SubSeq(data, 1, head))
      rest  == SubSeq(data, head + 1, Len(data))
      whole == Len(rest) \div BlockLen
      Block(j) == SubSeq(rest, (j - 1) * BlockLen + 1, j * BlockLen)
      tail  == SubSeq(rest, whole * BlockLen + 1, Len(rest))
      last  == CASE whole > 0 -> Block(whole)
                 [] whole = 0 /\ t # 0 -> first
                 [] OTHER -> ctx.in
  IN
  IF t # 0 /\ Len(data) < head
  THEN [in |-> Overlay(ctx.in, t, data), bits |-> Count(ctx.bits, Len(data)), blocks |-> ctx.blocks]
  ELSE [in     |-> Overlay(last, 0, tail),
        bits   |-> Count(ctx.bits, Len(data)),
        blocks |-> ctx.blocks \o (IF t = 0 THEN <<>> ELSE <<Raw(first)>>)
                              \o [j \in 1 .. whole |-> Raw(Block(j))]]

\* Is there no room left for the length field behind the mark?
Mut_NeedsTwo(room) == room <= LengthLen
NeedsTwo(room) == room < LengthLen

\* The digest: all blocks, the last of them with the length.
MD5Final(ctx) ==
  LET count  == Waiting(ctx.bits)
      room   == BlockLen - 1 - count
      marked == Overlay(ctx.in, count, <<Mark>>)
      End(buffer, at, zeros) ==
        [bytes  |-> SubSeq(Overlay(buffer, at, Fill(zeros, Zero)), 1, BlockLen - LengthLen),
         length |-> ctx.bits]
  IN
  ctx.blocks \o
    (IF NeedsTwo(room)
     THEN <<Raw(Overlay(marked, count + 1, Fill(room, Zero))),
            End(marked, 0, BlockLen - LengthLen)>>
     ELSE <<End(marked, count + 1, room - LengthLen)>>)

-----------------------------------------------------------------------------
(* RFC 1321, by which the target computes its digest (external): the       *)
(* message, the mark, and zeros up to the length field of a block.         *)

Padded(message) ==
  LET zeros == CHOOSE z \in 0 .. BlockLen - 1 :
                 (Len(message) + 1 + z + LengthLen) % BlockLen = 0
  IN  message \o <<Mark>> \o Fill(zeros, Zero)

\* The length of the message in bits, in two words.
BitLength(message) ==
  LET n == 8 * Len(message) IN <<n % WordValues, (n \div WordValues) % WordValues>>

Digest(message) ==
  LET m == Padded(message)
      n == (Len(m) + LengthLen) \div BlockLen
      End(j) == IF j = n THEN Len(m) ELSE j * BlockLen
  IN  [j \in 1 .. n |->
         [bytes  |-> SubSeq(m, (j - 1) * BlockLen + 1, End(j)),
          length |-> IF j = n THEN BitLength(message) ELSE <<>>]]
=============================================================================
