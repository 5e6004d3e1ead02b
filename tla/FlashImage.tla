----------------------------- MODULE FlashImage -----------------------------
(***************************************************************************)
(* One flashing session at the level of bytes: the region that             *)
(* esp_loader_flash_start has erased and the blocks it announces, how      *)
(* esp_loader_flash_write (esp_loader.c) pads a payload and how much of it *)
(* it hashes, and what esp_loader_flash_verify makes of the digest.        *)
(* Nothing is lost here (that is FlashSession).                            *)
(*                                                                         *)
(* The client copies the image chunk by chunk into one buffer, as          *)
(* flash_binary (example_common.c) does; chunks may have any size.  Bytes  *)
(* are 0x00 or 0xFF: programming the flash clears bits, erasing it sets    *)
(* them.                                                                   *)
(***************************************************************************)
EXTENDS ErasePlan, Md5Buffer

CONSTANTS
  Align,       \* 4 in the code
  BlockSizes,  \* block_size arguments of flash_start
  MaxOffset,   \* bound on the offset of an image, in sectors
  MaxImage     \* bound on the size of an image, in bytes

ASSUME AlignAssumption  == Align \in Nat \ {0}
ASSUME BlocksAssumption == BlockSizes \subseteq Nat \ {0}
ASSUME ImageBounds      == MaxOffset \in Nat /\ MaxImage \in Nat

Pad  == 255  \* PADDING_PATTERN, and what an erased byte holds
Byte == {0, Pad}

VARIABLES
  phase,      \* of the client: "start", "write", "failed" or "done"
  image,      \* what the client flashes
  offset,     \* its first sector
  buggyRom,   \* s_target is the ESP8266 and no stub is running
  blockSize,  \* s_flash_write_size
  payload,    \* the client's buffer, of blockSize bytes
  written,    \* bytes of the image passed to flash_write so far
  full,       \* every call but the last filled its block
  context,    \* s_md5_context
  fed,        \* history: what the context was fed
  verdict,    \* what flash_verify returned
  erased,     \* the target: sectors it has erased from the offset on
  room,       \* the target: blocks it still expects
  flash       \* the target: the bytes from the offset on

client == <<image, offset, buggyRom, blockSize>>
vars   == <<client, phase, payload, written, full, context, fed, verdict, erased, room, flash>>

CeilDiv(n, d) == (n + d - 1) \div d

BlocksToWrite(size, block) == CeilDiv(size, block)

\* The bytes of the buffer after the chunk, if the chunk is copied to its front.
PadTo(buffer, chunk) ==
  [i \in 1 .. Len(buffer) |-> IF i <= Len(chunk) THEN chunk[i] ELSE Pad]

\* md5_update(payload, (size + 3) & ~3); behind the buffer lies anything.
Mut_Hashed(buffer, size, behind) == buffer
Hashed(buffer, size, behind) ==
  [i \in 1 .. Align * CeilDiv(size, Align) |-> IF i <= Len(buffer) THEN buffer[i] ELSE behind]

\* The comparison of flash_verify.
Mut_Match(computed, received) == computed[Len(computed)] = received[Len(received)]
Match(computed, received) == computed = received

Init ==
  /\ phase = "start"
  /\ image \in UNION {[1 .. n -> Byte] : n \in 0 .. MaxImage}
  /\ offset \in 0 .. MaxOffset
  /\ buggyRom \in BOOLEAN
  /\ blockSize \in BlockSizes
  /\ payload \in {[i \in 1 .. blockSize |-> b] : b \in Byte}
  /\ written = 0
  /\ full = TRUE
  /\ context = MD5Init
  /\ fed = <<>>
  /\ verdict = "none"
  /\ erased = 0
  /\ room = 0
  /\ flash = [i \in 1 .. MaxImage + blockSize |-> 0]

FlashStart ==
  LET asked   == CalcEraseSize(buggyRom, offset, Len(image))
      sectors == ErasedSectors(buggyRom, offset, asked)
  IN
  /\ phase = "start"
  /\ phase' = "write"
  /\ erased' = sectors
  /\ room' = BlocksToWrite(Len(image), blockSize)
  /\ flash' = [i \in DOMAIN flash |-> IF i <= sectors * SectorSize THEN Pad ELSE flash[i]]
  /\ UNCHANGED <<client, payload, written, full, context, fed, verdict>>

\* External: the target programs a block behind the last one, and as many as
\* were announced.
Program(block) ==
  LET at == (BlocksToWrite(Len(image), blockSize) - room) * blockSize
      Written(i) == i \in at + 1 .. at + Len(block)
  IN
  \/ /\ room > 0
     /\ room' = room - 1
     /\ flash' = [i \in DOMAIN flash |-> IF Written(i) /\ block[i - at] = 0 THEN 0 ELSE flash[i]]
     /\ UNCHANGED phase
  \/ /\ room = 0
     /\ phase' = "failed"
     /\ UNCHANGED <<room, flash>>

\* A size above the block size is INVALID_PARAM before anything is padded or sent.
FlashWrite(size, behind) ==
  LET padded == PadTo(payload, SubSeq(image, written + 1, written + size))
      data   == Hashed(padded, size, behind)
  IN
  /\ phase = "write"
  /\ size <= blockSize
  /\ written + size <= Len(image)
  /\ payload' = padded
  /\ context' = MD5Update(context, data)
  /\ fed' = fed \o data
  /\ Program(padded)
  /\ written' = written + size
  /\ full' = (full /\ (size = blockSize \/ written + size = Len(image)))
  /\ UNCHANGED <<client, verdict, erased>>

FlashVerify ==
  /\ phase = "write"
  /\ written = Len(image)
  /\ verdict' =
       CASE buggyRom -> "UNSUPPORTED_FUNC"
         [] ~buggyRom /\ Match(MD5Final(context), Digest(SubSeq(flash, 1, Len(image)))) -> "SUCCESS"
         [] OTHER -> "INVALID_MD5"
  /\ phase' = "done"
  /\ UNCHANGED <<client, payload, written, full, context, fed, erased, room, flash>>

Next ==
  \/ FlashStart
  \/ \E size \in 1 .. MaxImage, behind \in Byte : FlashWrite(size, behind)
  \/ FlashVerify

Spec == Init /\ [][Next]_vars

-----------------------------------------------------------------------------
(* Properties *)

Correct == SubSeq(flash, 1, Len(image)) = image

Aligned == Len(image) % Align = 0 /\ blockSize % Align = 0

Erasable == buggyRom => ShortOrLong(Sectors(Len(image)), HeadSectors(offset))

\* However the client cuts the image into chunks, and whatever lies behind its
\* buffer: when flash_verify succeeds, the flash holds the image, without the
\* padding of a short chunk in between.
VerdictSound == verdict = "SUCCESS" => Correct

\* For a client that fills every block but the last, and sizes that are
\* multiples of Align, flash_verify succeeds.
AlignedVerifies == verdict = "INVALID_MD5" => ~full \/ ~Aligned

\* The blocks that are hashed are those RFC 1321 defines for the message,
\* whatever the pieces md5_update was given it in and wherever it ends.
ChunkingIrrelevant == MD5Final(context) = Digest(fed)

\* An image that ends before its first block does, or is at least twice as
\* long as the rest of that block, is erased completely and with at most one
\* sector to spare.
EraseTight ==
  phase # "start" /\ Erasable => erased \in Sectors(Len(image)) .. Sectors(Len(image)) + 1
=============================================================================
