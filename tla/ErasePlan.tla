------------------------------ MODULE ErasePlan ------------------------------
(***************************************************************************)
(* calc_erase_size (esp_loader.c): the erase size esp_loader_flash_start   *)
(* announces.  The ESP8266 ROM erases more than it is asked to, and the    *)
(* host asks for less to make up for it.                                   *)
(***************************************************************************)
EXTENDS Naturals

CONSTANTS
  SectorsPerBlock,  \* 16 in the code
  SectorSize        \* 4096 in the code

ASSUME SectorAssumption ==
  SectorsPerBlock \in Nat \ {0} /\ SectorSize \in Nat \ {0}

Sectors(bytes) == (bytes + SectorSize - 1) \div SectorSize

\* Sectors from the offset, in sectors, to the end of its block.
HeadSectors(o) == SectorsPerBlock - (o % SectorsPerBlock)

\* The two branches of calc_erase_size for the ESP8266 ROM, in sectors.
Mut_SectorsAsked(num, head) == IF num < head THEN (num + 1) \div 2 ELSE num - head
SectorsAsked(num, head) == IF num <= head THEN (num + 1) \div 2 ELSE num - head

CalcEraseSize(buggyRom, o, size) ==
  IF buggyRom THEN SectorsAsked(Sectors(size), HeadSectors(o)) * SectorSize ELSE size

\* External, from the comment in calc_erase_size: the ROM "deletes extra
\* num_sectors if we don't cross the block boundary and extra head_sectors if
\* we do".
RomErases(num, head) == IF num <= head THEN 2 * num ELSE num + head

\* The sectors the target erases for an erase size.
ErasedSectors(buggyRom, o, asked) ==
  IF buggyRom THEN RomErases(Sectors(asked), HeadSectors(o)) ELSE Sectors(asked)

\* The image ends in the block it starts in, or beyond as much again.
ShortOrLong(num, head) == num <= head \/ num >= 2 * head
=============================================================================
