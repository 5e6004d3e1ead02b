\* Every image of up to 7 bytes, cut into chunks in every way, from every sector
\* of a block of three.  Lengths are scaled down with the alignment.
CONSTANTS
  SectorsPerBlock = 3
  SectorSize = 2
  BlockLen = 4
  LengthLen = 1
  WordValues = 32
  Align = 2
  BlockSizes = {2, 3, 4}
  MaxOffset = 2
  MaxImage = 7
SPECIFICATION Spec
CHECK_DEADLOCK FALSE
INVARIANTS
  VerdictSound
  AlignedVerifies
  ChunkingIrrelevant
  EraseTight
