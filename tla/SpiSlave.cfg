\* Two sessions of three commands; the target's buffer takes all but the block.
SPECIFICATION Spec
CONSTANTS
  Calls = {"MEM_BEGIN", "MEM_DATA", "MEM_END", "SPI_FLASH_MD5"}
  Block = 16
  BufferSize = 24
  Prompt = {TRUE, FALSE}
  Trials = 2
  CounterRange = 256
  MaxSessions = 2
  MaxCalls = 3
  MaxFaults = 2
INVARIANTS
  CleanCallsWork
  SentIntoBuffer
  AcknowledgedWereExecuted
PROPERTIES
  Returns
CHECK_DEADLOCK FALSE
