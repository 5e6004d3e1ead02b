\* Every fault of the line and the target; a call that gives up leaves the line empty.
CONSTANTS
  MaxLate = 0
  Faults = {"lose_command", "lose_answer", "garble", "refuse"}
  Blocks = {b1, b2}
  Erased = erased
  FlashLen = 2
  MaxBase = 1
  MaxSize = 2
  Retries = 2
  Policies = {"append", "positional", "strict"}
SPECIFICATION Spec
INVARIANTS
  TypeOK
  VerifySound
  MismatchIsReal
  AckedImageIsInFlash
PROPERTIES
  KeepsPromise
SYMMETRY Symmetry
