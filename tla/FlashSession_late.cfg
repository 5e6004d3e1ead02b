\* Frames may outlive their calls and be taken for the answers of later ones.
CONSTANTS
  MaxLate = 2
  Faults = {"lose_command", "lose_answer", "garble", "refuse"}
  Blocks = {b1, b2}
  Erased = erased
  FlashLen = 1
  MaxBase = 0
  MaxSize = 1
  Retries = 2
  Policies = {"append", "strict"}
SPECIFICATION Spec
INVARIANT VerifySound
PROPERTY CallsReturn
